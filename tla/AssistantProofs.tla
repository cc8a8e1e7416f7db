-------------------------- MODULE AssistantProofs --------------------------
(***************************************************************************)
(* Proofs about the assistant: GhostHub, which serves the models, for any  *)
(* number of Playgrounds, streams, tokens and troubles; then AgentChat,    *)
(* which asks them, for any saved chats, loops, agents, turns, edits and   *)
(* strokes.                                                                *)
(***************************************************************************)
EXTENDS GhostHub, AgentChat, TLAPS

-----------------------------------------------------------------------------
(* The hub: calls and messages. *)

\* A call is made of its Playground and its number.
LEMMA CallParts ==
    /\ \A c \in Calls : c[1] \in Peers /\ c[2] \in 1 .. MaxStreams /\ c = <<c[1], c[2]>>
    /\ \A p \in Peers, k \in 1 .. MaxStreams : <<p, k>> \in Calls
    /\ \A p \in Peers : Of(p) \subseteq Calls /\ \A c \in Of(p) : c[1] = p
    /\ \A c \in Calls : c \in Of(c[1])
BY SMT DEF Calls, Of

\* The messages of the hub are well typed.
LEMMA MessageTypes ==
    /\ \A s \in {"approved", "pending", "denied"} : Auth(s) \in ToPeer
    /\ \A c \in Calls : Error(c) \in ToPeer
    /\ \A C \in SUBSET Calls : Ends(C) \in ToPeer
    /\ \A c \in Calls, w \in Words : Text(c, w) \in ToPeer
<1>1. \A c \in Calls : Id(c) \in Ids
  BY DEF Ids
<1>2. \A C \in SUBSET Calls : {Id(c) : c \in C} \in SUBSET Ids
  BY <1>1
<1> HIDE DEF Ids
<1>3. \A s \in {"approved", "pending", "denied"} : Auth(s) \in ToPeer
  BY SMT DEF Auth, ToPeer
<1>4. \A c \in Calls : Error(c) \in ToPeer
  BY <1>1, SMT DEF Error, ToPeer
<1>5. \A C \in SUBSET Calls : Ends(C) \in ToPeer
  BY <1>2, SMT DEF Ends, ToPeer
<1>6. \A c \in Calls, w \in Words : Text(c, w) \in ToPeer
  BY <1>1, SMT DEF Text, ToPeer
<1> QED
  BY <1>3, <1>4, <1>5, <1>6

\* Sending messages of a set to peers whose queues hold messages of that
\* set leaves them so.
LEMMA SendKeeps ==
    ASSUME NEW S, toPeer \in [Peers -> Seq(S)],
           NEW reach \in [Peers -> Seq(S)], Send(reach)
    PROVE  toPeer' \in [Peers -> Seq(S)]
<1>1. \A p \in Peers : toPeer[p] \o reach[p] \in Seq(S)
  BY SMT
<1> QED
  BY <1>1, SMT DEF Send

LEMMA OnlyType ==
    ASSUME NEW S, NEW p, NEW msgs \in Seq(S)
    PROVE  Only(p, msgs) \in [Peers -> Seq(S)]
BY SMT DEF Only

LEMMA ClosingType ==
    ASSUME NEW S, NEW C, Ends(C) \in S
    PROVE  Closing(C) \in Seq(S)
BY SMT DEF Closing

\* What a Playground tells the hub joins its queue, or is lost.
LEMMA TellKeeps ==
    ASSUME NEW S, toHub \in [Peers -> Seq(S)], NEW p \in Peers, NEW m \in S, Tell(p, m)
    PROVE  toHub' \in [Peers -> Seq(S)]
BY SMT DEF Tell

\* Receiving takes a message off a queue.
LEMMA ReceivedKeeps ==
    ASSUME NEW S, toPeer \in [Peers -> Seq(S)], NEW p \in Peers, Received(p)
    PROVE  toPeer' \in [Peers -> Seq(S)] /\ Head(toPeer[p]) \in S
BY SMT DEF Received

\* So does the hub's end.
LEMMA ArrivedKeeps ==
    ASSUME NEW S, toHub \in [Peers -> Seq(S)], NEW p \in Peers, NEW kind, Arrived(p, kind)
    PROVE  toHub' \in [Peers -> Seq(S)] /\ Head(toHub[p]) \in S /\ Head(toHub[p])[1] = kind
BY SMT DEF Arrived

-----------------------------------------------------------------------------
(* Types. *)

LEMMA TypeInit == Init => TypeOK
<1> SUFFICES ASSUME Init PROVE TypeOK
  OBVIOUS
<1>1. 0 \in 0 .. MaxTokens /\ MaxTrouble \in 0 .. MaxTrouble
  BY BoundsAssumption, SMT
<1>2. Admitted \subseteq Peers
  BY PeersAssumption
<1>3. emitted \in [Calls -> 0 .. MaxTokens] /\ trouble \in 0 .. MaxTrouble
  BY <1>1, SMT DEF Init
<1>4. /\ flag \in BOOLEAN /\ loaded \in BOOLEAN
      /\ ready \in [Peers -> BOOLEAN] /\ linked \in [Peers -> BOOLEAN]
  <2>1. [p \in Peers |-> p \in Admitted] \in [Peers -> BOOLEAN]
    OBVIOUS
  <2> QED
    BY <2>1, Zenon DEF Init
<1>5. /\ got \in [Calls -> Seq(Words)]
      /\ toHub \in [Peers -> Seq(ToHub)] /\ toPeer \in [Peers -> Seq(ToPeer)]
  BY SMT DEF Init
<1>6. /\ reply \in [Calls -> {"unused", "open", "done", "failed"}]
      /\ hub \in [Peers -> {"gone", "pending", "approved"}]
      /\ serving \in [Calls -> {"none", "starting", "listening", "ended"}]
      /\ task \in [Calls -> {"none", "starting", "waiting", "generating", "over"}]
      /\ swap \in {"none", "unloading", "loading"}
  BY SMT DEF Init
<1> QED
  BY <1>2, <1>3, <1>4, <1>5, <1>6, Zenon
  DEF Init, TypeOK, PlaygroundOK, WireOK, AdmissionOK, ServerOK, EngineOK, HistoryOK

\* The abort of some calls changes the servers and the flag.
LEMMA AbortTypes ==
    ASSUME TypeOK, NEW C \in SUBSET Calls, Abort(C)
    PROVE  /\ signal' \subseteq Calls
           /\ serving' \in [Calls -> {"none", "starting", "listening", "ended"}]
           /\ flag' \in BOOLEAN
<1>1. signal' \subseteq Calls
  BY SMT DEF Abort, TypeOK, ServerOK, EngineOK
<1>2. serving' \in [Calls -> {"none", "starting", "listening", "ended"}]
  BY SMT DEF Abort, TypeOK, ServerOK, EngineOK
<1>3. flag' \in BOOLEAN
  BY Zenon DEF Abort, TypeOK, ServerOK, EngineOK
<1> QED
  BY <1>1, <1>2, <1>3

\* Giving up changes what a Playground knows of itself.
LEMMA LoseTypes ==
    ASSUME TypeOK, NEW p \in Peers, Lose(p)
    PROVE  /\ ready' \in [Peers -> BOOLEAN]
           /\ reply' \in [Calls -> {"unused", "open", "done", "failed"}]
<1>1. ready' \in [Peers -> BOOLEAN]
  BY Zenon DEF Lose, TypeOK, PlaygroundOK
<1>2. reply' \in [Calls -> {"unused", "open", "done", "failed"}]
  BY SMT DEF Lose, TypeOK, PlaygroundOK
<1> QED
  BY <1>1, <1>2

\* What is passed on of a task's event is a message of the same set.
LEMMA PassKeeps ==
    ASSUME NEW S, toPeer \in [Peers -> Seq(S)], NEW c \in Calls,
           NEW msg \in [Calls -> S], Pass(c, msg)
    PROVE  toPeer' \in [Peers -> Seq(S)]
<1> DEFINE reach == [p \in Peers |-> IF Hearers(c) \cap Of(p) = {} THEN <<>>
                          ELSE <<msg[CHOOSE d \in Hearers(c) \cap Of(p) : TRUE]>>]
<1>1. ASSUME NEW p \in Peers, Hearers(c) \cap Of(p) # {}
      PROVE  (CHOOSE d \in Hearers(c) \cap Of(p) : TRUE) \in Calls
  BY <1>1, CallParts, Zenon
<1>2. reach \in [Peers -> Seq(S)]
  BY <1>1, SMT
<1>3. Send(reach)
  BY DEF Pass
<1> HIDE DEF reach
<1> QED
  BY <1>2, <1>3, SendKeeps

\* The end of a task keeps the types of all it changes.
LEMMA ConcludeTypes ==
    ASSUME TypeOK, NEW c \in Calls, NEW msg \in [Calls -> ToPeer], Conclude(c, msg)
    PROVE  /\ task' \in [Calls -> {"none", "starting", "waiting", "generating", "over"}]
           /\ serving' \in [Calls -> {"none", "starting", "listening", "ended"}]
           /\ toPeer' \in [Peers -> Seq(ToPeer)]
           /\ missed' \subseteq Calls
<1>1. /\ task' = [task EXCEPT ![c] = "over"]
      /\ serving' = [d \in Calls |-> IF d \in Hearers(c) THEN "ended" ELSE serving[d]]
      /\ Pass(c, msg)
      /\ missed' = IF serving[c] = "starting" THEN missed \cup {c} ELSE missed
  BY Zenon DEF Conclude, Miss
<1>2. toPeer' \in [Peers -> Seq(ToPeer)]
  BY <1>1, PassKeeps DEF TypeOK, WireOK, ServerOK, EngineOK, HistoryOK
<1>3. missed' \subseteq Calls
  BY <1>1, SMT DEF TypeOK, WireOK, ServerOK, EngineOK, HistoryOK
<1>4. task' \in [Calls -> {"none", "starting", "waiting", "generating", "over"}]
  BY <1>1, SMT DEF TypeOK, WireOK, ServerOK, EngineOK, HistoryOK
<1>5. serving' \in [Calls -> {"none", "starting", "listening", "ended"}]
  BY <1>1, SMT DEF TypeOK, WireOK, ServerOK, EngineOK, HistoryOK
<1> QED
  BY <1>2, <1>3, <1>4, <1>5

-----------------------------------------------------------------------------
\* What a step leaves alone keeps its types.
LEMMA Untouched ==
    ASSUME TypeOK
    PROVE  /\ UNCHANGED playgroundVars => PlaygroundOK'
           /\ UNCHANGED wireVars => WireOK'
           /\ UNCHANGED admissionVars => AdmissionOK'
           /\ UNCHANGED serverVars => ServerOK'
           /\ UNCHANGED engineVars => EngineOK'
           /\ UNCHANGED historyVars => HistoryOK'
           /\ UNCHANGED trouble => trouble' \in 0 .. MaxTrouble
<1>1. UNCHANGED playgroundVars => PlaygroundOK'
  BY Zenon DEF TypeOK, PlaygroundOK, playgroundVars
<1>2. UNCHANGED wireVars => WireOK'
  BY Zenon DEF TypeOK, WireOK, wireVars
<1>3. UNCHANGED admissionVars => AdmissionOK'
  BY Zenon DEF TypeOK, AdmissionOK, admissionVars
<1>4. UNCHANGED serverVars => ServerOK'
  BY Zenon DEF TypeOK, ServerOK, serverVars
<1>5. UNCHANGED engineVars => EngineOK'
  BY Zenon DEF TypeOK, EngineOK, engineVars
<1>6. UNCHANGED historyVars => HistoryOK'
  BY Zenon DEF TypeOK, HistoryOK, historyVars
<1> QED
  BY <1>1, <1>2, <1>3, <1>4, <1>5, <1>6, Zenon DEF TypeOK

-----------------------------------------------------------------------------
\* Every step keeps the types.
LEMMA TypeStep == TypeOK /\ [Next]_vars => TypeOK'
<1> SUFFICES ASSUME TypeOK, [Next]_vars PROVE TypeOK'
  OBVIOUS
<1>1. ASSUME NEW p \in Peers, Join(p) PROVE TypeOK'
  <2>1. WireOK'
    <3>1. [q \in Peers |-> IF linked'[q] THEN Append(toHub[q], <<"hello", 0>>) ELSE toHub[q]] \in [Peers -> Seq(ToHub)]
      BY SMT DEF TypeOK, WireOK, ToHub
    <3>2. linked' \in [Peers -> BOOLEAN]
      BY <1>1, SMT DEF Join, TypeOK, WireOK
    <3> QED
      BY <1>1, <3>1, <3>2, Zenon DEF Join, TypeOK, WireOK
  <2>2. AdmissionOK'
    BY <1>1, SMT DEF Join, TypeOK, AdmissionOK
  <2>3. trouble' \in 0 .. MaxTrouble
    BY <1>1, BoundsAssumption, SMT DEF Join, TypeOK
  <2> QED
    BY <1>1, <2>1, <2>2, <2>3, Untouched, Zenon DEF Join, TypeOK
<1>2. ASSUME NEW p \in Peers, Drop(p) PROVE TypeOK'
  <2>1. PlaygroundOK'
    <3>1. Lose(p) \/ UNCHANGED <<ready, reply>>
      BY <1>2, Zenon DEF Drop
    <3>2. /\ ready' \in [Peers -> BOOLEAN]
          /\ reply' \in [Calls -> {"unused", "open", "done", "failed"}]
      BY <3>1, LoseTypes, Zenon DEF TypeOK, PlaygroundOK
    <3>3. got' \in [Calls -> Seq(Words)] /\ stopped' \subseteq Calls
      BY <1>2, Zenon DEF Drop, TypeOK, PlaygroundOK
    <3> QED
      BY <3>2, <3>3, Zenon DEF PlaygroundOK
  <2>2. WireOK'
    BY <1>2, SMT DEF Drop, TypeOK, WireOK
  <2>3. AdmissionOK'
    BY <1>2, SMT DEF Drop, TypeOK, AdmissionOK
  <2>4. ServerOK' /\ flag' \in BOOLEAN
    <3>1. (IF hub[p] = "gone" THEN {} ELSE Of(p)) \in SUBSET Calls
      BY CallParts, Zenon
    <3>2. Abort(IF hub[p] = "gone" THEN {} ELSE Of(p))
      BY <1>2, Zenon DEF Drop
    <3> QED
      BY <3>1, <3>2, AbortTypes DEF ServerOK
  <2>5. EngineOK'
    BY <1>2, <2>4, Zenon DEF Drop, TypeOK, EngineOK
  <2>6. HistoryOK'
    BY <1>2, CallParts, SMT DEF Drop, TypeOK, HistoryOK
  <2>7. trouble' \in 0 .. MaxTrouble
    BY <1>2, BoundsAssumption, SMT DEF Drop, TypeOK
  <2> QED
    BY <1>2, <2>1, <2>2, <2>3, <2>4, <2>5, <2>6, <2>7, Untouched, Zenon DEF Drop, TypeOK
<1>3. ASSUME NEW p \in Peers, Ask(p) PROVE TypeOK'
  <2>1. PICK k \in 1 .. MaxStreams :
         /\ reply' = [reply EXCEPT ![<<p, k>>] = "open"]
         /\ Tell(p, <<"stream", k>>)
    BY <1>3, Zenon DEF Ask
  <2>2. ready' = ready /\ got' = got /\ stopped' = stopped /\ linked' = linked /\ toPeer' = toPeer
    BY <1>3, Zenon DEF Ask
  <2>3. reply' \in [Calls -> {"unused", "open", "done", "failed"}]
    <3> DEFINE c == <<p, k>>
    <3>1. c \in Calls
      BY CallParts
    <3>2. reply' = [reply EXCEPT ![c] = "open"]
      BY <2>1
    <3> HIDE DEF c
    <3> QED
      BY <3>1, <3>2, SMT DEF TypeOK, PlaygroundOK
  <2>4. PlaygroundOK'
    BY <2>2, <2>3, Zenon DEF TypeOK, PlaygroundOK
  <2>5. <<"stream", k>> \in ToHub
    BY SMT DEF ToHub
  <2>6. WireOK'
    BY <2>1, <2>2, <2>5, TellKeeps, Zenon DEF TypeOK, WireOK
  <2> QED
    BY <1>3, <2>4, <2>6, Untouched, Zenon DEF Ask, TypeOK
<1>4. ASSUME NEW c \in Calls, PressStop(c) PROVE TypeOK'
  <2>1. <<"abort", c[2]>> \in ToHub /\ c[1] \in Peers
    BY CallParts, SMT DEF ToHub
  <2>2. PlaygroundOK'
    BY <1>4, SMT DEF PressStop, TypeOK, PlaygroundOK
  <2>3. WireOK'
    BY <1>4, <2>1, TellKeeps, Zenon DEF PressStop, TypeOK, WireOK
  <2> QED
    BY <1>4, <2>2, <2>3, Untouched, Zenon DEF PressStop, TypeOK
<1>5. ASSUME NEW p \in Peers, TakeAuth(p) PROVE TypeOK'
  <2>1. PlaygroundOK'
    <3>1. ready' \in [Peers -> BOOLEAN]
      <4>1. (Head(toPeer[p]).status = "approved") \in BOOLEAN
        OBVIOUS
      <4> QED
        BY <1>5, <4>1, Zenon DEF TakeAuth, TypeOK, PlaygroundOK
    <3> QED
      BY <1>5, <3>1, Zenon DEF TakeAuth, TypeOK, PlaygroundOK
  <2>2. WireOK'
    BY <1>5, ReceivedKeeps, Zenon DEF TakeAuth, TypeOK, WireOK
  <2>3. HistoryOK'
    BY <1>5, SMT DEF TakeAuth, TypeOK, HistoryOK, historyVars
  <2> QED
    BY <1>5, <2>1, <2>2, <2>3, Untouched, Zenon DEF TakeAuth, TypeOK
<1>6. ASSUME NEW p \in Peers, TakeText(p) PROVE TypeOK'
  <2>1. Head(toPeer[p]) \in ToPeer /\ Head(toPeer[p]).kind = "text"
    BY <1>6, ReceivedKeeps, Zenon DEF TakeText, TypeOK, WireOK
  <2>2. Head(toPeer[p]).word \in Words
    BY <2>1, SMT DEF ToPeer
  <2>3. got' \in [Calls -> Seq(Words)]
    BY <1>6, <2>2, SMT DEF TakeText, TypeOK, PlaygroundOK
  <2>4. PlaygroundOK'
    BY <1>6, <2>3, Zenon DEF TakeText, TypeOK, PlaygroundOK
  <2>5. WireOK'
    BY <1>6, ReceivedKeeps, Zenon DEF TakeText, TypeOK, WireOK
  <2> QED
    BY <1>6, <2>4, <2>5, Untouched, Zenon DEF TakeText, TypeOK
<1>7. ASSUME NEW p \in Peers, TakeEnd(p) PROVE TypeOK'
  <2>1. reply' \in [Calls -> {"unused", "open", "done", "failed"}]
    BY <1>7, SMT DEF TakeEnd, TypeOK, PlaygroundOK
  <2>2. PlaygroundOK'
    BY <1>7, <2>1, Zenon DEF TakeEnd, TypeOK, PlaygroundOK
  <2>3. WireOK'
    BY <1>7, ReceivedKeeps, Zenon DEF TakeEnd, TypeOK, WireOK
  <2> QED
    BY <1>7, <2>2, <2>3, Untouched, Zenon DEF TakeEnd, TypeOK
<1>8. ASSUME NEW p \in Peers, Approve(p) PROVE TypeOK'
  <2>1. AdmissionOK'
    BY <1>8, SMT DEF Approve, TypeOK, AdmissionOK
  <2>2. WireOK'
    <3>1. <<Auth("approved")>> \in Seq(ToPeer)
      BY CallParts, MessageTypes, ClosingType, SMT
    <3>2. Only(p, <<Auth("approved")>>) \in [Peers -> Seq(ToPeer)]
      BY <3>1, OnlyType
    <3>3. Send(Only(p, <<Auth("approved")>>))
      BY <1>8, Zenon DEF Approve
    <3>4. toPeer' \in [Peers -> Seq(ToPeer)]
      BY <3>2, <3>3, SendKeeps DEF TypeOK, WireOK
    <3> QED
      BY <1>8, <3>1, <3>2, <3>3, <3>4, Zenon DEF Approve, TypeOK, WireOK
  <2> QED
    BY <1>8, <2>1, <2>2, Untouched, Zenon DEF Approve, TypeOK
<1>9. ASSUME NEW p \in Peers, Dismiss(p) PROVE TypeOK'
  <2>1. AdmissionOK'
    BY <1>9, SMT DEF Dismiss, TypeOK, AdmissionOK
  <2>2. Of(p) \in SUBSET Calls /\ Abort(Of(p))
    BY <1>9, CallParts, Zenon DEF Dismiss
  <2>3. ServerOK' /\ flag' \in BOOLEAN
    BY <2>2, AbortTypes DEF ServerOK
  <2>4. EngineOK'
    BY <1>9, <2>3, Zenon DEF Dismiss, TypeOK, EngineOK
  <2>5. Closing(Listening(Of(p))) \in Seq(ToPeer)
    BY CallParts, MessageTypes, ClosingType, Zenon DEF Listening
  <2>6. WireOK'
    <3>1. <<Auth("denied")>> \o Closing(Listening(Of(p))) \in Seq(ToPeer)
      BY <2>5, MessageTypes, SMT
    <3>2. Only(p, <<Auth("denied")>> \o Closing(Listening(Of(p)))) \in [Peers -> Seq(ToPeer)]
      BY <3>1, OnlyType
    <3>3. Send(Only(p, <<Auth("denied")>> \o Closing(Listening(Of(p)))))
      BY <1>9, Zenon DEF Dismiss
    <3>4. toPeer' \in [Peers -> Seq(ToPeer)]
      BY <3>2, <3>3, SendKeeps DEF TypeOK, WireOK
    <3> QED
      BY <1>9, <3>1, <3>2, <3>3, <3>4, Zenon DEF Dismiss, TypeOK, WireOK
  <2>7. trouble' \in 0 .. MaxTrouble
    BY <1>9, BoundsAssumption, SMT DEF Dismiss, TypeOK
  <2> QED
    BY <1>9, <2>1, <2>3, <2>4, <2>6, <2>7, Untouched, Zenon DEF Dismiss, TypeOK
<1>10. ASSUME NEW p \in Peers, Hello(p) PROVE TypeOK'
  <2>1. AdmissionOK'
    BY <1>10, SMT DEF Hello, TypeOK, AdmissionOK
  <2>2. WireOK'
    <3>1. <<Auth(IF p \in known THEN "approved" ELSE "pending")>> \in Seq(ToPeer)
      BY CallParts, MessageTypes, ClosingType, SMT
    <3>2. Only(p, <<Auth(IF p \in known THEN "approved" ELSE "pending")>>) \in [Peers -> Seq(ToPeer)]
      BY <3>1, OnlyType
    <3>3. Send(Only(p, <<Auth(IF p \in known THEN "approved" ELSE "pending")>>))
      BY <1>10, Zenon DEF Hello
    <3>4. toPeer' \in [Peers -> Seq(ToPeer)]
      BY <3>2, <3>3, SendKeeps DEF TypeOK, WireOK
    <3>5. toHub' \in [Peers -> Seq(ToHub)]
      BY <1>10, ArrivedKeeps, Zenon DEF Hello, TypeOK, WireOK
    <3> QED
      BY <1>10, <3>1, <3>2, <3>3, <3>4, <3>5, Zenon DEF Hello, TypeOK, WireOK
  <2> QED
    BY <1>10, <2>1, <2>2, Untouched, Zenon DEF Hello, TypeOK
<1>11. ASSUME NEW p \in Peers, Refuse(p) PROVE TypeOK'
  <2>1. WireOK'
    <3>1. (IF hub[p] = "gone" THEN <<>> ELSE <<Auth("pending")>>) \in Seq(ToPeer)
      BY CallParts, MessageTypes, ClosingType, SMT
    <3>2. Only(p, (IF hub[p] = "gone" THEN <<>> ELSE <<Auth("pending")>>)) \in [Peers -> Seq(ToPeer)]
      BY <3>1, OnlyType
    <3>3. Send(Only(p, (IF hub[p] = "gone" THEN <<>> ELSE <<Auth("pending")>>)))
      BY <1>11, Zenon DEF Refuse
    <3>4. toPeer' \in [Peers -> Seq(ToPeer)]
      BY <3>2, <3>3, SendKeeps DEF TypeOK, WireOK
    <3>5. toHub' \in [Peers -> Seq(ToHub)]
      BY <1>11, ArrivedKeeps, Zenon DEF Refuse, TypeOK, WireOK
    <3> QED
      BY <1>11, <3>1, <3>2, <3>3, <3>4, <3>5, Zenon DEF Refuse, TypeOK, WireOK
  <2> QED
    BY <1>11, <2>1, Untouched, Zenon DEF Refuse, TypeOK
<1>12. ASSUME NEW p \in Peers, Serve(p) PROVE TypeOK'
  <2> DEFINE c == <<p, Head(toHub[p])[2]>>
  <2>1. /\ serving' = [serving EXCEPT ![c] = "starting"] /\ signal' = signal
        /\ task' = [task EXCEPT ![c] = "starting"]
        /\ UNCHANGED <<emitted, flag, loaded, swap>>
    BY <1>12, Zenon DEF Serve
  <2>2. Head(toHub[p]) \in ToHub /\ Head(toHub[p])[1] = "stream"
    BY <1>12, ArrivedKeeps, Zenon DEF Serve, TypeOK, WireOK
  <2>3. Head(toHub[p])[2] \in 1 .. MaxStreams
    BY <2>2, SMT DEF ToHub
  <2>4. c \in Calls
    BY <2>3, CallParts
  <2> HIDE DEF c
  <2>5. ServerOK'
    BY <2>1, <2>4, SMT DEF TypeOK, ServerOK
  <2>6. task' \in [Calls -> {"none", "starting", "waiting", "generating", "over"}]
    BY <2>1, <2>4, SMT DEF TypeOK, EngineOK
  <2>7. EngineOK'
    BY <2>1, <2>6, Zenon DEF TypeOK, EngineOK
  <2>8. WireOK'
    BY <1>12, ArrivedKeeps, Zenon DEF Serve, TypeOK, WireOK
  <2> QED
    BY <1>12, <2>5, <2>7, <2>8, Untouched, Zenon DEF Serve, TypeOK
<1>13. ASSUME NEW p \in Peers, TakeAbort(p) PROVE TypeOK'
  <2> DEFINE C == {<<p, Head(toHub[p])[2]>>}
  <2>1. Head(toHub[p])[2] \in 1 .. MaxStreams
    <3>1. Head(toHub[p]) \in ToHub /\ Head(toHub[p])[1] = "abort"
      BY <1>13, ArrivedKeeps, Zenon DEF TakeAbort, TypeOK, WireOK
    <3> QED
      BY <3>1, SMT DEF ToHub
  <2>2. C \in SUBSET Calls /\ Abort(C) /\ Send(Only(p, Closing(Listening(C))))
    <3>1. C \in SUBSET Calls
      BY <2>1, CallParts, SMT
    <3> QED
      BY <1>13, <3>1, Zenon DEF TakeAbort
  <2> HIDE DEF C
  <2>3. ServerOK' /\ flag' \in BOOLEAN
    BY <2>2, AbortTypes DEF ServerOK
  <2>4. EngineOK'
    BY <1>13, <2>3, Zenon DEF TakeAbort, TypeOK, EngineOK
  <2>5. Closing(Listening(C)) \in Seq(ToPeer)
    BY <2>2, MessageTypes, ClosingType, Zenon DEF Listening
  <2>6. toPeer' \in [Peers -> Seq(ToPeer)]
    BY <2>2, <2>5, OnlyType, SendKeeps DEF TypeOK, WireOK
  <2>7. WireOK'
    BY <1>13, <2>6, ArrivedKeeps, Zenon DEF TakeAbort, TypeOK, WireOK
  <2> QED
    BY <1>13, <2>3, <2>4, <2>7, Untouched, Zenon DEF TakeAbort, TypeOK
<1>14. ASSUME NEW c \in Calls, Listen(c) PROVE TypeOK'
  <2>1. ServerOK'
    BY <1>14, SMT DEF Listen, TypeOK, ServerOK
  <2>2. EngineOK'
    BY <1>14, Zenon DEF Listen, TypeOK, EngineOK
  <2>3. Closing({c} \cap signal) \in Seq(ToPeer)
    BY MessageTypes, ClosingType, Zenon
  <2>4. toPeer' \in [Peers -> Seq(ToPeer)]
    BY <1>14, <2>3, OnlyType, SendKeeps DEF Listen, TypeOK, WireOK
  <2>5. WireOK'
    BY <1>14, <2>4, Zenon DEF Listen, TypeOK, WireOK
  <2> QED
    BY <1>14, <2>1, <2>2, <2>5, Untouched, Zenon DEF Listen, TypeOK
<1>15. ASSUME NEW c \in Calls, Begin(c) PROVE TypeOK'
  <2>1. task' \in [Calls -> {"none", "starting", "waiting", "generating", "over"}]
    BY <1>15, SMT DEF Begin, TypeOK, EngineOK
  <2>2. EngineOK'
    BY <1>15, <2>1, Zenon DEF Begin, TypeOK, EngineOK
  <2>3. HistoryOK'
    BY <1>15, SMT DEF Begin, TypeOK, HistoryOK
  <2> QED
    BY <1>15, <2>2, <2>3, Untouched, Zenon DEF Begin, TypeOK
<1>16. ASSUME NEW c \in Calls, Enter(c) PROVE TypeOK'
  <2>1. EngineOK'
    BY <1>16, SMT DEF Enter, TypeOK, EngineOK
  <2> QED
    BY <1>16, <2>1, Untouched, Zenon DEF Enter, TypeOK
<1>17. ASSUME NEW c \in Calls, Fault(c) PROVE TypeOK'
  <2>1. [d \in Calls |-> Error(d)] \in [Calls -> ToPeer]
    BY MessageTypes, Zenon
  <2>2. Conclude(c, [d \in Calls |-> Error(d)])
    BY <1>17, Zenon DEF Fault
  <2>3. /\ task' \in [Calls -> {"none", "starting", "waiting", "generating", "over"}]
        /\ serving' \in [Calls -> {"none", "starting", "listening", "ended"}]
        /\ toPeer' \in [Peers -> Seq(ToPeer)]
        /\ missed' \subseteq Calls
    BY <2>1, <2>2, ConcludeTypes
  <2>4. WireOK'
    BY <1>17, <2>3, Zenon DEF Fault, TypeOK, WireOK
  <2>5. ServerOK'
    BY <1>17, <2>3, Zenon DEF Fault, TypeOK, ServerOK
  <2>6. EngineOK'
    BY <1>17, <2>3, Zenon DEF Fault, TypeOK, EngineOK
  <2>7. HistoryOK'
    BY <1>17, <2>3, SMT DEF Fault, TypeOK, HistoryOK
  <2> QED
    BY <1>17, <2>4, <2>5, <2>6, <2>7, Untouched, Zenon DEF Fault, TypeOK
<1>18. ASSUME NEW c \in Calls, Token(c) PROVE TypeOK'
  <2>1. <<c, emitted[c] + 1>> \in Words
    BY <1>18, BoundsAssumption, SMT DEF Token, TypeOK, EngineOK, Words
  <2>2. [d \in Calls |-> Text(d, <<c, emitted[c] + 1>>)] \in [Calls -> ToPeer]
    BY <2>1, MessageTypes, Zenon
  <2>3. toPeer' \in [Peers -> Seq(ToPeer)]
    BY <1>18, <2>2, PassKeeps DEF Token, TypeOK, WireOK
  <2>4. WireOK'
    BY <1>18, <2>3, Zenon DEF Token, TypeOK, WireOK
  <2>5. EngineOK'
    BY <1>18, BoundsAssumption, SMT DEF Token, TypeOK, EngineOK
  <2>6. HistoryOK'
    BY <1>18, SMT DEF Token, Miss, TypeOK, HistoryOK
  <2> QED
    BY <1>18, <2>4, <2>5, <2>6, Untouched, Zenon DEF Token, TypeOK
<1>19. ASSUME NEW c \in Calls, Finish(c) PROVE TypeOK'
  <2>1. [d \in Calls |-> Ends({d})] \in [Calls -> ToPeer]
    BY MessageTypes, Zenon
  <2>2. Conclude(c, [d \in Calls |-> Ends({d})])
    BY <1>19, Zenon DEF Finish
  <2>3. /\ task' \in [Calls -> {"none", "starting", "waiting", "generating", "over"}]
        /\ serving' \in [Calls -> {"none", "starting", "listening", "ended"}]
        /\ toPeer' \in [Peers -> Seq(ToPeer)]
        /\ missed' \subseteq Calls
    BY <2>1, <2>2, ConcludeTypes
  <2>4. WireOK'
    BY <1>19, <2>3, Zenon DEF Finish, TypeOK, WireOK
  <2>5. ServerOK'
    BY <1>19, <2>3, Zenon DEF Finish, TypeOK, ServerOK
  <2>6. EngineOK'
    BY <1>19, <2>3, Zenon DEF Finish, TypeOK, EngineOK
  <2>7. HistoryOK'
    BY <1>19, <2>3, SMT DEF Finish, TypeOK, HistoryOK
  <2> QED
    BY <1>19, <2>4, <2>5, <2>6, <2>7, Untouched, Zenon DEF Finish, TypeOK
<1>20. CASE Unload
  <2>1. EngineOK'
    BY <1>20, Zenon DEF Unload, TypeOK, EngineOK
  <2>2. trouble' \in 0 .. MaxTrouble
    BY <1>20, BoundsAssumption, SMT DEF Unload, TypeOK
  <2> QED
    BY <1>20, <2>1, <2>2, Untouched, Zenon DEF Unload, TypeOK
<1>21. CASE Unloaded
  <2>1. EngineOK'
    BY <1>21, Zenon DEF Unloaded, TypeOK, EngineOK
  <2> QED
    BY <1>21, <2>1, Untouched, Zenon DEF Unloaded, TypeOK
<1>22. CASE Install
  <2>1. EngineOK'
    BY <1>22, Zenon DEF Install, TypeOK, EngineOK
  <2> QED
    BY <1>22, <2>1, Untouched, Zenon DEF Install, TypeOK
<1>23. CASE UNCHANGED vars
  BY <1>23, Untouched, Zenon DEF vars, TypeOK
<1>24. ASSUME NEW p \in Peers, GiveUp(p) PROVE TypeOK'
  <2>1. PlaygroundOK'
    BY <1>24, LoseTypes, Zenon DEF GiveUp, TypeOK, PlaygroundOK
  <2>2. trouble' \in 0 .. MaxTrouble
    BY <1>24, BoundsAssumption, SMT DEF GiveUp, TypeOK
  <2> QED
    BY <1>24, <2>1, <2>2, Untouched, Zenon DEF GiveUp, TypeOK
<1> QED
  BY <1>1, <1>2, <1>3, <1>4, <1>5, <1>6, <1>7, <1>8, <1>9, <1>10, <1>11, <1>12, <1>13, <1>14, <1>15, <1>16, <1>17, <1>18, <1>19, <1>20, <1>21, <1>22, <1>23, <1>24, CallParts, Zenon DEF Next, Playground, Receive, Task, Owner

-----------------------------------------------------------------------------
(* Stop reaches the engine. *)

\* A consumer that listens has seen no signal; a halted call's engine has
\* been told, or has had its flag cleared.
StopInv ==
    /\ \A c \in Calls : serving[c] = "listening" => c \notin signal
    /\ StopReachesEngine

LEMMA StopInit == Init => StopInv
BY SMT DEF Init, StopInv, StopReachesEngine, Halted

\* A step that leaves the server, the engine and the history alone.
LEMMA StopStutter ==
    ASSUME StopInv, UNCHANGED <<serving, signal, task, flag, revived>>
    PROVE  StopInv'
BY Zenon DEF StopInv, StopReachesEngine, Halted, Working

LEMMA StopAbort ==
    ASSUME TypeOK, StopInv, NEW C \in SUBSET Calls, Abort(C),
           UNCHANGED <<task, revived>>
    PROVE  StopInv'
<1>1. /\ signal' = signal \cup {c \in C : serving[c] \in {"starting", "listening"}}
      /\ serving' = [c \in Calls |-> IF c \in Listening(C) THEN "ended" ELSE serving[c]]
      /\ flag => flag'
      /\ Listening(C) # {} => flag'
      /\ task' = task /\ revived' = revived
  BY Zenon DEF Abort
<1>2. ASSUME NEW d \in Calls, serving'[d] = "listening"
      PROVE  d \notin signal'
  BY <1>1, <1>2, SMT DEF StopInv, Listening
<1>3. ASSUME NEW d \in Calls, Halted(d)', Working(d)'
      PROVE  flag' \/ d \in revived'
  <2>1. Working(d)
    BY <1>1, <1>3, Zenon DEF Working
  <2>2. CASE d \in Listening(C)
    BY <1>1, <2>2
  <2>3. CASE d \notin Listening(C)
    <3>1. serving[d] = "ended" /\ d \in signal
      BY <1>1, <1>3, <2>3, SMT DEF Halted
    <3> QED
      BY <1>1, <2>1, <3>1, Zenon DEF StopInv, StopReachesEngine, Halted
  <2> QED
    BY <2>2, <2>3
<1> QED
  BY <1>2, <1>3, Zenon DEF StopInv, StopReachesEngine

\* Those who hear the end of a task were listening.
LEMMA StopConclude ==
    ASSUME TypeOK, StopInv, NEW c \in Calls, NEW msg, Conclude(c, msg),
           UNCHANGED <<signal, flag, revived>>
    PROVE  StopInv'
<1>1. /\ serving' = [d \in Calls |-> IF d \in Hearers(c) THEN "ended" ELSE serving[d]]
      /\ task' = [task EXCEPT ![c] = "over"]
      /\ signal' = signal /\ revived' = revived
      /\ flag => flag'
  BY Zenon DEF Conclude
<1>2. \A d \in Calls : d \in Hearers(c) => serving[d] = "listening"
  BY Zenon DEF Hearers, Listening
<1>3. \A d \in Calls : task'[d] # "over" => task'[d] = task[d]
  BY <1>1, SMT DEF TypeOK, EngineOK
<1>4. ASSUME NEW d \in Calls
      PROVE  /\ serving'[d] = "listening" => serving[d] = "listening"
             /\ serving'[d] = "ended" /\ d \in signal => serving[d] = "ended"
  BY <1>1, <1>2, SMT DEF StopInv
<1>5. ASSUME NEW d \in Calls
      PROVE  /\ Halted(d)' => Halted(d)
             /\ Working(d)' => Working(d)
  BY <1>1, <1>3, <1>4, SMT DEF Halted, Working
<1>6. ASSUME NEW d \in Calls, serving'[d] = "listening" PROVE d \notin signal'
  BY <1>1, <1>4, <1>6, Zenon DEF StopInv
<1>7. ASSUME NEW d \in Calls, Halted(d)', Working(d)' PROVE flag' \/ d \in revived'
  <2>1. Halted(d) /\ Working(d)
    BY <1>5, <1>7
  <2>2. flag \/ d \in revived
    BY <2>1, Zenon DEF StopInv, StopReachesEngine
  <2> QED
    BY <1>1, <2>2, Zenon
<1> QED
  BY <1>6, <1>7, Zenon DEF StopInv, StopReachesEngine

LEMMA StopStep == TypeOK /\ StopInv /\ [Next]_vars => StopInv'
<1> SUFFICES ASSUME TypeOK, StopInv, [Next]_vars PROVE StopInv'
  OBVIOUS
<1> USE DEF serverVars, engineVars, historyVars
<1>1. ASSUME NEW p \in Peers, Join(p) PROVE StopInv'
  BY <1>1, StopStutter DEF Join
<1>2. ASSUME NEW p \in Peers, Drop(p) PROVE StopInv'
  <2>1. (IF hub[p] = "gone" THEN {} ELSE Of(p)) \in SUBSET Calls
    BY CallParts, Zenon
  <2>2. Abort(IF hub[p] = "gone" THEN {} ELSE Of(p)) /\ UNCHANGED <<task, revived>>
    BY <1>2, Zenon DEF Drop
  <2> QED
    BY <2>1, <2>2, StopAbort
<1>3. ASSUME NEW p \in Peers, Playground(p) PROVE StopInv'
  BY <1>3, StopStutter, Zenon DEF Playground, GiveUp, Ask, TakeAuth, TakeText, TakeEnd, PressStop
<1>4. ASSUME NEW p \in Peers, Approve(p) \/ Hello(p) \/ Refuse(p) PROVE StopInv'
  BY <1>4, StopStutter, Zenon DEF Approve, Hello, Refuse
<1>5. ASSUME NEW p \in Peers, Dismiss(p) PROVE StopInv'
  <2>1. Of(p) \in SUBSET Calls /\ Abort(Of(p)) /\ UNCHANGED <<task, revived>>
    BY <1>5, CallParts, Zenon DEF Dismiss
  <2> QED
    BY <2>1, StopAbort
<1>6. ASSUME NEW p \in Peers, Serve(p) PROVE StopInv'
  <2> DEFINE c == <<p, Head(toHub[p])[2]>>
  <2>1. /\ serving' = [serving EXCEPT ![c] = "starting"]
        /\ task' = [task EXCEPT ![c] = "starting"]
        /\ signal' = signal /\ flag' = flag /\ revived' = revived
    BY <1>6, Zenon DEF Serve
  <2>2. Head(toHub[p]) \in ToHub /\ Head(toHub[p])[1] = "stream"
    BY <1>6, ArrivedKeeps, Zenon DEF Serve, TypeOK, WireOK
  <2>3. c \in Calls
    BY <2>2, CallParts, SMT DEF ToHub
  <2> HIDE DEF c
  <2>4. ASSUME NEW d \in Calls
        PROVE  /\ d # c => serving'[d] = serving[d] /\ task'[d] = task[d]
               /\ d = c => serving'[d] = "starting"
    BY <2>1, <2>3, SMT DEF TypeOK, ServerOK, EngineOK
  <2> QED
    BY <2>1, <2>4, SMT DEF StopInv, StopReachesEngine, Halted, Working
<1>7. ASSUME NEW p \in Peers, TakeAbort(p) PROVE StopInv'
  <2> DEFINE C == {<<p, Head(toHub[p])[2]>>}
  <2>1. Head(toHub[p]) \in ToHub /\ Head(toHub[p])[1] = "abort"
    BY <1>7, ArrivedKeeps, Zenon DEF TakeAbort, TypeOK, WireOK
  <2>2. C \in SUBSET Calls
    BY <2>1, CallParts, SMT DEF ToHub
  <2>3. Abort(C) /\ UNCHANGED <<task, revived>>
    BY <1>7, Zenon DEF TakeAbort
  <2> HIDE DEF C
  <2> QED
    BY <2>2, <2>3, StopAbort
<1>8. ASSUME NEW c \in Calls, Listen(c) PROVE StopInv'
  <2>1. /\ serving' = [serving EXCEPT ![c] = IF c \in signal THEN "ended" ELSE "listening"]
        /\ flag => flag'
        /\ c \in signal => flag'
        /\ signal' = signal /\ task' = task /\ revived' = revived
    BY <1>8, Zenon DEF Listen
  <2>2. ASSUME NEW d \in Calls
        PROVE  /\ d # c => serving'[d] = serving[d]
               /\ d = c => serving'[d] = IF c \in signal THEN "ended" ELSE "listening"
    BY <2>1, SMT DEF TypeOK, ServerOK
  <2>3. ASSUME NEW d \in Calls, serving'[d] = "listening" PROVE d \notin signal'
    BY <2>1, <2>2, <2>3, SMT DEF StopInv
  <2>4. ASSUME NEW d \in Calls, Halted(d)', Working(d)' PROVE flag' \/ d \in revived'
    <3>1. CASE d = c
      BY <2>1, <2>4, <3>1, Zenon DEF Halted
    <3>2. CASE d # c
      BY <2>1, <2>2, <2>4, <3>2, Zenon DEF Halted, Working, StopInv, StopReachesEngine
    <3> QED
      BY <3>1, <3>2
  <2> QED
    BY <2>3, <2>4, Zenon DEF StopInv, StopReachesEngine
<1>9. ASSUME NEW c \in Calls, Begin(c) PROVE StopInv'
  <2>1. /\ task[c] = "starting"
        /\ task' = [task EXCEPT ![c] = "waiting"]
        /\ revived' = revived \cup {d \in Calls : Halted(d) /\ Working(d)}
        /\ serving' = serving /\ signal' = signal
    BY <1>9, Zenon DEF Begin
  <2>2. ASSUME NEW d \in Calls, Halted(d)', Working(d)' PROVE d \in revived'
    <3>1. Halted(d)
      BY <2>1, <2>2, Zenon DEF Halted
    <3>2. Working(d)
      BY <2>1, <2>2, SMT DEF Working, TypeOK, EngineOK
    <3> QED
      BY <2>1, <3>1, <3>2, Zenon
  <2> QED
    BY <2>1, <2>2, Zenon DEF StopInv, StopReachesEngine
<1>10. ASSUME NEW c \in Calls, Enter(c) PROVE StopInv'
  <2>1. /\ task[c] = "waiting"
        /\ task' = [task EXCEPT ![c] = "generating"]
        /\ serving' = serving /\ signal' = signal /\ flag' = flag /\ revived' = revived
    BY <1>10, Zenon DEF Enter
  <2>2. \A d \in Calls : Working(d)' => Working(d)
    BY <2>1, SMT DEF Working, TypeOK, EngineOK
  <2> QED
    BY <2>1, <2>2, Zenon DEF StopInv, StopReachesEngine, Halted
<1>11. ASSUME NEW c \in Calls, Fault(c) PROVE StopInv'
  BY <1>11, StopConclude, Zenon DEF Fault
<1>12. ASSUME NEW c \in Calls, Token(c) PROVE StopInv'
  BY <1>12, StopStutter, Zenon DEF Token
<1>13. ASSUME NEW c \in Calls, Finish(c) PROVE StopInv'
  BY <1>13, StopConclude, Zenon DEF Finish
<1>14. CASE Unload
  BY <1>14, Zenon DEF Unload, StopInv, StopReachesEngine, Halted, Working
<1>15. CASE Unloaded \/ Install \/ UNCHANGED vars
  BY <1>15, StopStutter, Zenon DEF Unloaded, Install, vars
<1> QED
  BY <1>1, <1>2, <1>3, <1>4, <1>5, <1>6, <1>7, <1>8, <1>9, <1>10, <1>11, <1>12, <1>13, <1>14, <1>15, Zenon
  DEF Next, Receive, Task, Owner

-----------------------------------------------------------------------------
(* What a step sends. *)

\* Messages that carry no text.
Plain == {m \in ToPeer : m.kind # "text"}

LEMMA PlainMessages ==
    /\ \A s \in {"approved", "pending", "denied"} : Auth(s) \in Plain
    /\ \A c \in Calls : Error(c) \in Plain
    /\ \A C \in SUBSET Calls : Ends(C) \in Plain
<1>1. /\ \A s : Auth(s).kind = "auth"
      /\ \A c : Error(c).kind = "error"
      /\ \A C : Ends(C).kind = "end"
  BY SMT DEF Auth, Error, Ends
<1> QED
  BY <1>1, MessageTypes, SMT DEF Plain

\* No message is added, and some may be taken off.
Quiet ==
    \A p \in Peers : \/ toPeer'[p] = toPeer[p]
                     \/ toPeer'[p] = <<>>
                     \/ toPeer[p] # <<>> /\ toPeer'[p] = Tail(toPeer[p])

LEMMA ReceivedIsQuiet ==
    ASSUME TypeOK, NEW p \in Peers, Received(p)
    PROVE  Quiet
BY SMT DEF Received, Quiet, TypeOK, WireOK

LEMMA ConcludeIsPlain ==
    ASSUME NEW c \in Calls, NEW msg \in [Calls -> Plain], Conclude(c, msg)
    PROVE  \E reach \in [Peers -> Seq(Plain)] : Send(reach)
<1> DEFINE reach == [p \in Peers |-> IF Hearers(c) \cap Of(p) = {} THEN <<>>
                          ELSE <<msg[CHOOSE d \in Hearers(c) \cap Of(p) : TRUE]>>]
<1>1. ASSUME NEW p \in Peers, Hearers(c) \cap Of(p) # {}
      PROVE  (CHOOSE d \in Hearers(c) \cap Of(p) : TRUE) \in Calls
  BY <1>1, CallParts, Zenon
<1>2. reach \in [Peers -> Seq(Plain)]
  BY <1>1, SMT
<1>3. Send(reach)
  BY DEF Conclude, Pass
<1> QED
  BY <1>2, <1>3

LEMMA SendsOnly ==
    ASSUME NEW p, NEW msgs \in Seq(Plain), Send(Only(p, msgs))
    PROVE  \E reach \in [Peers -> Seq(Plain)] : Send(reach)
BY OnlyType, Zenon

\* A Playground takes a message.
Takes(p) == TakeAuth(p) \/ TakeText(p) \/ TakeEnd(p)

\* Which steps move messages to the Playgrounds.
LEMMA StepMoves ==
    ASSUME TypeOK, [Next]_vars
    PROVE  \/ UNCHANGED toPeer
           \/ \E p \in Peers : Drop(p) \/ Takes(p)
           \/ \E reach \in [Peers -> Seq(Plain)] : Send(reach)
           \/ \E c \in Calls : Token(c)
<1> DEFINE Sends == \E reach \in [Peers -> Seq(Plain)] : Send(reach)
<1> USE DEF wireVars
<1>2. ASSUME NEW p \in Peers, Join(p) PROVE UNCHANGED toPeer
  BY <1>2, Zenon DEF Join
<1>4. ASSUME NEW p \in Peers, Playground(p) PROVE UNCHANGED toPeer \/ Takes(p)
  BY <1>4, Zenon DEF Playground, GiveUp, Ask, Takes, PressStop
<1>5. ASSUME NEW p \in Peers, Approve(p) PROVE Sends
  <2>1. <<Auth("approved")>> \in Seq(Plain) /\ Send(Only(p, <<Auth("approved")>>))
    BY <1>5, PlainMessages, SMT DEF Approve
  <2> QED
    BY <2>1, SendsOnly
<1>6. ASSUME NEW p \in Peers, Hello(p) PROVE Sends
  <2> DEFINE msgs == <<Auth(IF p \in known THEN "approved" ELSE "pending")>>
  <2>1. msgs \in Seq(Plain)
    BY PlainMessages, SMT
  <2>2. Send(Only(p, msgs))
    BY <1>6, Zenon DEF Hello
  <2> HIDE DEF msgs
  <2> QED
    BY <2>1, <2>2, SendsOnly
<1>7. ASSUME NEW p \in Peers, Refuse(p) PROVE Sends
  <2> DEFINE msgs == IF hub[p] = "gone" THEN <<>> ELSE <<Auth("pending")>>
  <2>1. msgs \in Seq(Plain)
    BY PlainMessages, SMT
  <2>2. Send(Only(p, msgs))
    BY <1>7, Zenon DEF Refuse
  <2> HIDE DEF msgs
  <2> QED
    BY <2>1, <2>2, SendsOnly
<1>8. ASSUME NEW p \in Peers, Dismiss(p) PROVE Sends
  <2> DEFINE msgs == <<Auth("denied")>> \o Closing(Listening(Of(p)))
  <2>1. Listening(Of(p)) \in SUBSET Calls
    BY CallParts, Zenon DEF Listening
  <2>2. Closing(Listening(Of(p))) \in Seq(Plain)
    BY <2>1, PlainMessages, ClosingType
  <2>3. msgs \in Seq(Plain)
    BY <2>2, PlainMessages, SMT
  <2>4. Send(Only(p, msgs))
    BY <1>8, Zenon DEF Dismiss
  <2> HIDE DEF msgs
  <2> QED
    BY <2>3, <2>4, SendsOnly
<1>9. ASSUME NEW p \in Peers, Serve(p) PROVE UNCHANGED toPeer
  BY <1>9, Zenon DEF Serve
<1>10. ASSUME NEW p \in Peers, TakeAbort(p) PROVE Sends
  <2> DEFINE C == {<<p, Head(toHub[p])[2]>>}
  <2>1. Head(toHub[p]) \in ToHub /\ Head(toHub[p])[1] = "abort"
    BY <1>10, ArrivedKeeps, Zenon DEF TakeAbort, TypeOK, WireOK
  <2>2. C \in SUBSET Calls
    BY <2>1, CallParts, SMT DEF ToHub
  <2>3. Send(Only(p, Closing(Listening(C))))
    BY <1>10, Zenon DEF TakeAbort
  <2> HIDE DEF C
  <2>4. Closing(Listening(C)) \in Seq(Plain)
    BY <2>2, PlainMessages, ClosingType DEF Listening
  <2> QED
    BY <2>3, <2>4, SendsOnly
<1>11. ASSUME NEW c \in Calls, Listen(c) PROVE Sends
  <2>1. Closing({c} \cap signal) \in Seq(Plain)
    BY PlainMessages, ClosingType, Zenon
  <2>2. Send(Only(c[1], Closing({c} \cap signal)))
    BY <1>11, Zenon DEF Listen
  <2> QED
    BY <2>1, <2>2, SendsOnly
<1>12. ASSUME NEW c \in Calls, Begin(c) \/ Enter(c) PROVE UNCHANGED toPeer
  BY <1>12, Zenon DEF Begin, Enter
<1>13. ASSUME NEW c \in Calls, Fault(c) PROVE Sends
  <2>1. [d \in Calls |-> Error(d)] \in [Calls -> Plain]
    BY PlainMessages, Zenon
  <2>2. Conclude(c, [d \in Calls |-> Error(d)])
    BY <1>13, Zenon DEF Fault
  <2> QED
    BY <2>1, <2>2, ConcludeIsPlain
<1>14. ASSUME NEW c \in Calls, Finish(c) PROVE Sends
  <2>1. [d \in Calls |-> Ends({d})] \in [Calls -> Plain]
    BY PlainMessages, Zenon
  <2>2. Conclude(c, [d \in Calls |-> Ends({d})])
    BY <1>14, Zenon DEF Finish
  <2> QED
    BY <2>1, <2>2, ConcludeIsPlain
<1>15. CASE Unload \/ Unloaded \/ Install \/ UNCHANGED vars
  BY <1>15, Zenon DEF Unload, Unloaded, Install, vars
<1> QED
  BY <1>2, <1>4, <1>5, <1>6, <1>7, <1>8, <1>9, <1>10, <1>11, <1>12, <1>13, <1>14, <1>15, Zenon
  DEF Next, Receive, Task, Owner

\* Only a task's token sends text.
LEMMA StepSends ==
    ASSUME TypeOK, [Next]_vars
    PROVE  \/ Quiet
           \/ \E reach \in [Peers -> Seq(Plain)] : Send(reach)
           \/ \E c \in Calls : Token(c)
<1>1. UNCHANGED toPeer => Quiet
  BY Zenon DEF Quiet
<1>2. ASSUME NEW p \in Peers, Drop(p) PROVE Quiet
  <2>1. toPeer' = [toPeer EXCEPT ![p] = <<>>]
    BY <1>2, Zenon DEF Drop
  <2> QED
    BY <2>1, SMT DEF Quiet, TypeOK, WireOK
<1>3. ASSUME NEW p \in Peers, Takes(p) PROVE Quiet
  BY <1>3, ReceivedIsQuiet, Zenon DEF Takes, TakeAuth, TakeText, TakeEnd
<1> QED
  BY <1>1, <1>2, <1>3, StepMoves

-----------------------------------------------------------------------------
(* Nobody is served without approval. *)

Live(c) == serving[c] \in {"starting", "listening"} /\ c \notin signal

\* The hub has no entry for a peer it is not linked to, and serves only the
\* calls of peers it has approved.
AdmissionInv ==
    /\ \A p \in Peers : ~linked[p] => hub[p] = "gone"
    /\ \A c \in Calls : Live(c) => hub[c[1]] = "approved"

LEMMA AdmissionInit == Init => AdmissionInv
<1> SUFFICES ASSUME Init PROVE AdmissionInv
  OBVIOUS
<1>1. /\ linked = [p \in Peers |-> p \in Admitted]
      /\ hub = [p \in Peers |-> IF p \in Admitted THEN "approved" ELSE "gone"]
      /\ serving = [c \in Calls |-> "none"]
  BY Zenon DEF Init
<1>2. \A p \in Peers : linked[p] <=> p \in Admitted
  BY <1>1, Zenon
<1>3. \A p \in Peers : p \notin Admitted => hub[p] = "gone"
  BY <1>1, SMT
<1>4. \A c \in Calls : ~Live(c)
  BY <1>1, SMT DEF Live
<1> QED
  BY <1>2, <1>3, <1>4, Zenon DEF AdmissionInv

LEMMA AdmissionStutter ==
    ASSUME AdmissionInv, UNCHANGED <<linked, hub, serving, signal>>
    PROVE  AdmissionInv'
BY Zenon DEF AdmissionInv, Live

\* An abort leaves none of its calls alive.
LEMMA AbortKills ==
    ASSUME TypeOK, NEW C \in SUBSET Calls, Abort(C), NEW d \in Calls, Live(d)'
    PROVE  Live(d) /\ d \notin C
BY SMT DEF Abort, Listening, Live, TypeOK, ServerOK

LEMMA ConcludeKills ==
    ASSUME TypeOK, NEW c \in Calls, NEW msg, Conclude(c, msg), signal' = signal,
           NEW d \in Calls, Live(d)'
    PROVE  Live(d)
<1>1. serving' = [e \in Calls |-> IF e \in Hearers(c) THEN "ended" ELSE serving[e]]
  BY Zenon DEF Conclude
<1> QED
  BY <1>1, SMT DEF Live

LEMMA AdmissionStep == TypeOK /\ AdmissionInv /\ [Next]_vars => AdmissionInv'
<1> SUFFICES ASSUME TypeOK, AdmissionInv, [Next]_vars PROVE AdmissionInv'
  OBVIOUS
<1> USE DEF serverVars, wireVars, admissionVars
<1>1. ASSUME NEW p \in Peers, Join(p) PROVE AdmissionInv'
  <2>1. /\ ~linked[p]
        /\ linked' = [linked EXCEPT ![p] = TRUE]
        /\ hub' = [hub EXCEPT ![p] = "pending"]
        /\ serving' = serving /\ signal' = signal
    BY <1>1, Zenon DEF Join
  <2>2. hub[p] = "gone"
    BY <2>1, Zenon DEF AdmissionInv
  <2>3. ASSUME NEW q \in Peers, ~linked'[q] PROVE hub'[q] = "gone"
    BY <2>1, <2>3, SMT DEF AdmissionInv, TypeOK, WireOK, AdmissionOK
  <2>4. ASSUME NEW c \in Calls, Live(c)' PROVE hub'[c[1]] = "approved"
    <3>1. Live(c)
      BY <2>1, <2>4, Zenon DEF Live
    <3>2. hub[c[1]] = "approved" /\ c[1] \in Peers
      BY <3>1, CallParts, Zenon DEF AdmissionInv
    <3> QED
      BY <2>1, <2>2, <3>2, SMT DEF TypeOK, AdmissionOK
  <2> QED
    BY <2>3, <2>4, Zenon DEF AdmissionInv
<1>2. ASSUME NEW p \in Peers, Drop(p) PROVE AdmissionInv'
  <2> DEFINE C == IF hub[p] = "gone" THEN {} ELSE Of(p)
  <2>1. /\ linked' = [linked EXCEPT ![p] = FALSE]
        /\ hub' = [hub EXCEPT ![p] = "gone"]
        /\ Abort(C)
    BY <1>2, Zenon DEF Drop
  <2>2. C \in SUBSET Calls
    BY CallParts, Zenon
  <2>3. ASSUME NEW c \in Calls, Live(c)' PROVE c[1] # p /\ hub[c[1]] = "approved" /\ c[1] \in Peers
    <3>1. Live(c) /\ c \notin C
      BY <2>1, <2>2, <2>3, AbortKills
    <3>2. hub[c[1]] = "approved" /\ c[1] \in Peers /\ c \in Of(c[1])
      BY <3>1, CallParts, Zenon DEF AdmissionInv
    <3> QED
      BY <3>1, <3>2, SMT
  <2>4. ASSUME NEW c \in Calls, Live(c)' PROVE hub'[c[1]] = "approved"
    BY <2>1, <2>3, <2>4, SMT DEF TypeOK, AdmissionOK
  <2>5. ASSUME NEW q \in Peers, ~linked'[q] PROVE hub'[q] = "gone"
    BY <2>1, <2>5, SMT DEF AdmissionInv, TypeOK, WireOK, AdmissionOK
  <2> QED
    BY <2>4, <2>5, Zenon DEF AdmissionInv
<1>3. ASSUME NEW p \in Peers, Playground(p) PROVE AdmissionInv'
  BY <1>3, AdmissionStutter, Zenon DEF Playground, GiveUp, Ask, TakeAuth, TakeText, TakeEnd, PressStop
<1>4. ASSUME NEW p \in Peers, Approve(p) \/ Hello(p) PROVE AdmissionInv'
  <2>1. /\ hub[p] # "gone"
        /\ \E s : /\ s = "approved" \/ s = hub[p]
                  /\ hub' = [hub EXCEPT ![p] = s]
        /\ linked' = linked /\ serving' = serving /\ signal' = signal
    <3>1. CASE Approve(p)
      <4>1. hub[p] = "pending" /\ hub' = [hub EXCEPT ![p] = "approved"] /\ linked' = linked
            /\ serving' = serving /\ signal' = signal
        BY <3>1, Zenon DEF Approve
      <4>2. hub[p] # "gone"
        BY <4>1
      <4> QED
        BY <4>1, <4>2, Zenon
    <3>2. CASE Hello(p)
      <4>1. /\ hub[p] # "gone" /\ linked' = linked /\ serving' = serving /\ signal' = signal
            /\ hub' = [hub EXCEPT ![p] = IF p \in known THEN "approved" ELSE hub[p]]
        BY <3>2, Zenon DEF Hello
      <4> DEFINE s == IF p \in known THEN "approved" ELSE hub[p]
      <4>2. s = "approved" \/ s = hub[p]
        OBVIOUS
      <4>3. hub' = [hub EXCEPT ![p] = s]
        BY <4>1, Zenon
      <4> HIDE DEF s
      <4> QED
        BY <4>1, <4>2, <4>3, Zenon
    <3> QED
      BY <1>4, <3>1, <3>2
  <2>2. PICK s : /\ s = "approved" \/ s = hub[p]
                 /\ hub' = [hub EXCEPT ![p] = s]
    BY <2>1
  <2>3. ASSUME NEW q \in Peers, ~linked'[q] PROVE hub'[q] = "gone"
    BY <2>1, <2>2, <2>3, SMT DEF AdmissionInv, TypeOK, WireOK, AdmissionOK
  <2>4. ASSUME NEW c \in Calls, Live(c)' PROVE hub'[c[1]] = "approved"
    <3>1. Live(c)
      BY <2>1, <2>4, Zenon DEF Live
    <3>2. hub[c[1]] = "approved" /\ c[1] \in Peers
      BY <3>1, CallParts, Zenon DEF AdmissionInv
    <3> QED
      BY <2>2, <3>2, SMT DEF TypeOK, AdmissionOK
  <2> QED
    BY <2>3, <2>4, Zenon DEF AdmissionInv
<1>5. ASSUME NEW p \in Peers, Dismiss(p) PROVE AdmissionInv'
  <2>1. /\ hub' = [hub EXCEPT ![p] = "gone"]
        /\ Abort(Of(p)) /\ linked' = linked
    BY <1>5, Zenon DEF Dismiss
  <2>2. Of(p) \in SUBSET Calls
    BY CallParts, Zenon
  <2>3. ASSUME NEW c \in Calls, Live(c)' PROVE c[1] # p /\ hub[c[1]] = "approved" /\ c[1] \in Peers
    <3>1. Live(c) /\ c \notin Of(p)
      BY <2>1, <2>2, <2>3, AbortKills
    <3> QED
      BY <3>1, CallParts, Zenon DEF AdmissionInv
  <2>4. ASSUME NEW c \in Calls, Live(c)' PROVE hub'[c[1]] = "approved"
    BY <2>1, <2>3, <2>4, SMT DEF TypeOK, AdmissionOK
  <2>5. ASSUME NEW q \in Peers, ~linked'[q] PROVE hub'[q] = "gone"
    BY <2>1, <2>5, SMT DEF AdmissionInv, TypeOK, WireOK, AdmissionOK
  <2> QED
    BY <2>4, <2>5, Zenon DEF AdmissionInv
<1>6. ASSUME NEW p \in Peers, Refuse(p) PROVE AdmissionInv'
  BY <1>6, AdmissionStutter, Zenon DEF Refuse
<1>7. ASSUME NEW p \in Peers, Serve(p) PROVE AdmissionInv'
  <2> DEFINE c == <<p, Head(toHub[p])[2]>>
  <2>1. /\ hub[p] = "approved" /\ hub' = hub /\ linked' = linked /\ signal' = signal
        /\ serving' = [serving EXCEPT ![c] = "starting"]
    BY <1>7, Zenon DEF Serve
  <2>2. c[1] = p
    BY SMT
  <2> HIDE DEF c
  <2>3. ASSUME NEW d \in Calls, d # c PROVE serving'[d] = serving[d]
    BY <2>1, <2>3, SMT DEF TypeOK, ServerOK
  <2>4. ASSUME NEW d \in Calls, Live(d)' PROVE hub'[d[1]] = "approved"
    <3>1. CASE d = c
      BY <2>1, <2>2, <3>1
    <3>2. CASE d # c
      BY <2>1, <2>3, <2>4, <3>2, Zenon DEF Live, AdmissionInv
    <3> QED
      BY <3>1, <3>2
  <2> QED
    BY <2>1, <2>4, Zenon DEF AdmissionInv
<1>8. ASSUME NEW p \in Peers, TakeAbort(p) PROVE AdmissionInv'
  <2> DEFINE C == {<<p, Head(toHub[p])[2]>>}
  <2>1. Head(toHub[p]) \in ToHub /\ Head(toHub[p])[1] = "abort"
    BY <1>8, ArrivedKeeps, Zenon DEF TakeAbort, TypeOK, WireOK
  <2>2. C \in SUBSET Calls
    BY <2>1, CallParts, SMT DEF ToHub
  <2>3. Abort(C) /\ hub' = hub /\ linked' = linked
    BY <1>8, Zenon DEF TakeAbort
  <2> HIDE DEF C
  <2>4. ASSUME NEW c \in Calls, Live(c)' PROVE Live(c)
    BY <2>2, <2>3, <2>4, AbortKills
  <2> QED
    BY <2>3, <2>4, Zenon DEF AdmissionInv
<1>9. ASSUME NEW c \in Calls, Listen(c) PROVE AdmissionInv'
  <2>1. /\ serving[c] = "starting" /\ signal' = signal /\ hub' = hub /\ linked' = linked
        /\ serving' = [serving EXCEPT ![c] = IF c \in signal THEN "ended" ELSE "listening"]
    BY <1>9, Zenon DEF Listen
  <2>2. ASSUME NEW d \in Calls, Live(d)' PROVE Live(d)
    BY <2>1, <2>2, SMT DEF Live, TypeOK, ServerOK
  <2> QED
    BY <2>1, <2>2, Zenon DEF AdmissionInv
<1>10. ASSUME NEW c \in Calls, Begin(c) \/ Enter(c) \/ Token(c) PROVE AdmissionInv'
  BY <1>10, AdmissionStutter, Zenon DEF Begin, Enter, Token
<1>11. ASSUME NEW c \in Calls, Fault(c) PROVE AdmissionInv'
  <2>1. /\ Conclude(c, [d \in Calls |-> Error(d)])
        /\ signal' = signal /\ hub' = hub /\ linked' = linked
    BY <1>11, Zenon DEF Fault
  <2>2. ASSUME NEW d \in Calls, Live(d)' PROVE Live(d)
    BY <2>1, <2>2, ConcludeKills
  <2> QED
    BY <2>1, <2>2, Zenon DEF AdmissionInv
<1>12. ASSUME NEW c \in Calls, Finish(c) PROVE AdmissionInv'
  <2>1. /\ Conclude(c, [d \in Calls |-> Ends({d})])
        /\ signal' = signal /\ hub' = hub /\ linked' = linked
    BY <1>12, Zenon DEF Finish
  <2>2. ASSUME NEW d \in Calls, Live(d)' PROVE Live(d)
    BY <2>1, <2>2, ConcludeKills
  <2> QED
    BY <2>1, <2>2, Zenon DEF AdmissionInv
<1>13. CASE Unload \/ Unloaded \/ Install \/ UNCHANGED vars
  BY <1>13, AdmissionStutter, Zenon DEF Unload, Unloaded, Install, vars
<1> QED
  BY <1>1, <1>2, <1>3, <1>4, <1>5, <1>6, <1>7, <1>8, <1>9, <1>10, <1>11, <1>12, <1>13, Zenon
  DEF Next, Receive, Task, Owner

-----------------------------------------------------------------------------
(* Whom a token reaches. *)

TextGrows(p) == Len(toPeer'[p]) > Len(toPeer[p]) /\ toPeer'[p][Len(toPeer'[p])].kind = "text"

\* A quiet step adds nothing.
LEMMA QuietAddsNothing ==
    ASSUME TypeOK, Quiet, NEW p \in Peers
    PROVE  ~TextGrows(p)
<1>1. toPeer[p] \in Seq(ToPeer)
  BY SMT DEF TypeOK, WireOK
<1>2. CASE toPeer'[p] = toPeer[p]
  BY <1>1, <1>2, SMT DEF TextGrows
<1>3. CASE toPeer'[p] = <<>>
  BY <1>1, <1>3, SMT DEF TextGrows
<1>4. CASE toPeer[p] # <<>> /\ toPeer'[p] = Tail(toPeer[p])
  BY <1>1, <1>4, SMT DEF TextGrows
<1> QED
  BY <1>2, <1>3, <1>4, Zenon DEF Quiet

\* The last message of a sequence that has been lengthened is one of those
\* that were added.
LEMMA LastIsNew ==
    ASSUME NEW S, NEW s \in Seq(S), NEW T, NEW t \in Seq(T), Len(s \o t) > Len(s)
    PROVE  (s \o t)[Len(s \o t)] \in T
<1>1. /\ Len(s) \in Nat /\ Len(t) \in Nat /\ Len(s \o t) = Len(s) + Len(t)
      /\ Len(t) > 0
  BY SMT
<1>2. (s \o t)[Len(s) + Len(t)] = t[Len(t)]
  BY <1>1, SMT
<1>3. t[Len(t)] \in T
  BY <1>1, SMT
<1> QED
  BY <1>1, <1>2, <1>3

\* Neither does a step that sends plain messages add text.
LEMMA PlainAddsNoText ==
    ASSUME TypeOK, NEW reach \in [Peers -> Seq(Plain)], Send(reach), NEW p \in Peers
    PROVE  ~TextGrows(p)
<1>1. toPeer[p] \in Seq(ToPeer) /\ reach[p] \in Seq(Plain)
  BY SMT DEF TypeOK, WireOK
<1>2. toPeer'[p] = IF linked[p] THEN toPeer[p] \o reach[p] ELSE toPeer[p]
  BY Zenon DEF Send
<1>3. CASE ~linked[p]
  BY <1>1, <1>2, <1>3, SMT DEF TextGrows
<1>4. CASE linked[p]
  <2>1. toPeer'[p] = toPeer[p] \o reach[p]
    BY <1>2, <1>4
  <2>2. Len(toPeer'[p]) > Len(toPeer[p]) => toPeer'[p][Len(toPeer'[p])] \in Plain
    BY <1>1, <2>1, LastIsNew
  <2>3. \A m \in Plain : m.kind # "text"
    BY DEF Plain
  <2> QED
    BY <2>2, <2>3 DEF TextGrows
<1> QED
  BY <1>3, <1>4

\* A token reaches only the Playgrounds of calls whose server listens.
LEMMA TokenReachesApproved ==
    ASSUME TypeOK, StopInv, AdmissionInv, NEW c \in Calls, Token(c),
           NEW p \in Peers, TextGrows(p)
    PROVE  hub[p] = "approved"
<1> DEFINE msg == [d \in Calls |-> Text(d, <<c, emitted[c] + 1>>)]
           reach == [q \in Peers |-> IF Hearers(c) \cap Of(q) = {} THEN <<>>
                          ELSE <<msg[CHOOSE d \in Hearers(c) \cap Of(q) : TRUE]>>]
<1>1. Send(reach)
  BY Zenon DEF Token, Pass
<1>2. reach[p] = IF Hearers(c) \cap Of(p) = {} THEN <<>>
                 ELSE <<msg[CHOOSE d \in Hearers(c) \cap Of(p) : TRUE]>>
  BY Zenon
<1> HIDE DEF msg, reach
<1>3. toPeer[p] \in Seq(ToPeer)
  BY SMT DEF TypeOK, WireOK
<1>4. Hearers(c) \cap Of(p) # {}
  <2> SUFFICES ASSUME Hearers(c) \cap Of(p) = {} PROVE FALSE
    OBVIOUS
  <2>1. toPeer'[p] = toPeer[p]
    <3>1. reach[p] = <<>>
      BY <1>2
    <3>2. toPeer'[p] = IF linked[p] THEN toPeer[p] \o reach[p] ELSE toPeer[p]
      BY <1>1, Zenon DEF Send
    <3> QED
      BY <1>3, <3>1, <3>2, SMT
  <2> QED
    BY <1>3, <2>1, SMT DEF TextGrows
<1>5. PICK d \in Hearers(c) \cap Of(p) : TRUE
  BY <1>4
<1>6. d \in Calls /\ serving[d] = "listening" /\ d[1] = p
  BY <1>5, CallParts, Zenon DEF Hearers, Listening
<1>7. Live(d)
  BY <1>6, Zenon DEF Live, StopInv
<1> QED
  BY <1>6, <1>7, Zenon DEF AdmissionInv

-----------------------------------------------------------------------------
(* Tokens and their requesters. Nothing makes the ids of two Playgrounds   *)
(* differ, each counts from 1; where they do, nobody gets another's text.  *)

DistinctIds == \A c, d \in Calls : Id(c) = Id(d) => c = d

\* A message that is no text, or whose text is that of the call it names.
Honest == {m \in ToPeer : m.kind = "text" => \A c \in Calls : m.id = Id(c) => m.word[1] = c}

TokenInv ==
    /\ toPeer \in [Peers -> Seq(Honest)]
    /\ TokensReachTheirRequester

LEMMA TokenInit == Init => TokenInv
<1> SUFFICES ASSUME Init PROVE TokenInv
  OBVIOUS
<1>1. toPeer = [p \in Peers |-> <<>>] /\ got = [c \in Calls |-> <<>>]
  BY Zenon DEF Init
<1>2. toPeer \in [Peers -> Seq(Honest)]
  BY <1>1, SMT
<1>3. TokensReachTheirRequester
  BY <1>1, SMT DEF TokensReachTheirRequester
<1> QED
  BY <1>2, <1>3 DEF TokenInv

\* A token's message names the call it was generated for.
LEMMA TokenIsHonest ==
    ASSUME TypeOK, TokenInv, DistinctIds, NEW c \in Calls, Token(c)
    PROVE  toPeer' \in [Peers -> Seq(Honest)]
<1> DEFINE w == <<c, emitted[c] + 1>>
           msg == [d \in Calls |-> Text(d, w)]
           reach == [q \in Peers |-> IF Hearers(c) \cap Of(q) = {} THEN <<>>
                          ELSE <<msg[CHOOSE d \in Hearers(c) \cap Of(q) : TRUE]>>]
<1>1. Send(reach)
  BY Zenon DEF Token, Pass
<1>2. w \in Words /\ w[1] = c
  <2>1. emitted[c] < MaxTokens
    BY Zenon DEF Token
  <2>2. emitted[c] \in Nat
    BY SMT DEF TypeOK, EngineOK
  <2>3. emitted[c] + 1 \in 1 .. MaxTokens
    BY <2>1, <2>2, BoundsAssumption, SMT
  <2> QED
    BY <2>3, SMT DEF Words
<1> HIDE DEF w
<1>3. ASSUME NEW d \in Hearers(c) PROVE msg[d] \in Honest
  <2>1. d \in Calls /\ Id(d) = Id(c)
    BY Zenon DEF Hearers, Listening
  <2>2. msg[d] = Text(d, w) /\ Text(d, w) \in ToPeer
    BY <1>2, <2>1, MessageTypes, Zenon
  <2>3. Text(d, w).id = Id(c) /\ Text(d, w).word[1] = c
    BY <1>2, <2>1, SMT DEF Text
  <2>4. \A e \in Calls : Id(c) = Id(e) => e = c
    BY DEF DistinctIds
  <2> QED
    BY <2>2, <2>3, <2>4, Zenon DEF Honest
<1> HIDE DEF msg
<1>4. ASSUME NEW q \in Peers, Hearers(c) \cap Of(q) # {}
      PROVE  (CHOOSE d \in Hearers(c) \cap Of(q) : TRUE) \in Hearers(c)
  BY <1>4, Zenon
<1>5. ASSUME NEW q \in Peers PROVE reach[q] \in Seq(Honest)
  <2>1. CASE Hearers(c) \cap Of(q) = {}
    BY <2>1, SMT
  <2>2. CASE Hearers(c) \cap Of(q) # {}
    <3> DEFINE d == CHOOSE e \in Hearers(c) \cap Of(q) : TRUE
    <3>1. msg[d] \in Honest
      BY <1>3, <1>4, <2>2
    <3>2. reach[q] = <<msg[d]>>
      BY <2>2, Zenon
    <3> HIDE DEF d
    <3> QED
      BY <3>1, <3>2, SMT
  <2> QED
    BY <2>1, <2>2
<1>6. reach \in [Peers -> Seq(Honest)]
  BY <1>5, Zenon
<1> HIDE DEF reach
<1> QED
  BY <1>1, <1>6, SendKeeps DEF TokenInv

LEMMA QuietIsHonest ==
    ASSUME TypeOK', TokenInv, Quiet
    PROVE  toPeer' \in [Peers -> Seq(Honest)]
<1>1. DOMAIN toPeer' = Peers /\ toPeer' = [p \in Peers |-> toPeer'[p]]
  BY SMT DEF TypeOK, WireOK
<1>2. ASSUME NEW p \in Peers PROVE toPeer'[p] \in Seq(Honest)
  <2>1. toPeer[p] \in Seq(Honest)
    BY DEF TokenInv
  <2>2. CASE toPeer'[p] = toPeer[p]
    BY <2>1, <2>2
  <2>3. CASE toPeer'[p] = <<>>
    BY <2>3, SMT
  <2>4. CASE toPeer[p] # <<>> /\ toPeer'[p] = Tail(toPeer[p])
    BY <2>1, <2>4, SMT
  <2> QED
    BY <2>2, <2>3, <2>4, Zenon DEF Quiet
<1> QED
  BY <1>1, <1>2, Zenon

LEMMA PlainIsHonest ==
    ASSUME TokenInv, NEW reach \in [Peers -> Seq(Plain)], Send(reach)
    PROVE  toPeer' \in [Peers -> Seq(Honest)]
<1>1. Plain \subseteq Honest
  BY Zenon DEF Plain, Honest
<1>2. reach \in [Peers -> Seq(Honest)]
  BY <1>1, SMT
<1> QED
  BY <1>2, SendKeeps DEF TokenInv

\* Only the arrival of a text lengthens what a call has yielded.
LEMMA GotStep ==
    ASSUME [Next]_vars
    PROVE  got' = got \/ \E p \in Peers : TakeText(p)
<1> USE DEF playgroundVars
<1>1. ASSUME NEW p \in Peers, Join(p) \/ Drop(p) PROVE got' = got
  BY <1>1, Zenon DEF Join, Drop
<1>2. ASSUME NEW p \in Peers, Playground(p) PROVE got' = got \/ TakeText(p)
  BY <1>2, Zenon DEF Playground, GiveUp, Ask, TakeAuth, TakeEnd, PressStop
<1>3. ASSUME NEW p \in Peers, Receive(p) PROVE got' = got
  BY <1>3, Zenon DEF Receive, Hello, Refuse, Serve, TakeAbort
<1>4. ASSUME NEW c \in Calls, Listen(c) \/ Task(c) PROVE got' = got
  BY <1>4, Zenon DEF Listen, Task, Begin, Enter, Fault, Token, Finish
<1>5. CASE Owner
  BY <1>5, Zenon DEF Owner, Unload, Unloaded, Install, Approve, Dismiss
<1>6. CASE UNCHANGED vars
  BY <1>6, Zenon DEF vars
<1> QED
  BY <1>1, <1>2, <1>3, <1>4, <1>5, <1>6, Zenon DEF Next

LEMMA TakeTextIsHonest ==
    ASSUME TypeOK, TokenInv, NEW p \in Peers, TakeText(p)
    PROVE  TokensReachTheirRequester'
<1> DEFINE m == Head(toPeer[p])
<1>1. m \in Honest /\ m.kind = "text"
  BY ReceivedKeeps, Zenon DEF TakeText, TokenInv
<1>2. got' = [c \in Calls |-> IF c \in Of(p) /\ Id(c) = m.id /\ reply[c] = "open"
                              THEN Append(got[c], m.word) ELSE got[c]]
  BY Zenon DEF TakeText
<1>3. m \in ToPeer /\ \A c \in Calls : m.id = Id(c) => m.word[1] = c
  BY <1>1, Zenon DEF Honest
<1> HIDE DEF m
<1> SUFFICES ASSUME NEW c \in Calls, NEW i \in DOMAIN got'[c] PROVE got'[c][i][1] = c
  BY DEF TokensReachTheirRequester
<1>4. got[c] \in Seq(Words) /\ \A j \in DOMAIN got[c] : got[c][j][1] = c
  BY Zenon DEF TypeOK, PlaygroundOK, TokenInv, TokensReachTheirRequester
<1>5. CASE c \in Of(p) /\ Id(c) = m.id /\ reply[c] = "open"
  <2>1. got'[c] = Append(got[c], m.word)
    BY <1>2, <1>5, Zenon
  <2>2. m.word[1] = c
    BY <1>3, <1>5, Zenon
  <2>3. \A j \in 1 .. Len(got[c]) : got'[c][j] = got[c][j]
    BY <1>4, <2>1, SMT
  <2>4. got'[c][Len(got[c]) + 1] = m.word /\ DOMAIN got'[c] = 1 .. Len(got[c]) + 1
    BY <1>4, <2>1, SMT
  <2>5. DOMAIN got[c] = 1 .. Len(got[c]) /\ Len(got[c]) \in Nat
    BY <1>4, SMT
  <2>6. CASE i = Len(got[c]) + 1
    BY <2>2, <2>4, <2>6, Zenon
  <2>7. CASE i # Len(got[c]) + 1
    <3>1. i \in 1 .. Len(got[c])
      BY <2>4, <2>5, <2>7, SMT
    <3> QED
      BY <1>4, <2>3, <2>5, <3>1, Zenon
  <2> QED
    BY <2>6, <2>7
<1>6. CASE ~(c \in Of(p) /\ Id(c) = m.id /\ reply[c] = "open")
  <2>1. got'[c] = got[c]
    BY <1>2, <1>6, Zenon
  <2> QED
    BY <1>4, <2>1, Zenon
<1> QED
  BY <1>5, <1>6

LEMMA TokenStep == DistinctIds /\ TypeOK /\ TypeOK' /\ TokenInv /\ [Next]_vars => TokenInv'
<1> SUFFICES ASSUME DistinctIds, TypeOK, TypeOK', TokenInv, [Next]_vars PROVE TokenInv'
  OBVIOUS
<1>1. toPeer' \in [Peers -> Seq(Honest)]
  BY StepSends, QuietIsHonest, PlainIsHonest, TokenIsHonest, Zenon
<1>2. TokensReachTheirRequester'
  <2>1. CASE got' = got
    BY <2>1, Zenon DEF TokenInv, TokensReachTheirRequester
  <2>2. CASE \E p \in Peers : TakeText(p)
    BY <2>2, TakeTextIsHonest
  <2> QED
    BY <2>1, <2>2, GotStep
<1>3. Honest' = Honest
  OBVIOUS
<1> QED
  BY <1>1, <1>2 DEF TokenInv

-----------------------------------------------------------------------------
(* What a step does to one stream of a Playground. *)

\* A message that ends a call's stream.
Ending(m, c) == m.kind \in {"end", "error"} /\ Id(c) \in m.ids

OnItsWay(c) == \E i \in DOMAIN toPeer[c[1]] : Ending(toPeer[c[1]][i], c)

\* A Playground that has no link has nothing under way to the hub; a stream that
\* the hub has served, and whose Playground notices what it loses, has a link.
LinkInv ==
    /\ \A p \in Peers : ~linked[p] => toHub[p] = <<>>
    /\ \A c \in Calls : (reply[c] = "open" /\ serving[c] # "none" /\ c \notin unnoticed) => linked[c[1]]

\* Two sequences, one after the other.
LEMMA Joined ==
    ASSUME NEW S, NEW s \in Seq(S), NEW t \in Seq(S)
    PROVE  /\ s \o t \in Seq(S) /\ Len(s \o t) = Len(s) + Len(t)
           /\ DOMAIN s = 1 .. Len(s) /\ DOMAIN t = 1 .. Len(t)
           /\ DOMAIN (s \o t) = 1 .. Len(s) + Len(t)
           /\ Len(s) \in Nat /\ Len(t) \in Nat
           /\ \A i \in 1 .. Len(s) : (s \o t)[i] = s[i]
           /\ \A i \in 1 .. Len(t) : (s \o t)[Len(s) + i] = t[i]
           /\ \A i \in 1 .. Len(s) + Len(t) : i > Len(s) =>
                 i - Len(s) \in 1 .. Len(t) /\ (s \o t)[i] = t[i - Len(s)]
OBVIOUS

\* A sequence whose first element is taken off.
LEMMA TakenOff ==
    ASSUME NEW S, NEW s \in Seq(S), s # <<>>
    PROVE  /\ Head(s) = s[1] /\ Head(s) \in S /\ Len(s) \in Nat \ {0}
           /\ DOMAIN s = 1 .. Len(s) /\ Tail(s) \in Seq(S)
           /\ DOMAIN Tail(s) = 1 .. Len(s) - 1
           /\ \A i \in 1 .. Len(s) - 1 : Tail(s)[i] = s[i + 1]
OBVIOUS

\* A queue gets longer, loses its first message to the Playground, or is lost.
LEMMA QueueStep ==
    ASSUME TypeOK, [Next]_vars, NEW p \in Peers
    PROVE  \/ \E t \in Seq(ToPeer) : toPeer'[p] = toPeer[p] \o t /\ (~linked[p] => t = <<>>)
           \/ Takes(p)
           \/ Drop(p)
<1>1. toPeer \in [Peers -> Seq(ToPeer)]
  BY DEF TypeOK, WireOK
<1>2. ASSUME toPeer'[p] = toPeer[p]
      PROVE  \E t \in Seq(ToPeer) : toPeer'[p] = toPeer[p] \o t /\ (~linked[p] => t = <<>>)
  <2>1. toPeer[p] = toPeer[p] \o <<>> /\ <<>> \in Seq(ToPeer)
    BY <1>1
  <2> QED
    BY <1>2, <2>1
<1>3. ASSUME NEW reach, Send(reach), reach[p] \in Seq(ToPeer)
      PROVE  \E t \in Seq(ToPeer) : toPeer'[p] = toPeer[p] \o t /\ (~linked[p] => t = <<>>)
  <2>1. toPeer'[p] = IF linked[p] THEN toPeer[p] \o reach[p] ELSE toPeer[p]
    BY <1>3 DEF Send
  <2> QED
    BY <1>2, <1>3, <2>1
<1>4. ASSUME NEW q \in Peers, Drop(q) \/ Takes(q), q # p
      PROVE  toPeer'[p] = toPeer[p]
  BY <1>1, <1>4 DEF Drop, Takes, TakeAuth, TakeText, TakeEnd, Received
<1>5. CASE UNCHANGED toPeer
  BY <1>2, <1>5
<1>6. CASE \E c \in Calls : Token(c)
  <2>1. PICK c \in Calls : Token(c)
    BY <1>6
  <2> DEFINE msg == [d \in Calls |-> Text(d, <<c, emitted[c] + 1>>)]
             reach == [q \in Peers |-> IF Hearers(c) \cap Of(q) = {} THEN <<>>
                          ELSE <<msg[CHOOSE d \in Hearers(c) \cap Of(q) : TRUE]>>]
  <2>2. Send(reach) /\ emitted[c] < MaxTokens
    BY <2>1, Zenon DEF Token, Pass
  <2>3. emitted[c] \in Nat /\ <<c, emitted[c] + 1>> \in Words
    BY <2>2, BoundsAssumption DEF TypeOK, EngineOK, Words
  <2>4. msg \in [Calls -> ToPeer]
    BY <2>3, MessageTypes
  <2>5. Hearers(c) \cap Of(p) \subseteq Calls
    BY DEF Hearers, Listening
  <2> HIDE DEF msg
  <2>6. reach[p] \in Seq(ToPeer)
    BY <2>4, <2>5
  <2> HIDE DEF reach
  <2> QED
    BY <1>3, <2>2, <2>6
<1>7. ASSUME NEW reach \in [Peers -> Seq(Plain)], Send(reach)
      PROVE  \E t \in Seq(ToPeer) : toPeer'[p] = toPeer[p] \o t /\ (~linked[p] => t = <<>>)
  <2>1. Plain \subseteq ToPeer
    BY DEF Plain
  <2>2. reach[p] \in Seq(ToPeer)
    BY <2>1
  <2> QED
    BY <1>3, <1>7, <2>2
<1> QED
  BY <1>2, <1>4, <1>5, <1>6, <1>7, StepMoves

\* What becomes of a call's stream() in a step.
LEMMA ReplyStep ==
    ASSUME TypeOK, [Next]_vars, NEW c \in Calls
    PROVE  \/ reply'[c] = reply[c] /\ (Drop(c[1]) /\ reply[c] = "open" => c \in unnoticed')
           \/ reply[c] = "unused" /\ reply'[c] = "open" /\ Ask(c[1])
           \/ reply[c] = "open" /\ reply'[c] = "failed"
           \/ /\ reply[c] = "open" /\ TakeEnd(c[1]) /\ Ending(Head(toPeer[c[1]]), c)
              /\ reply'[c] = IF Head(toPeer[c[1]]).kind = "end" THEN "done" ELSE "failed"
<1>1. /\ reply \in [Calls -> {"unused", "open", "done", "failed"}] /\ c[1] \in Peers /\ c \in Of(c[1])
      /\ c = <<c[1], c[2]>>
  BY CallParts DEF TypeOK, PlaygroundOK
<1>2. ASSUME NEW p \in Peers, Drop(p)
      PROVE  \/ reply'[c] = reply[c] /\ (p = c[1] /\ reply[c] = "open" => c \in unnoticed')
             \/ reply[c] = "open" /\ reply'[c] = "failed"
  <2>1. CASE Lose(p)
    BY <1>1, <2>1 DEF Lose
  <2>2. CASE ~Lose(p)
    <3>1. reply' = reply /\ unnoticed' = unnoticed \cup {d \in Of(p) : reply[d] = "open"}
      BY <1>2, <2>2 DEF Drop
    <3> QED
      BY <1>1, <3>1
  <2> QED
    BY <2>1, <2>2
<1>7. ASSUME NEW p \in Peers, GiveUp(p)
      PROVE  reply'[c] = reply[c] \/ (reply[c] = "open" /\ reply'[c] = "failed")
  BY <1>1, <1>7 DEF GiveUp, Lose
<1>3. ASSUME NEW p \in Peers, Ask(p)
      PROVE  reply'[c] = reply[c] \/ (p = c[1] /\ reply[c] = "unused" /\ reply'[c] = "open")
  <2>1. PICK k \in 1 .. MaxStreams :
            /\ \A j \in 1 .. MaxStreams : reply[<<p, j>>] = "unused" <=> j >= k
            /\ reply' = [reply EXCEPT ![<<p, k>>] = "open"]
    BY <1>3 DEF Ask
  <2>2. reply[<<p, k>>] = "unused"
    BY <2>1
  <2>3. <<p, k>>[1] = p
    OBVIOUS
  <2> QED
    BY <1>1, <2>1, <2>2, <2>3
<1>4. ASSUME NEW p \in Peers, TakeEnd(p)
      PROVE  \/ reply'[c] = reply[c]
             \/ /\ reply[c] = "open" /\ p = c[1] /\ Ending(Head(toPeer[c[1]]), c)
                /\ reply'[c] = IF Head(toPeer[c[1]]).kind = "end" THEN "done" ELSE "failed"
  <2>1. c \in Of(p) => c[1] = p
    BY CallParts
  <2> QED
    BY <1>1, <1>4, <2>1 DEF TakeEnd, Ending
<1>5. CASE Drop(c[1])
  BY <1>1, <1>2, <1>5
<1>6. reply' = reply \/ \E p \in Peers : Drop(p) \/ GiveUp(p) \/ Ask(p) \/ TakeEnd(p)
  <2> USE DEF playgroundVars
  <2>1. ASSUME NEW p \in Peers, Join(p) \/ Receive(p) PROVE reply' = reply
    BY <2>1, Zenon DEF Join, Receive, Hello, Refuse, Serve, TakeAbort
  <2>2. ASSUME NEW p \in Peers, Playground(p) PROVE reply' = reply \/ GiveUp(p) \/ Ask(p) \/ TakeEnd(p)
    BY <2>2, Zenon DEF Playground, TakeAuth, TakeText, PressStop
  <2>3. ASSUME NEW d \in Calls, Listen(d) \/ Task(d) PROVE reply' = reply
    BY <2>3, Zenon DEF Listen, Task, Begin, Enter, Fault, Token, Finish
  <2>4. CASE Owner \/ UNCHANGED vars
    BY <2>4, Zenon DEF Owner, Unload, Unloaded, Install, Approve, Dismiss, vars
  <2> QED
    BY <2>1, <2>2, <2>3, <2>4, Zenon DEF Next
<1> QED
  BY <1>1, <1>2, <1>3, <1>4, <1>5, <1>6, <1>7

LEMMA LinkInit == Init => LinkInv
<1> SUFFICES ASSUME Init PROVE LinkInv
  OBVIOUS
<1>1. (\A p \in Peers : toHub[p] = <<>>) /\ \A c \in Calls : reply[c] = "unused"
  BY DEF Init
<1> QED
  BY <1>1 DEF LinkInv

\* A link comes up or goes.
LEMMA LinkMoves ==
    ASSUME TypeOK, [Next]_vars, NEW p \in Peers
    PROVE  linked[p] => linked'[p] \/ Drop(p)
<1>1. linked' = linked \/ \E q \in Peers : Join(q) \/ Drop(q)
  <2> USE DEF wireVars
  <2>1. ASSUME NEW q \in Peers, Playground(q) \/ Receive(q) PROVE linked' = linked
    BY <2>1, Zenon DEF Playground, GiveUp, Ask, TakeAuth, TakeText, TakeEnd, PressStop,
       Receive, Hello, Refuse, Serve, TakeAbort
  <2>2. ASSUME NEW c \in Calls, Listen(c) \/ Task(c) PROVE linked' = linked
    BY <2>2, Zenon DEF Listen, Task, Begin, Enter, Fault, Token, Finish
  <2>3. CASE Owner \/ UNCHANGED vars
    BY <2>3, Zenon DEF Owner, Unload, Unloaded, Install, Approve, Dismiss, vars
  <2> QED
    BY <2>1, <2>2, <2>3, Zenon DEF Next
<1>2. linked \in [Peers -> BOOLEAN]
  BY DEF TypeOK, WireOK
<1>3. ASSUME NEW q \in Peers, Join(q)
      PROVE  linked[p] => linked'[p]
  <2>1. linked' = [linked EXCEPT ![q] = TRUE]
    BY <1>3, Zenon DEF Join
  <2> QED
    BY <1>2, <2>1
<1>4. ASSUME NEW q \in Peers, Drop(q), q # p
      PROVE  linked[p] => linked'[p]
  <2>1. linked' = [linked EXCEPT ![q] = FALSE]
    BY <1>4, Zenon DEF Drop
  <2> QED
    BY <1>2, <1>4, <2>1
<1> QED
  BY <1>1, <1>3, <1>4

\* A Playground that did not notice once stays so.
LEMMA UnnoticedGrows == ASSUME [Next]_vars PROVE unnoticed \subseteq unnoticed'
<1> USE DEF historyVars
<1>1. ASSUME NEW p \in Peers, Join(p) \/ Playground(p) \/ Receive(p) PROVE unnoticed' = unnoticed
  BY <1>1, Zenon DEF Join, Playground, GiveUp, Ask, TakeAuth, TakeText, TakeEnd, PressStop,
     Receive, Hello, Refuse, Serve, TakeAbort
<1>2. ASSUME NEW p \in Peers, Drop(p) PROVE unnoticed \subseteq unnoticed'
  BY <1>2 DEF Drop
<1>3. ASSUME NEW c \in Calls, Listen(c) \/ Task(c) PROVE unnoticed' = unnoticed
  BY <1>3, Zenon DEF Listen, Task, Begin, Enter, Fault, Token, Finish
<1>4. CASE Owner \/ UNCHANGED vars
  BY <1>4, Zenon DEF Owner, Unload, Unloaded, Install, Approve, Dismiss, vars
<1> QED
  BY <1>1, <1>2, <1>3, <1>4 DEF Next

\* A message that ends a call's stream and is sent over a link is on its way.
LEMMA EndIsSent ==
    ASSUME TypeOK, NEW c \in Calls, linked[c[1]], NEW reach, Send(reach),
           reach[c[1]] \in Seq(ToPeer),
           \E i \in DOMAIN reach[c[1]] : Ending(reach[c[1]][i], c)
    PROVE  OnItsWay(c)'
<1> DEFINE p == c[1]
           t == reach[p]
<1>1. p \in Peers /\ toPeer[p] \in Seq(ToPeer)
  BY CallParts DEF TypeOK, WireOK
<1>2. toPeer'[p] = toPeer[p] \o t
  BY <1>1 DEF Send
<1>3. PICK i \in DOMAIN t : Ending(t[i], c)
  OBVIOUS
<1>4. /\ Len(toPeer[p]) + i \in DOMAIN toPeer'[p]
      /\ toPeer'[p][Len(toPeer[p]) + i] = t[i]
  <2> HIDE DEF t, p
  <2>1. t \in Seq(ToPeer)
    BY DEF t, p
  <2>2. i \in 1 .. Len(t) /\ Len(t) \in Nat /\ Len(toPeer[p]) \in Nat
    BY <1>1, <1>3, <2>1, Joined
  <2>3. Len(toPeer[p]) + i \in 1 .. Len(toPeer[p]) + Len(t)
    BY <2>2
  <2> QED
    BY <1>1, <1>2, <2>1, <2>2, <2>3, Joined
<1> QED
  BY <1>3, <1>4 DEF OnItsWay

\* So is a message that closes the streams of a peer.
LEMMA ClosingReaches ==
    ASSUME TypeOK, NEW c \in Calls, linked[c[1]], NEW C \in SUBSET Calls, c \in C,
           NEW msgs \in Seq(ToPeer), Send(Only(c[1], msgs \o Closing(C)))
    PROVE  OnItsWay(c)'
<1>1. Closing(C) = <<Ends(C)>> /\ Ends(C) \in ToPeer
  BY MessageTypes DEF Closing
<1>2. Ending(Ends(C), c)
  BY DEF Ending, Ends
<1> HIDE DEF Closing
<1>3. c[1] \in Peers
  BY CallParts
<1>4. Only(c[1], msgs \o Closing(C))[c[1]] = msgs \o <<Ends(C)>>
  BY <1>1, <1>3 DEF Only
<1>5. /\ msgs \o <<Ends(C)>> \in Seq(ToPeer)
      /\ Len(msgs) + 1 \in DOMAIN (msgs \o <<Ends(C)>>)
      /\ (msgs \o <<Ends(C)>>)[Len(msgs) + 1] = Ends(C)
  BY <1>1
<1> QED
  BY <1>2, <1>4, <1>5, EndIsSent

\* Calls of one Playground have different ids.
LEMMA OwnIds ==
    ASSUME NEW c \in Calls, NEW d \in Calls, c[1] = d[1], Id(c) = Id(d)
    PROVE  c = d
<1>1. c[1] \in Peers /\ c[2] \in Nat /\ d[2] \in Nat /\ c = <<c[1], c[2]>> /\ d = <<d[1], d[2]>>
  BY CallParts, BoundsAssumption
<1>2. FirstId[c[1]] \in Nat
  BY <1>1, PeersAssumption
<1>3. c[2] = d[2]
  BY <1>1, <1>2 DEF Id
<1> QED
  BY <1>1, <1>3

\* Whoever hears a task's event passes it on, each server under its own id.
LEMMA PassReaches ==
    ASSUME NEW c \in Calls, NEW d \in Hearers(c), NEW msg, Pass(c, msg)
    PROVE  \E reach : Send(reach) /\ reach[d[1]] = <<msg[d]>>
<1> DEFINE reach == [p \in Peers |-> IF Hearers(c) \cap Of(p) = {} THEN <<>>
                          ELSE <<msg[CHOOSE e \in Hearers(c) \cap Of(p) : TRUE]>>]
<1>1. d \in Calls /\ d \in Of(d[1]) /\ d[1] \in Peers
  BY CallParts DEF Hearers, Listening
<1>2. \A e \in Hearers(c) \cap Of(d[1]) : e = d
  <2> SUFFICES ASSUME NEW e \in Hearers(c) \cap Of(d[1]) PROVE e = d
    OBVIOUS
  <2>1. e \in Calls /\ e[1] = d[1] /\ Id(e) = Id(d)
    BY <1>1, CallParts DEF Hearers, Listening
  <2> QED
    BY <1>1, <2>1, OwnIds
<1>3. (CHOOSE e \in Hearers(c) \cap Of(d[1]) : TRUE) = d
  BY <1>1, <1>2
<1>4. reach[d[1]] = <<msg[d]>>
  BY <1>1, <1>3
<1>5. Send(reach)
  BY DEF Pass
<1> HIDE DEF reach
<1> QED
  BY <1>4, <1>5

LEMMA ConcludeReaches ==
    ASSUME TypeOK, NEW c \in Calls, NEW d \in Hearers(c), linked[d[1]],
           Fault(c) \/ Finish(c)
    PROVE  OnItsWay(d)'
<1>1. d \in Calls
  BY DEF Hearers, Listening
<1>2. CASE Fault(c)
  <2> DEFINE msg == [e \in Calls |-> Error(e)]
  <2>1. Pass(c, msg) /\ msg[d] = Error(d)
    BY <1>1, <1>2 DEF Fault, Conclude
  <2>2. Error(d) \in ToPeer /\ Ending(Error(d), d)
    BY <1>1, MessageTypes DEF Ending, Error
  <2> HIDE DEF msg
  <2>3. PICK reach : Send(reach) /\ reach[d[1]] = <<Error(d)>>
    BY <2>1, PassReaches
  <2>4. reach[d[1]] \in Seq(ToPeer) /\ 1 \in DOMAIN reach[d[1]] /\ reach[d[1]][1] = Error(d)
    BY <2>2, <2>3
  <2> QED
    BY <1>1, <2>2, <2>3, <2>4, EndIsSent
<1>3. CASE Finish(c)
  <2> DEFINE msg == [e \in Calls |-> Ends({e})]
  <2>1. Pass(c, msg) /\ msg[d] = Ends({d})
    BY <1>1, <1>3 DEF Finish, Conclude
  <2>2. Ends({d}) \in ToPeer /\ Ending(Ends({d}), d)
    BY <1>1, MessageTypes DEF Ending, Ends
  <2> HIDE DEF msg
  <2>3. PICK reach : Send(reach) /\ reach[d[1]] = <<Ends({d})>>
    <3>1. PICK reach : Send(reach) /\ reach[d[1]] = <<msg[d]>>
      BY <2>1, PassReaches
    <3>2. reach[d[1]] = <<Ends({d})>>
      BY <2>1, <3>1
    <3> QED
      BY <3>1, <3>2
  <2>4. reach[d[1]] \in Seq(ToPeer) /\ 1 \in DOMAIN reach[d[1]] /\ reach[d[1]][1] = Ends({d})
    BY <2>2, <2>3
  <2> QED
    BY <1>1, <2>2, <2>3, <2>4, EndIsSent
<1> QED
  BY <1>2, <1>3

\* An end that is on its way stays so until it comes.
LEMMA WayGoesOn ==
    ASSUME TypeOK, [Next]_vars, NEW c \in Calls, OnItsWay(c), reply[c] = "open", reply'[c] = "open",
           c \notin unnoticed'
    PROVE  OnItsWay(c)'
<1> DEFINE p == c[1]
           q == toPeer[p]
<1>1. p \in Peers /\ q \in Seq(ToPeer) /\ c \in Of(p)
  BY CallParts DEF TypeOK, WireOK
<1>2. PICK i \in DOMAIN q : Ending(q[i], c)
  BY DEF OnItsWay
<1>3. ~Drop(p)
  BY ReplyStep
<1>4. CASE \E t \in Seq(ToPeer) : toPeer'[p] = q \o t
  <2>1. PICK t \in Seq(ToPeer) : toPeer'[p] = q \o t
    BY <1>4
  <2>2. i \in DOMAIN toPeer'[p] /\ toPeer'[p][i] = q[i]
    <3> HIDE DEF q
    <3> QED
      BY <1>1, <1>2, <2>1, Joined
  <2> QED
    BY <1>2, <2>2 DEF OnItsWay
<1>5. CASE Takes(p)
  <2>1. q # <<>> /\ toPeer' = [toPeer EXCEPT ![p] = Tail(q)]
    BY <1>5, Zenon DEF Takes, TakeAuth, TakeText, TakeEnd, Received
  <2>2. toPeer'[p] = Tail(q)
    BY <1>1, <2>1 DEF TypeOK, WireOK
  <2>3. i # 1
    <3> SUFFICES ASSUME Ending(Head(q), c) PROVE FALSE
      <4>1. Head(q) = q[1]
        BY <1>1, <2>1, TakenOff
      <4> QED
        BY <1>2, <4>1
    <3>1. Head(q).kind \in {"end", "error"} /\ Id(c) \in Head(q).ids
      BY DEF Ending
    <3>2. TakeEnd(p)
      BY <1>5, <3>1 DEF Takes, TakeAuth, TakeText
    <3>3. reply'[c] # "open"
      BY <1>1, <3>1, <3>2 DEF TakeEnd
    <3> QED
      BY <3>3
  <2> HIDE DEF q
  <2>4. i - 1 \in DOMAIN Tail(q) /\ Tail(q)[i - 1] = q[i]
    BY <1>1, <1>2, <2>1, <2>3, TakenOff
  <2> QED
    BY <1>2, <2>2, <2>4 DEF OnItsWay
<1> QED
  BY <1>1, <1>3, <1>4, <1>5, QueueStep

-----------------------------------------------------------------------------
(* What a step does to the server and the task of one call. *)

ServedIn(c) ==
    /\ Serve(c[1]) /\ Head(toHub[c[1]]) = <<"stream", c[2]>>
    /\ serving'[c] = "starting" /\ task'[c] = "starting" /\ emitted'[c] = emitted[c]

ListensIn(c) ==
    /\ serving[c] = "starting" /\ c \notin signal /\ serving'[c] = "listening"
    /\ task'[c] = task[c] /\ emitted'[c] = emitted[c]

AdvancesIn(c) ==
    /\ serving'[c] = serving[c] /\ emitted'[c] = emitted[c]
    /\ task[c] \in {"starting", "waiting"} /\ task'[c] \in {"waiting", "generating"}

YieldsIn(c) ==
    /\ Token(c) /\ serving'[c] = serving[c] /\ task'[c] = task[c]

ConcludesIn(c) ==
    /\ Fault(c) \/ Finish(c)
    /\ Working(c) /\ task'[c] = "over" /\ emitted'[c] = emitted[c]
    /\ serving'[c] = IF serving[c] = "listening" THEN "ended" ELSE serving[c]
    /\ serving[c] = "listening" /\ linked[c[1]] => OnItsWay(c)'
    /\ serving[c] = "starting" => c \in missed'

\* The server ends, by a signal or by the event of another call with its id.
StopsIn(c) ==
    /\ serving[c] \in {"starting", "listening"} /\ serving'[c] = "ended"
    /\ task'[c] = task[c] /\ emitted'[c] = emitted[c]
    /\ c \in signal' \/ \E d \in Calls \ {c} : Id(d) = Id(c)
    /\ linked[c[1]] => OnItsWay(c)' \/ Drop(c[1])

StaysIn(c) == serving'[c] = serving[c] /\ task'[c] = task[c] /\ emitted'[c] = emitted[c]

ServerMoves(c) ==
    /\ missed \subseteq missed' /\ signal \subseteq signal'
    /\ \/ StaysIn(c) \/ ServedIn(c) \/ ListensIn(c) \/ AdvancesIn(c) \/ YieldsIn(c)
       \/ ConcludesIn(c) \/ StopsIn(c)

LEMMA AbortStep ==
    ASSUME TypeOK, NEW C \in SUBSET Calls, Abort(C), NEW c \in Calls
    PROVE  /\ signal \subseteq signal'
           /\ \/ serving'[c] = serving[c]
              \/ c \in Listening(C) /\ serving[c] = "listening" /\ serving'[c] = "ended" /\ c \in signal'
BY DEF Abort, Listening

\* The end of a task, as another call sees it.
LEMMA ConcludeStep ==
    ASSUME TypeOK, NEW d \in Calls, Fault(d) \/ Finish(d), NEW c \in Calls
    PROVE  ServerMoves(c)
<1>1. /\ serving \in [Calls -> {"none", "starting", "listening", "ended"}]
      /\ task \in [Calls -> {"none", "starting", "waiting", "generating", "over"}]
  BY DEF TypeOK, ServerOK, EngineOK
<1>2. /\ task' = [task EXCEPT ![d] = "over"] /\ Working(d)
      /\ serving' = [e \in Calls |-> IF e \in Hearers(d) THEN "ended" ELSE serving[e]]
      /\ signal' = signal /\ emitted' = emitted /\ Miss(d)
  BY DEF Fault, Finish, Conclude, Working
<1>3. missed \subseteq missed' /\ (serving[d] = "starting" => d \in missed')
  BY <1>2 DEF Miss
<1>4. /\ serving'[c] = IF c \in Hearers(d) THEN "ended" ELSE serving[c]
      /\ c \in Hearers(d) <=> serving[c] = "listening" /\ Id(c) = Id(d)
  BY <1>2 DEF Hearers, Listening
<1>5. c \in Hearers(d) /\ linked[c[1]] => OnItsWay(c)'
  BY ConcludeReaches
<1>6. CASE c = d
  <2>1. ConcludesIn(c)
    BY <1>1, <1>2, <1>3, <1>4, <1>5, <1>6 DEF ConcludesIn
  <2> QED
    BY <1>2, <1>3, <2>1 DEF ServerMoves
<1>7. CASE c # d /\ c \in Hearers(d)
  <2>1. StopsIn(c)
    BY <1>1, <1>2, <1>4, <1>5, <1>7 DEF StopsIn
  <2> QED
    BY <1>2, <1>3, <2>1 DEF ServerMoves
<1>8. CASE c # d /\ c \notin Hearers(d)
  <2>1. StaysIn(c)
    BY <1>1, <1>2, <1>4, <1>8 DEF StaysIn
  <2> QED
    BY <1>2, <1>3, <2>1 DEF ServerMoves
<1> QED
  BY <1>6, <1>7, <1>8

\* Calls that are aborted, with a word to their Playground.
LEMMA AbortMoves ==
    ASSUME TypeOK, NEW p \in Peers, NEW C \in SUBSET Of(p), Abort(C),
           UNCHANGED <<task, emitted, missed>>,
           \/ Drop(p)
           \/ \E msgs \in Seq(ToPeer) : Send(Only(p, msgs \o Closing(Listening(C)))),
           NEW c \in Calls
    PROVE  ServerMoves(c)
<1>1. C \in SUBSET Calls /\ Listening(C) \in SUBSET Calls
  BY CallParts DEF Listening
<1>2. CASE serving'[c] = serving[c]
  BY <1>1, <1>2, AbortStep DEF ServerMoves, StaysIn
<1>3. CASE c \in Listening(C) /\ serving[c] = "listening" /\ serving'[c] = "ended" /\ c \in signal'
  <2>1. c[1] = p
    BY <1>3, CallParts DEF Listening
  <2>2. linked[c[1]] => OnItsWay(c)' \/ Drop(c[1])
    BY <1>1, <1>3, <2>1, ClosingReaches
  <2>3. StopsIn(c)
    BY <1>3, <2>2 DEF StopsIn
  <2> QED
    BY <1>1, <2>3, AbortStep DEF ServerMoves
<1> QED
  BY <1>1, <1>2, <1>3, AbortStep

LEMMA ServerStep ==
    ASSUME TypeOK, [Next]_vars, NEW c \in Calls
    PROVE  ServerMoves(c)
<1>1. /\ serving \in [Calls -> {"none", "starting", "listening", "ended"}]
      /\ task \in [Calls -> {"none", "starting", "waiting", "generating", "over"}]
      /\ emitted \in [Calls -> 0 .. MaxTokens]
  BY DEF TypeOK, ServerOK, EngineOK
<1>2. ASSUME UNCHANGED <<serving, signal, task, emitted, missed>> PROVE ServerMoves(c)
  BY <1>2 DEF ServerMoves, StaysIn
<1>3. ASSUME NEW p \in Peers, Join(p) \/ Playground(p) \/ Approve(p) \/ Hello(p) \/ Refuse(p)
      PROVE  ServerMoves(c)
  BY <1>2, <1>3, Zenon DEF Join, Playground, GiveUp, Ask, TakeAuth, TakeText, TakeEnd, PressStop, Approve, Hello,
     Refuse, serverVars, engineVars, historyVars
<1>4. CASE Unload \/ Unloaded \/ Install \/ UNCHANGED vars
  BY <1>2, <1>4, Zenon DEF Unload, Unloaded, Install, vars, serverVars, engineVars, historyVars
<1>5. ASSUME NEW p \in Peers, Drop(p)
      PROVE  ServerMoves(c)
  <2> DEFINE C == IF hub[p] = "gone" THEN {} ELSE Of(p)
  <2>1. Abort(C) /\ UNCHANGED <<task, emitted, missed>> /\ C \in SUBSET Of(p)
    BY <1>5 DEF Drop, historyVars
  <2> HIDE DEF C
  <2> QED
    BY <1>5, <2>1, AbortMoves
<1>6. ASSUME NEW p \in Peers, Dismiss(p)
      PROVE  ServerMoves(c)
  <2>1. /\ Abort(Of(p)) /\ UNCHANGED <<task, emitted, missed>>
        /\ Send(Only(p, <<Auth("denied")>> \o Closing(Listening(Of(p)))))
    BY <1>6, Zenon DEF Dismiss, historyVars
  <2>2. <<Auth("denied")>> \in Seq(ToPeer)
    BY MessageTypes
  <2> QED
    BY <2>1, <2>2, AbortMoves
<1>7. ASSUME NEW p \in Peers, TakeAbort(p)
      PROVE  ServerMoves(c)
  <2> DEFINE C == {<<p, Head(toHub[p])[2]>>}
  <2>1. Head(toHub[p]) \in ToHub /\ Head(toHub[p])[1] = "abort"
    BY <1>7, ArrivedKeeps, Zenon DEF TakeAbort, TypeOK, WireOK
  <2>2. C \in SUBSET Of(p)
    BY <2>1 DEF ToHub, Of
  <2>3. /\ Abort(C) /\ UNCHANGED <<task, emitted, missed>>
        /\ Send(Only(p, Closing(Listening(C))))
    BY <1>7, Zenon DEF TakeAbort, historyVars
  <2> HIDE DEF C
  <2>4. Closing(Listening(C)) = <<>> \o Closing(Listening(C)) /\ <<>> \in Seq(ToPeer)
    <3>1. Closing(Listening(C)) \in Seq(ToPeer)
      BY <2>2, CallParts, MessageTypes, ClosingType DEF Listening
    <3> QED
      BY <3>1
  <2>5. Send(Only(p, <<>> \o Closing(Listening(C))))
    BY <2>3, <2>4
  <2> QED
    BY <2>2, <2>3, <2>4, <2>5, AbortMoves
<1>8. ASSUME NEW p \in Peers, Serve(p)
      PROVE  ServerMoves(c)
  <2> DEFINE d == <<p, Head(toHub[p])[2]>>
  <2>1. Head(toHub[p]) \in ToHub /\ Head(toHub[p])[1] = "stream"
    BY <1>8, ArrivedKeeps, Zenon DEF Serve, TypeOK, WireOK
  <2>2. Head(toHub[p]) = <<"stream", d[2]>> /\ d[1] = p /\ d \in Calls
    BY <2>1, CallParts DEF ToHub
  <2>3. /\ serving' = [serving EXCEPT ![d] = "starting"]
        /\ task' = [task EXCEPT ![d] = "starting"]
        /\ UNCHANGED <<signal, emitted, missed>>
    BY <1>8, Zenon DEF Serve, historyVars
  <2> HIDE DEF d
  <2>4. CASE c = d
    BY <1>1, <1>8, <2>2, <2>3, <2>4 DEF ServerMoves, ServedIn
  <2>5. CASE c # d
    BY <1>1, <2>3, <2>5 DEF ServerMoves, StaysIn
  <2> QED
    BY <2>4, <2>5
<1>9. ASSUME NEW d \in Calls, Listen(d)
      PROVE  ServerMoves(c)
  <2>1. /\ serving[d] = "starting"
        /\ serving' = [serving EXCEPT ![d] = IF d \in signal THEN "ended" ELSE "listening"]
        /\ UNCHANGED <<signal, task, emitted, missed>>
        /\ Send(Only(d[1], Closing({d} \cap signal)))
    BY <1>9, Zenon DEF Listen, historyVars
  <2>2. CASE c # d
    BY <1>1, <2>1, <2>2 DEF ServerMoves, StaysIn
  <2>3. CASE c = d /\ c \notin signal
    BY <1>1, <2>1, <2>3 DEF ServerMoves, ListensIn
  <2>4. CASE c = d /\ c \in signal
    <3>1. Closing({c} \cap signal) = <<>> \o Closing({c}) /\ <<>> \in Seq(ToPeer)
      <4>1. Closing({c}) \in Seq(ToPeer) /\ {c} \cap signal = {c}
        BY <2>4, MessageTypes, ClosingType
      <4>2. Closing({c}) = <<>> \o Closing({c})
        BY <4>1
      <4>3. Closing({c} \cap signal) = Closing({c})
        BY <4>1, Zenon
      <4>4. <<>> \in Seq(ToPeer)
        OBVIOUS
      <4> QED
        BY <4>2, <4>3, <4>4
    <3>2. linked[c[1]] => OnItsWay(c)'
      BY <2>1, <2>4, <3>1, ClosingReaches
    <3>3. StopsIn(c)
      BY <1>1, <2>1, <2>4, <3>2 DEF StopsIn
    <3> QED
      BY <2>1, <3>3 DEF ServerMoves
  <2> QED
    BY <2>2, <2>3, <2>4
<1>10. ASSUME NEW d \in Calls, Begin(d) \/ Enter(d)
       PROVE  ServerMoves(c)
  <2>1. /\ UNCHANGED <<serving, signal, emitted, missed>>
        /\ task[d] \in {"starting", "waiting"}
        /\ \E s \in {"waiting", "generating"} : task' = [task EXCEPT ![d] = s]
    BY <1>10 DEF Begin, Enter, serverVars, historyVars
  <2>2. CASE c = d
    BY <1>1, <2>1, <2>2 DEF ServerMoves, AdvancesIn
  <2>3. CASE c # d
    BY <1>1, <2>1, <2>3 DEF ServerMoves, StaysIn
  <2> QED
    BY <2>2, <2>3
<1>11. ASSUME NEW d \in Calls, Token(d)
       PROVE  ServerMoves(c)
  <2>1. /\ UNCHANGED <<serving, signal, task>> /\ Miss(d)
        /\ emitted' = [emitted EXCEPT ![d] = @ + 1]
    BY <1>11 DEF Token, serverVars
  <2>2. missed \subseteq missed'
    BY <2>1 DEF Miss
  <2>3. CASE c = d
    BY <1>11, <2>1, <2>2, <2>3 DEF ServerMoves, YieldsIn
  <2>4. CASE c # d
    BY <1>1, <2>1, <2>2, <2>4 DEF ServerMoves, StaysIn
  <2> QED
    BY <2>3, <2>4
<1>12. ASSUME NEW d \in Calls, Fault(d) \/ Finish(d)
       PROVE  ServerMoves(c)
  BY <1>12, ConcludeStep
<1> QED
  BY <1>3, <1>4, <1>5, <1>6, <1>7, <1>8, <1>9, <1>10, <1>11, <1>12, Zenon DEF Next, Receive, Task, Owner

-----------------------------------------------------------------------------
(* A call is asked for once. *)

Request(c) == <<"stream", c[2]>>

Requested(c) == {i \in DOMAIN toHub[c[1]] : toHub[c[1]][i] = Request(c)}

\* A call that was never asked for is unknown to the hub; one that is asked for
\* is asked for once; server and task start together.
AskedOnce(c) ==
    /\ \A i, j \in Requested(c) : i = j
    /\ Requested(c) # {} => serving[c] = "none" /\ reply[c] # "unused"
    /\ reply[c] = "unused" => serving[c] = "none"
    /\ serving[c] = "none" <=> task[c] = "none"
    /\ task[c] = "none" => emitted[c] = 0

AskInv == \A c \in Calls : AskedOnce(c)

\* The queue to the hub.
LEMMA HubQueueStep ==
    ASSUME TypeOK, [Next]_vars, NEW p \in Peers
    PROVE  \/ toHub'[p] = toHub[p] \/ toHub'[p] = <<>>
           \/ \E m \in ToHub :
                 /\ toHub'[p] = Append(toHub[p], m) /\ linked'[p]
                 /\ m[1] = "stream" => reply[<<p, m[2]>>] = "unused" /\ reply'[<<p, m[2]>>] = "open"
           \/ toHub[p] # <<>> /\ toHub'[p] = Tail(toHub[p])
<1>1. toHub \in [Peers -> Seq(ToHub)] /\ reply \in [Calls -> {"unused", "open", "done", "failed"}]
  BY DEF TypeOK, WireOK, PlaygroundOK
<1>2. ASSUME NEW q \in Peers, Join(q)
      PROVE  \/ toHub'[p] = toHub[p]
             \/ linked'[p] /\ \E m \in ToHub : toHub'[p] = Append(toHub[p], m) /\ m[1] # "stream"
  <2>1. <<"hello", 0>> \in ToHub /\ <<"hello", 0>>[1] # "stream"
    BY DEF ToHub
  <2>2. toHub' = [r \in Peers |-> IF linked'[r] THEN Append(toHub[r], <<"hello", 0>>) ELSE toHub[r]]
    BY <1>2, Zenon DEF Join
  <2> QED
    BY <2>1, <2>2
<1>3. ASSUME NEW q \in Peers, Drop(q)
      PROVE  toHub'[p] = toHub[p] \/ toHub'[p] = <<>>
  <2>1. toHub' = [toHub EXCEPT ![q] = <<>>]
    BY <1>3, Zenon DEF Drop
  <2> QED
    BY <1>1, <2>1
<1>4. ASSUME NEW q \in Peers, Ask(q)
      PROVE  \/ toHub'[p] = toHub[p]
             \/ \E m \in ToHub :
                   /\ toHub'[p] = Append(toHub[p], m) /\ linked'[p]
                   /\ m[1] = "stream" => reply[<<p, m[2]>>] = "unused" /\ reply'[<<p, m[2]>>] = "open"
  <2>1. PICK k \in 1 .. MaxStreams :
            /\ \A j \in 1 .. MaxStreams : reply[<<q, j>>] = "unused" <=> j >= k
            /\ reply' = [reply EXCEPT ![<<q, k>>] = "open"]
            /\ toHub' = IF linked[q] THEN [toHub EXCEPT ![q] = Append(@, <<"stream", k>>)] ELSE toHub
            /\ linked' = linked
    BY <1>4 DEF Ask, Tell
  <2>2. <<"stream", k>> \in ToHub /\ <<"stream", k>>[2] = k /\ <<q, k>> \in Calls
    BY CallParts DEF ToHub
  <2>3. reply[<<q, k>>] = "unused" /\ reply'[<<q, k>>] = "open"
    BY <1>1, <2>1, <2>2
  <2>4. CASE q = p /\ linked[q]
    <3>1. toHub'[p] = Append(toHub[p], <<"stream", k>>) /\ linked'[p]
      BY <1>1, <2>1, <2>4
    <3> QED
      BY <2>2, <2>3, <2>4, <3>1
  <2>5. CASE q # p \/ ~linked[q]
    BY <1>1, <2>1, <2>5
  <2> QED
    BY <2>4, <2>5
<1>5. ASSUME NEW d \in Calls, PressStop(d)
      PROVE  \/ toHub'[p] = toHub[p]
             \/ linked'[p] /\ \E m \in ToHub : toHub'[p] = Append(toHub[p], m) /\ m[1] # "stream"
  <2>1. <<"abort", d[2]>> \in ToHub /\ <<"abort", d[2]>>[1] # "stream"
    BY CallParts DEF ToHub
  <2>2. /\ toHub' = IF linked[d[1]] THEN [toHub EXCEPT ![d[1]] = Append(@, <<"abort", d[2]>>)] ELSE toHub
        /\ linked' = linked
    BY <1>5, Zenon DEF PressStop, Tell
  <2>3. CASE d[1] = p /\ linked[p]
    BY <1>1, <2>1, <2>2, <2>3
  <2>4. CASE d[1] # p \/ ~linked[p]
    BY <1>1, <2>2, <2>4
  <2> QED
    BY <2>3, <2>4
<1>6. ASSUME NEW q \in Peers, Receive(q)
      PROVE  toHub'[p] = toHub[p] \/ (toHub[p] # <<>> /\ toHub'[p] = Tail(toHub[p]))
  <2>1. \E kind : Arrived(q, kind)
    BY <1>6 DEF Receive, Hello, Refuse, Serve, TakeAbort
  <2>2. toHub[q] # <<>> /\ toHub' = [toHub EXCEPT ![q] = Tail(@)]
    BY <2>1 DEF Arrived
  <2> QED
    BY <1>1, <2>2
<1>7. \/ UNCHANGED toHub
      \/ \E q \in Peers : Join(q) \/ Drop(q) \/ Ask(q) \/ Receive(q)
      \/ \E d \in Calls : PressStop(d)
  <2> USE DEF wireVars
  <2>1. ASSUME NEW q \in Peers, Playground(q) PROVE UNCHANGED toHub \/ Ask(q) \/ \E d \in Calls : PressStop(d)
    BY <2>1, CallParts, Zenon DEF Playground, GiveUp, TakeAuth, TakeText, TakeEnd
  <2>2. ASSUME NEW c \in Calls, Listen(c) \/ Task(c) PROVE UNCHANGED toHub
    BY <2>2, Zenon DEF Listen, Task, Begin, Enter, Fault, Token, Finish
  <2>3. CASE Owner \/ UNCHANGED vars
    BY <2>3, Zenon DEF Owner, Unload, Unloaded, Install, Approve, Dismiss, vars
  <2> QED
    BY <2>1, <2>2, <2>3, Zenon DEF Next
<1> QED
  BY <1>2, <1>3, <1>4, <1>5, <1>6, <1>7

LEMMA AskInit == Init => AskInv
<1> SUFFICES ASSUME Init, NEW c \in Calls PROVE AskedOnce(c)
  BY DEF AskInv
<1>1. toHub[c[1]] = <<>> /\ serving[c] = "none" /\ task[c] = "none" /\ emitted[c] = 0
  BY CallParts DEF Init
<1> QED
  BY <1>1 DEF AskedOnce, Requested

\* A call's request is taken off the queue as it is served.
LEMMA RequestTaken ==
    ASSUME TypeOK, NEW c \in Calls, AskedOnce(c), ServedIn(c)
    PROVE  Requested(c) # {} /\ Requested(c)' = {}
<1> DEFINE p == c[1]
           q == toHub[p]
<1>1. p \in Peers /\ q \in Seq(ToHub)
  BY CallParts DEF TypeOK, WireOK
<1>2. q # <<>> /\ toHub' = [toHub EXCEPT ![p] = Tail(q)] /\ Head(q) = Request(c)
  BY Zenon DEF ServedIn, Serve, Arrived, Request
<1>3. toHub'[p] = Tail(q)
  BY <1>1, <1>2 DEF TypeOK, WireOK
<1>4. \A i \in DOMAIN q : i \in Requested(c) <=> q[i] = Request(c)
  BY DEF Requested
<1>5. \A i, j \in Requested(c) : i = j
  BY DEF AskedOnce
<1>6. Requested(c)' = {i \in DOMAIN Tail(q) : Tail(q)[i] = Request(c)}
  BY <1>3 DEF Requested, Request
<1> HIDE DEF q
<1>7. /\ Head(q) = q[1] /\ Len(q) \in Nat \ {0} /\ DOMAIN q = 1 .. Len(q)
      /\ DOMAIN Tail(q) = 1 .. Len(q) - 1
      /\ \A i \in 1 .. Len(q) - 1 : Tail(q)[i] = q[i + 1]
  BY <1>1, <1>2, TakenOff
<1>8. 1 \in Requested(c)
  <2>1. 1 \in DOMAIN q /\ q[1] = Request(c)
    BY <1>2, <1>7
  <2> QED
    BY <1>4, <2>1
<1>9. ASSUME NEW i \in DOMAIN Tail(q), Tail(q)[i] = Request(c)
      PROVE  FALSE
  <2>1. i \in 1 .. Len(q) - 1 /\ i + 1 \in DOMAIN q /\ q[i + 1] = Request(c) /\ i + 1 # 1
    BY <1>7, <1>9
  <2> QED
    BY <1>4, <1>5, <1>8, <2>1
<1> QED
  BY <1>6, <1>8, <1>9

\* A request is made once, when the stream opens.
LEMMA RequestMade ==
    ASSUME TypeOK, [Next]_vars, NEW c \in Calls, AskedOnce(c)
    PROVE  /\ \A i, j \in Requested(c)' : i = j
           /\ Requested(c)' # {} =>
                 Requested(c) # {} \/ (reply[c] = "unused" /\ reply'[c] = "open")
<1> DEFINE p == c[1]
           q == toHub[p]
           r == toHub'[p]
<1>1. p \in Peers /\ q \in Seq(ToHub) /\ c = <<p, c[2]>>
  BY CallParts DEF TypeOK, WireOK
<1>2. /\ Requested(c) = {i \in DOMAIN q : q[i] = Request(c)}
      /\ Requested(c)' = {i \in DOMAIN r : r[i] = Request(c)}
      /\ \A i, j \in Requested(c) : i = j
      /\ reply[c] = "unused" => Requested(c) = {}
  BY DEF Requested, Request, AskedOnce
<1>3. CASE r = q \/ r = <<>>
  <2>1. Requested(c)' \subseteq Requested(c)
    <3>1. CASE r = q
      BY <1>2, <3>1
    <3>2. CASE r = <<>>
      <4>1. DOMAIN r = {}
        BY <3>2
      <4> QED
        BY <1>2, <4>1
    <3> QED
      BY <1>3, <3>1, <3>2
  <2> QED
    BY <1>2, <2>1
<1>4. ASSUME NEW m \in ToHub, r = Append(q, m),
             m[1] = "stream" => reply[<<p, m[2]>>] = "unused" /\ reply'[<<p, m[2]>>] = "open"
      PROVE  /\ \A i, j \in Requested(c)' : i = j
             /\ Requested(c)' # {} =>
                   Requested(c) # {} \/ (reply[c] = "unused" /\ reply'[c] = "open")
  <2> HIDE DEF q, r
  <2>1. /\ DOMAIN q = 1 .. Len(q) /\ Len(q) \in Nat /\ DOMAIN r = 1 .. Len(q) + 1
        /\ \A i \in 1 .. Len(q) : r[i] = q[i]
        /\ r[Len(q) + 1] = m
    BY <1>1, <1>4
  <2>2. CASE m = Request(c)
    <3>1. reply[c] = "unused" /\ reply'[c] = "open"
      BY <1>1, <1>4, <2>2 DEF Request
    <3>2. Requested(c) = {}
      BY <1>2, <3>1
    <3>3. \A i \in Requested(c)' : i = Len(q) + 1
      <4> SUFFICES ASSUME NEW i \in DOMAIN r, r[i] = Request(c), i # Len(q) + 1 PROVE FALSE
        BY <1>2
      <4>1. i \in DOMAIN q /\ q[i] = Request(c)
        BY <2>1
      <4> QED
        BY <1>2, <3>2, <4>1
    <3> QED
      BY <3>1, <3>3
  <2>3. CASE m # Request(c)
    <3>1. Requested(c)' \subseteq Requested(c)
      <4> SUFFICES ASSUME NEW i \in DOMAIN r, r[i] = Request(c) PROVE i \in DOMAIN q /\ q[i] = Request(c)
        BY <1>2
      <4>1. i \in 1 .. Len(q)
        BY <2>1, <2>3
      <4> QED
        BY <2>1, <4>1
    <3> QED
      BY <1>2, <3>1
  <2> QED
    BY <2>2, <2>3
<1>5. CASE q # <<>> /\ r = Tail(q)
  <2> HIDE DEF q, r
  <2>1. /\ DOMAIN q = 1 .. Len(q) /\ Len(q) \in Nat /\ DOMAIN r = 1 .. Len(q) - 1
        /\ \A i \in 1 .. Len(q) - 1 : r[i] = q[i + 1]
    BY <1>1, <1>5, TakenOff
  <2>2. ASSUME NEW i \in Requested(c)'
        PROVE  i \in Nat /\ i + 1 \in Requested(c)
    <3>1. i \in DOMAIN r /\ r[i] = Request(c)
      BY <1>2
    <3>2. i \in 1 .. Len(q) - 1 /\ i + 1 \in DOMAIN q /\ q[i + 1] = Request(c)
      BY <2>1, <3>1
    <3> QED
      BY <1>2, <3>2
  <2>3. ASSUME NEW i \in Requested(c)', NEW j \in Requested(c)'
        PROVE  i = j
    <3>1. i \in Nat /\ j \in Nat /\ i + 1 = j + 1
      BY <1>2, <2>2
    <3> QED
      BY <3>1
  <2> QED
    BY <2>2, <2>3
<1> QED
  BY <1>1, <1>3, <1>4, <1>5, HubQueueStep

LEMMA AskStep == TypeOK /\ AskInv /\ [Next]_vars => AskInv'
<1> SUFFICES ASSUME TypeOK, AskInv, [Next]_vars, NEW c \in Calls PROVE AskedOnce(c)'
  BY DEF AskInv
<1>1. AskedOnce(c) /\ ServerMoves(c)
  BY ServerStep DEF AskInv
<1>2. /\ \A i, j \in Requested(c)' : i = j
      /\ Requested(c)' # {} =>
             Requested(c) # {} \/ (reply[c] = "unused" /\ reply'[c] = "open")
  BY <1>1, RequestMade
<1>3. ServedIn(c) => Requested(c) # {} /\ Requested(c)' = {}
  BY <1>1, RequestTaken
<1>4. reply'[c] = "unused" => reply[c] = "unused"
  BY ReplyStep
<1>5. reply[c] # "unused" => reply'[c] # "unused"
  BY <1>4
<1>6. serving[c] = "none" /\ ~ServedIn(c) => serving'[c] = "none" /\ task'[c] = "none" /\ emitted'[c] = 0
  BY <1>1 DEF ServerMoves, StaysIn, ListensIn, AdvancesIn, YieldsIn, ConcludesIn, StopsIn, AskedOnce, Working, Token
<1>7. serving'[c] = "none" <=> task'[c] = "none"
  <2>1. serving[c] # "none" => serving'[c] # "none" /\ task'[c] # "none"
    BY <1>1 DEF ServerMoves, StaysIn, ServedIn, ListensIn, AdvancesIn, YieldsIn, ConcludesIn, StopsIn, AskedOnce, Working, Token
  <2>2. ServedIn(c) => serving'[c] # "none" /\ task'[c] # "none"
    BY DEF ServedIn
  <2> QED
    BY <1>6, <2>1, <2>2
<1>8. task'[c] = "none" => emitted'[c] = 0
  <2>1. serving[c] # "none" => task'[c] # "none"
    BY <1>1 DEF ServerMoves, StaysIn, ServedIn, ListensIn, AdvancesIn, YieldsIn, ConcludesIn, StopsIn, AskedOnce, Working, Token
  <2>2. ServedIn(c) => task'[c] # "none"
    BY DEF ServedIn
  <2> QED
    BY <1>6, <2>1, <2>2
<1>9. Requested(c)' # {} => serving'[c] = "none" /\ reply'[c] # "unused"
  BY <1>1, <1>2, <1>3, <1>5, <1>6 DEF AskedOnce
<1>10. reply'[c] = "unused" => serving'[c] = "none"
  BY <1>1, <1>3, <1>4, <1>6 DEF AskedOnce
<1> QED
  BY <1>2, <1>7, <1>8, <1>9, <1>10 DEF AskedOnce

LEMMA LinkStep == TypeOK /\ AskInv /\ LinkInv /\ [Next]_vars => LinkInv'
<1> SUFFICES ASSUME TypeOK, AskInv, LinkInv, [Next]_vars PROVE LinkInv'
  OBVIOUS
<1>1. ASSUME NEW p \in Peers, ~linked'[p]
      PROVE  toHub'[p] = <<>>
  <2>1. CASE Drop(p)
    <3>1. toHub' = [toHub EXCEPT ![p] = <<>>] /\ toHub \in [Peers -> Seq(ToHub)]
      BY <2>1 DEF Drop, TypeOK, WireOK
    <3> QED
      BY <3>1
  <2>2. CASE ~Drop(p)
    <3>1. toHub[p] = <<>>
      BY <1>1, <2>2, LinkMoves DEF LinkInv
    <3> QED
      BY <1>1, <3>1, HubQueueStep
  <2> QED
    BY <2>1, <2>2
<1>2. ASSUME NEW c \in Calls, reply'[c] = "open", serving'[c] # "none", c \notin unnoticed'
      PROVE  linked'[c[1]]
  <2>1. c[1] \in Peers /\ AskedOnce(c) /\ ServerMoves(c) /\ c \notin unnoticed
    BY <1>2, CallParts, ServerStep, UnnoticedGrows DEF AskInv
  <2>2. ServedIn(c) => linked[c[1]] /\ reply'[c] = reply[c]
    BY <2>1 DEF ServedIn, Serve, Arrived, LinkInv, playgroundVars
  <2>3. serving[c] = "none" => ServedIn(c)
    BY <1>2, <2>1
    DEF ServerMoves, StaysIn, ListensIn, AdvancesIn, YieldsIn, ConcludesIn, StopsIn, Token, serverVars
  <2>4. reply[c] = "open" /\ ~Drop(c[1])
    <3>1. reply[c] # "unused"
      BY <1>2, <2>1, <2>2, <2>3 DEF AskedOnce
    <3> QED
      BY <1>2, <3>1, ReplyStep
  <2>5. linked[c[1]]
    BY <2>1, <2>2, <2>3, <2>4 DEF LinkInv
  <2> QED
    BY <2>1, <2>4, <2>5, LinkMoves
<1> QED
  BY <1>1, <1>2 DEF LinkInv

-----------------------------------------------------------------------------
(* Nobody waits for nothing. *)

\* A server whose task was heard from the start has a task at work; one that
\* has ended has told a stream that is still open, unless the Playground lost
\* the hub without noticing.
Attended(c) ==
    /\ serving[c] \in {"starting", "listening"} /\ c \notin missed => Working(c)
    /\ serving[c] = "ended" /\ reply[c] = "open" /\ c \notin unnoticed => OnItsWay(c)

AttendInv == AskInv /\ LinkInv /\ \A c \in Calls : Attended(c)

LEMMA AttendInit == Init => AttendInv
<1> SUFFICES ASSUME Init PROVE AttendInv
  OBVIOUS
<1>1. ASSUME NEW c \in Calls PROVE serving[c] = "none"
  BY DEF Init
<1> QED
  BY <1>1, AskInit, LinkInit DEF AttendInv, Attended

LEMMA AttendStep == TypeOK /\ AttendInv /\ [Next]_vars => AttendInv'
<1> SUFFICES ASSUME TypeOK, AttendInv, [Next]_vars, NEW c \in Calls PROVE Attended(c)'
  BY AskStep, LinkStep DEF AttendInv
<1>1. AskedOnce(c) /\ LinkInv /\ Attended(c) /\ ServerMoves(c)
  BY ServerStep DEF AttendInv, AskInv
<1>2. ASSUME serving'[c] \in {"starting", "listening"}, c \notin missed'
      PROVE  Working(c)'
  <2>1. c \notin missed
    BY <1>1, <1>2 DEF ServerMoves
  <2>2. CASE ServedIn(c)
    BY <2>2 DEF ServedIn, Working
  <2>3. CASE ~ServedIn(c)
    <3>1. serving[c] \in {"starting", "listening"}
      BY <1>1, <1>2, <2>3 DEF ServerMoves, StaysIn, ListensIn, AdvancesIn, YieldsIn, ConcludesIn, StopsIn
    <3>2. Working(c)
      BY <1>1, <2>1, <3>1 DEF Attended
    <3>3. ~ConcludesIn(c)
      BY <1>2, <3>1 DEF ConcludesIn
    <3> QED
      BY <1>1, <1>2, <2>3, <3>2, <3>3
      DEF ServerMoves, StaysIn, ListensIn, AdvancesIn, YieldsIn, StopsIn, Working
  <2> QED
    BY <2>2, <2>3
<1>3. ASSUME serving'[c] = "ended", reply'[c] = "open", c \notin unnoticed'
      PROVE  OnItsWay(c)'
  <2>1. serving[c] # "none"
    BY <1>1, <1>3
    DEF ServerMoves, StaysIn, ServedIn, ListensIn, AdvancesIn, YieldsIn, ConcludesIn, StopsIn
  <2>2. reply[c] = "open" /\ c \notin unnoticed /\ linked[c[1]] /\ ~Drop(c[1])
    <3>1. reply[c] # "unused"
      BY <1>1, <2>1 DEF AskedOnce
    <3>2. reply[c] = "open" /\ ~Drop(c[1]) /\ c \notin unnoticed
      BY <1>3, <3>1, ReplyStep, UnnoticedGrows
    <3> QED
      BY <1>1, <2>1, <3>2 DEF LinkInv
  <2>3. CASE serving[c] = "ended"
    BY <1>1, <1>3, <2>2, <2>3, WayGoesOn DEF Attended
  <2>4. CASE serving[c] # "ended"
    BY <1>1, <1>3, <2>2, <2>4
    DEF ServerMoves, StaysIn, ServedIn, ListensIn, AdvancesIn, YieldsIn, ConcludesIn, StopsIn
  <2> QED
    BY <2>3, <2>4
<1> QED
  BY <1>2, <1>3 DEF Attended

-----------------------------------------------------------------------------
(* The words and the end of one call, as they flow to its Playground.      *)

\* A text of the call.
Says(m, c) == m.kind = "text" /\ m.id = Id(c)

\* Messages that have nothing to do with it.
Foreign(c) == {m \in ToPeer : ~Says(m, c) /\ ~Ending(m, c)}

\* Of the words up to e the queue q still holds those after n, in their order,
\* and an end after the last of them only when the task is over.
Flows(c, q, n, e, over) ==
    /\ \A i \in DOMAIN q : Says(q[i], c) => \E k \in n + 1 .. e : q[i].word = <<c, k>>
    /\ \A k \in n + 1 .. e : \E i \in DOMAIN q : Says(q[i], c) /\ q[i].word = <<c, k>>
    /\ \A i, j \in DOMAIN q, k, l \in n + 1 .. e :
          /\ Says(q[i], c) /\ q[i].word = <<c, k>>
          /\ Says(q[j], c) /\ q[j].word = <<c, l>>
          /\ i < j
          => k < l
    /\ \A i \in DOMAIN q : Ending(q[i], c) => over /\ \A j \in DOMAIN q : j > i => ~Says(q[j], c)

\* What others are sent does not disturb it.
LEMMA FlowPassesBy ==
    ASSUME NEW c, NEW q \in Seq(ToPeer), NEW n \in Nat, NEW e \in Nat, NEW over,
           Flows(c, q, n, e, over), NEW t \in Seq(Foreign(c))
    PROVE  Flows(c, q \o t, n, e, over)
<1>1. t \in Seq(ToPeer) /\ \A i \in 1 .. Len(t) : ~Says(t[i], c) /\ ~Ending(t[i], c)
  <2>1. Foreign(c) \subseteq ToPeer
    BY DEF Foreign
  <2>2. \A i \in 1 .. Len(t) : t[i] \in Foreign(c)
    OBVIOUS
  <2> QED
    BY <2>1, <2>2 DEF Foreign
<1> DEFINE r == q \o t
<1>2. /\ DOMAIN q = 1 .. Len(q) /\ Len(q) \in Nat /\ Len(t) \in Nat
      /\ DOMAIN r = 1 .. Len(q) + Len(t)
      /\ \A i \in 1 .. Len(q) : r[i] = q[i]
      /\ \A i \in 1 .. Len(q) + Len(t) : i > Len(q) =>
            i - Len(q) \in 1 .. Len(t) /\ r[i] = t[i - Len(q)]
  BY <1>1, Joined
<1> HIDE DEF r
<1>3. ASSUME NEW i \in DOMAIN r, Says(r[i], c) \/ Ending(r[i], c)
      PROVE  i \in DOMAIN q /\ r[i] = q[i]
  <2>1. i \in 1 .. Len(q) + Len(t)
    BY <1>2
  <2>2. ~(i > Len(q))
    <3> SUFFICES ASSUME i > Len(q) PROVE FALSE
      OBVIOUS
    <3>1. i - Len(q) \in 1 .. Len(t) /\ r[i] = t[i - Len(q)]
      BY <1>2, <2>1
    <3> QED
      BY <1>1, <1>3, <3>1
  <2>3. i \in 1 .. Len(q)
    BY <1>2, <2>1, <2>2
  <2> QED
    BY <1>2, <2>3
<1>4. \A i \in DOMAIN q : i \in DOMAIN r /\ r[i] = q[i]
  BY <1>2
<1>5. \A i \in DOMAIN r : Says(r[i], c) => \E k \in n + 1 .. e : r[i].word = <<c, k>>
  BY <1>3 DEF Flows
<1>6. \A k \in n + 1 .. e : \E i \in DOMAIN r : Says(r[i], c) /\ r[i].word = <<c, k>>
  <2> SUFFICES ASSUME NEW k \in n + 1 .. e PROVE \E i \in DOMAIN r : Says(r[i], c) /\ r[i].word = <<c, k>>
    OBVIOUS
  <2>1. PICK i \in DOMAIN q : Says(q[i], c) /\ q[i].word = <<c, k>>
    BY DEF Flows
  <2> QED
    BY <1>4, <2>1
<1>7. ASSUME NEW i \in DOMAIN r, NEW j \in DOMAIN r, NEW k \in n + 1 .. e, NEW l \in n + 1 .. e,
             Says(r[i], c), r[i].word = <<c, k>>, Says(r[j], c), r[j].word = <<c, l>>, i < j
      PROVE  k < l
  BY <1>3, <1>7 DEF Flows
<1>8. ASSUME NEW i \in DOMAIN r, Ending(r[i], c)
      PROVE  over /\ \A j \in DOMAIN r : j > i => ~Says(r[j], c)
  BY <1>3, <1>8 DEF Flows
<1>9. Flows(c, r, n, e, over)
  BY <1>5, <1>6, <1>7, <1>8 DEF Flows
<1> QED
  BY <1>9 DEF r

\* The next word joins the others.
LEMMA FlowGrows ==
    ASSUME NEW c, NEW q \in Seq(ToPeer), NEW n \in Nat, NEW e \in Nat, n <= e,
           Flows(c, q, n, e, FALSE), NEW m \in ToPeer, Says(m, c), m.word = <<c, e + 1>>
    PROVE  Flows(c, q \o <<m>>, n, e + 1, FALSE)
<1> DEFINE r == q \o <<m>>
<1>1. /\ DOMAIN q = 1 .. Len(q) /\ Len(q) \in Nat
      /\ DOMAIN r = 1 .. Len(q) + 1
      /\ \A i \in 1 .. Len(q) : r[i] = q[i]
      /\ r[Len(q) + 1] = m
  OBVIOUS
<1> HIDE DEF r
<1>2. \A i \in DOMAIN r : i = Len(q) + 1 \/ (i \in DOMAIN q /\ r[i] = q[i])
  BY <1>1
<1>3. \A i \in DOMAIN q : i \in DOMAIN r /\ r[i] = q[i] /\ ~Ending(q[i], c)
  BY <1>1 DEF Flows
<1>4. \A k \in n + 1 .. e + 1 : k = e + 1 \/ k \in n + 1 .. e
  OBVIOUS
<1>5. e + 1 \in n + 1 .. e + 1 /\ \A k \in n + 1 .. e : k \in n + 1 .. e + 1 /\ k < e + 1
  OBVIOUS
<1>6. ~Ending(m, c)
  BY DEF Ending, Says
<1>7. \A i \in DOMAIN q : Says(q[i], c) => \E k \in n + 1 .. e : q[i].word = <<c, k>>
  BY DEF Flows
<1>8. ASSUME NEW i \in DOMAIN r, Says(r[i], c)
      PROVE  \E k \in n + 1 .. e + 1 : r[i].word = <<c, k>>
  <2>1. CASE i = Len(q) + 1
    BY <1>1, <1>5, <2>1
  <2>2. CASE i # Len(q) + 1
    BY <1>2, <1>5, <1>7, <1>8, <2>2
  <2> QED
    BY <2>1, <2>2
<1>9. ASSUME NEW k \in n + 1 .. e + 1
      PROVE  \E i \in DOMAIN r : Says(r[i], c) /\ r[i].word = <<c, k>>
  <2>1. CASE k = e + 1
    <3>1. Len(q) + 1 \in DOMAIN r
      BY <1>1
    <3> QED
      BY <1>1, <2>1, <3>1
  <2>2. CASE k \in n + 1 .. e
    <3>1. PICK i \in DOMAIN q : Says(q[i], c) /\ q[i].word = <<c, k>>
      BY <2>2 DEF Flows
    <3> QED
      BY <1>3, <3>1
  <2> QED
    BY <1>4, <2>1, <2>2
<1>10. ASSUME NEW i \in DOMAIN r, NEW j \in DOMAIN r, NEW k \in n + 1 .. e + 1, NEW l \in n + 1 .. e + 1,
              Says(r[i], c), r[i].word = <<c, k>>, Says(r[j], c), r[j].word = <<c, l>>, i < j
       PROVE  k < l
  <2>1. i \in DOMAIN q /\ r[i] = q[i]
    BY <1>1, <1>10
  <2>2. k \in n + 1 .. e
    <3>1. PICK h \in n + 1 .. e : q[i].word = <<c, h>>
      BY <1>7, <1>10, <2>1
    <3>2. <<c, h>>[2] = h /\ <<c, k>>[2] = k
      OBVIOUS
    <3> QED
      BY <1>10, <2>1, <3>1, <3>2
  <2>3. CASE j = Len(q) + 1
    <3>1. <<c, l>>[2] = l /\ <<c, e + 1>>[2] = e + 1
      OBVIOUS
    <3>2. l = e + 1
      BY <1>1, <1>10, <2>3, <3>1
    <3> QED
      BY <1>5, <2>2, <3>2
  <2>4. CASE j # Len(q) + 1
    <3>1. j \in DOMAIN q /\ r[j] = q[j]
      BY <1>2, <2>4
    <3>2. l \in n + 1 .. e
      <4>1. PICK h \in n + 1 .. e : q[j].word = <<c, h>>
        BY <1>7, <1>10, <3>1
      <4>2. <<c, h>>[2] = h /\ <<c, l>>[2] = l
        OBVIOUS
      <4> QED
        BY <1>10, <3>1, <4>1, <4>2
    <3> QED
      BY <1>10, <2>1, <2>2, <3>1, <3>2 DEF Flows
  <2> QED
    BY <2>3, <2>4
<1>11. \A i \in DOMAIN r : ~Ending(r[i], c)
  BY <1>1, <1>2, <1>3, <1>6
<1>12. Flows(c, r, n, e + 1, FALSE)
  BY <1>8, <1>9, <1>10, <1>11 DEF Flows
<1> QED
  BY <1>12 DEF r

\* The end of the task comes after its words.
LEMMA FlowEnds ==
    ASSUME NEW c, NEW q \in Seq(ToPeer), NEW n \in Nat, NEW e \in Nat, NEW over,
           Flows(c, q, n, e, over), NEW m \in ToPeer, Ending(m, c)
    PROVE  Flows(c, q \o <<m>>, n, e, TRUE)
<1> DEFINE r == q \o <<m>>
<1>1. /\ DOMAIN q = 1 .. Len(q) /\ Len(q) \in Nat
      /\ DOMAIN r = 1 .. Len(q) + 1
      /\ \A i \in 1 .. Len(q) : r[i] = q[i]
      /\ r[Len(q) + 1] = m
  OBVIOUS
<1> HIDE DEF r
<1>2. ~Says(m, c)
  BY DEF Ending, Says
<1>3. ASSUME NEW i \in DOMAIN r, Says(r[i], c)
      PROVE  i \in DOMAIN q /\ r[i] = q[i]
  BY <1>1, <1>2, <1>3
<1>4. \A i \in DOMAIN q : i \in DOMAIN r /\ r[i] = q[i]
  BY <1>1
<1>5. \A i \in DOMAIN r : Says(r[i], c) => \E k \in n + 1 .. e : r[i].word = <<c, k>>
  BY <1>3 DEF Flows
<1>6. \A k \in n + 1 .. e : \E i \in DOMAIN r : Says(r[i], c) /\ r[i].word = <<c, k>>
  <2> SUFFICES ASSUME NEW k \in n + 1 .. e PROVE \E i \in DOMAIN r : Says(r[i], c) /\ r[i].word = <<c, k>>
    OBVIOUS
  <2>1. PICK i \in DOMAIN q : Says(q[i], c) /\ q[i].word = <<c, k>>
    BY DEF Flows
  <2> QED
    BY <1>4, <2>1
<1>7. ASSUME NEW i \in DOMAIN r, NEW j \in DOMAIN r, NEW k \in n + 1 .. e, NEW l \in n + 1 .. e,
             Says(r[i], c), r[i].word = <<c, k>>, Says(r[j], c), r[j].word = <<c, l>>, i < j
      PROVE  k < l
  BY <1>3, <1>7 DEF Flows
<1>8. ASSUME NEW i \in DOMAIN r, Ending(r[i], c), NEW j \in DOMAIN r, j > i, Says(r[j], c)
      PROVE  FALSE
  <2>1. j \in DOMAIN q /\ r[j] = q[j]
    BY <1>3, <1>8
  <2>2. i \in DOMAIN q /\ r[i] = q[i]
    BY <1>1, <1>8, <2>1
  <2> QED
    BY <1>8, <2>1, <2>2 DEF Flows
<1>9. Flows(c, r, n, e, TRUE)
  BY <1>5, <1>6, <1>7, <1>8 DEF Flows
<1> QED
  BY <1>9 DEF r

\* A message that is no word of the call leaves the others.
LEMMA FlowTakesOther ==
    ASSUME NEW c, NEW q \in Seq(ToPeer), NEW n \in Nat, NEW e \in Nat, NEW over,
           Flows(c, q, n, e, over), q # <<>>, ~Says(Head(q), c)
    PROVE  Flows(c, Tail(q), n, e, over)
<1> DEFINE r == Tail(q)
<1>1. /\ Head(q) = q[1] /\ Len(q) \in Nat \ {0} /\ DOMAIN q = 1 .. Len(q)
      /\ DOMAIN r = 1 .. Len(q) - 1
      /\ \A i \in 1 .. Len(q) - 1 : r[i] = q[i + 1]
  BY TakenOff
<1> HIDE DEF r
<1>2. \A i \in DOMAIN r : i + 1 \in DOMAIN q /\ r[i] = q[i + 1]
  BY <1>1
<1>3. \A i, j \in DOMAIN r : i < j => i + 1 < j + 1
  BY <1>1
<1>4. \A i \in DOMAIN r : Says(r[i], c) => \E k \in n + 1 .. e : r[i].word = <<c, k>>
  BY <1>2 DEF Flows
<1>5. ASSUME NEW k \in n + 1 .. e
      PROVE  \E i \in DOMAIN r : Says(r[i], c) /\ r[i].word = <<c, k>>
  <2>1. PICK i \in DOMAIN q : Says(q[i], c) /\ q[i].word = <<c, k>>
    BY DEF Flows
  <2>2. i - 1 \in DOMAIN r /\ r[i - 1] = q[i]
    BY <1>1, <2>1
  <2> QED
    BY <2>1, <2>2
<1>6. ASSUME NEW i \in DOMAIN r, NEW j \in DOMAIN r, NEW k \in n + 1 .. e, NEW l \in n + 1 .. e,
             Says(r[i], c), r[i].word = <<c, k>>, Says(r[j], c), r[j].word = <<c, l>>, i < j
      PROVE  k < l
  <2>1. i + 1 \in DOMAIN q /\ j + 1 \in DOMAIN q /\ i + 1 < j + 1 /\ r[i] = q[i + 1] /\ r[j] = q[j + 1]
    BY <1>2, <1>3, <1>6
  <2> QED
    BY <1>6, <2>1 DEF Flows
<1>7. ASSUME NEW i \in DOMAIN r, Ending(r[i], c)
      PROVE  over /\ \A j \in DOMAIN r : j > i => ~Says(r[j], c)
  <2>1. i + 1 \in DOMAIN q /\ Ending(q[i + 1], c)
    BY <1>2, <1>7
  <2>2. over /\ \A j \in DOMAIN q : j > i + 1 => ~Says(q[j], c)
    BY <2>1 DEF Flows
  <2>3. \A j \in DOMAIN r : j > i => j + 1 \in DOMAIN q /\ j + 1 > i + 1 /\ r[j] = q[j + 1]
    BY <1>1, <1>2, <1>7
  <2> QED
    BY <2>2, <2>3
<1>8. Flows(c, r, n, e, over)
  BY <1>4, <1>5, <1>6, <1>7 DEF Flows
<1> QED
  BY <1>8 DEF r

\* The word that comes is the next one.
LEMMA FlowTakesWord ==
    ASSUME NEW c, NEW q \in Seq(ToPeer), NEW n \in Nat, NEW e \in Nat, NEW over,
           Flows(c, q, n, e, over), q # <<>>, Says(Head(q), c)
    PROVE  /\ n + 1 <= e /\ Head(q).word = <<c, n + 1>>
           /\ Flows(c, Tail(q), n + 1, e, over)
<1> DEFINE r == Tail(q)
<1>1. /\ Head(q) = q[1] /\ Len(q) \in Nat \ {0} /\ DOMAIN q = 1 .. Len(q)
      /\ DOMAIN r = 1 .. Len(q) - 1
      /\ \A i \in 1 .. Len(q) - 1 : r[i] = q[i + 1]
  BY TakenOff
<1> HIDE DEF r
<1>2. \A i \in DOMAIN r : i + 1 \in DOMAIN q /\ r[i] = q[i + 1] /\ 1 < i + 1
  BY <1>1
<1>3. 1 \in DOMAIN q
  BY <1>1
<1>4. \A k, l : <<c, k>> = <<c, l>> => k = l
  <2> SUFFICES ASSUME NEW k, NEW l, <<c, k>> = <<c, l>> PROVE k = l
    OBVIOUS
  <2>1. <<c, k>>[2] = k /\ <<c, l>>[2] = l
    OBVIOUS
  <2> QED
    BY <2>1
<1>5. PICK h \in n + 1 .. e : q[1].word = <<c, h>>
  BY <1>1, <1>3 DEF Flows
<1>6. \A i \in DOMAIN q, k, l \in n + 1 .. e :
          Says(q[i], c) /\ q[i].word = <<c, l>> /\ q[1].word = <<c, k>> /\ 1 < i => k < l
  BY <1>1, <1>3 DEF Flows
<1>7. n + 1 <= e /\ h = n + 1
  <2>1. n + 1 \in n + 1 .. e
    BY <1>5
  <2>2. PICK i \in DOMAIN q : Says(q[i], c) /\ q[i].word = <<c, n + 1>>
    BY <2>1 DEF Flows
  <2>3. CASE i = 1
    BY <1>4, <1>5, <2>1, <2>2, <2>3
  <2>4. CASE i # 1
    <3>1. 1 < i
      BY <1>1, <2>2, <2>4
    <3>2. h < n + 1
      BY <1>5, <1>6, <2>1, <2>2, <3>1
    <3> QED
      BY <1>5, <3>2
  <2> QED
    BY <2>3, <2>4
<1>8. \A k \in n + 1 + 1 .. e : k \in n + 1 .. e /\ n + 1 < k
  OBVIOUS
<1>9. ASSUME NEW i \in DOMAIN r, Says(r[i], c)
      PROVE  \E k \in n + 1 + 1 .. e : r[i].word = <<c, k>>
  <2>1. i + 1 \in DOMAIN q /\ r[i] = q[i + 1] /\ 1 < i + 1
    BY <1>2
  <2>2. PICK k \in n + 1 .. e : q[i + 1].word = <<c, k>>
    BY <1>9, <2>1 DEF Flows
  <2>3. n + 1 < k
    BY <1>5, <1>6, <1>7, <1>9, <2>1, <2>2
  <2>4. k \in n + 1 + 1 .. e
    BY <2>2, <2>3
  <2> QED
    BY <2>1, <2>2, <2>4
<1>10. ASSUME NEW k \in n + 1 + 1 .. e
       PROVE  \E i \in DOMAIN r : Says(r[i], c) /\ r[i].word = <<c, k>>
  <2>1. PICK i \in DOMAIN q : Says(q[i], c) /\ q[i].word = <<c, k>>
    BY <1>8 DEF Flows
  <2>2. i # 1
    <3> SUFFICES ASSUME i = 1 PROVE FALSE
      OBVIOUS
    <3>1. k = n + 1
      BY <1>4, <1>5, <1>7, <2>1
    <3> QED
      BY <1>8, <3>1
  <2>3. i - 1 \in DOMAIN r /\ r[i - 1] = q[i]
    BY <1>1, <2>1, <2>2
  <2> QED
    BY <2>1, <2>3
<1>11. ASSUME NEW i \in DOMAIN r, NEW j \in DOMAIN r, NEW k \in n + 1 + 1 .. e, NEW l \in n + 1 + 1 .. e,
              Says(r[i], c), r[i].word = <<c, k>>, Says(r[j], c), r[j].word = <<c, l>>, i < j
       PROVE  k < l
  <2>1. i + 1 \in DOMAIN q /\ j + 1 \in DOMAIN q /\ i + 1 < j + 1 /\ r[i] = q[i + 1] /\ r[j] = q[j + 1]
    BY <1>1, <1>2, <1>11
  <2>2. k \in n + 1 .. e /\ l \in n + 1 .. e
    BY <1>8
  <2>3. Says(q[i + 1], c) /\ q[i + 1].word = <<c, k>> /\ Says(q[j + 1], c) /\ q[j + 1].word = <<c, l>>
    BY <1>11, <2>1
  <2>4. \A a, b \in DOMAIN q : Says(q[a], c) /\ q[a].word = <<c, k>> /\ Says(q[b], c) /\ q[b].word = <<c, l>>
                                  /\ a < b => k < l
    BY <2>2 DEF Flows
  <2> QED
    BY <2>1, <2>3, <2>4
<1>12. ASSUME NEW i \in DOMAIN r, Ending(r[i], c)
       PROVE  over /\ \A j \in DOMAIN r : j > i => ~Says(r[j], c)
  <2>1. i + 1 \in DOMAIN q /\ Ending(q[i + 1], c)
    BY <1>2, <1>12
  <2>2. over /\ \A j \in DOMAIN q : j > i + 1 => ~Says(q[j], c)
    BY <2>1 DEF Flows
  <2>3. \A j \in DOMAIN r : j > i => j + 1 \in DOMAIN q /\ j + 1 > i + 1 /\ r[j] = q[j + 1]
    BY <1>1, <1>2, <1>12
  <2> QED
    BY <2>2, <2>3
<1>13. Flows(c, r, n + 1, e, over)
  BY <1>9, <1>10, <1>11, <1>12 DEF Flows
<1> QED
  BY <1>1, <1>5, <1>7, <1>13 DEF r

\* When an end comes, all words have come.
LEMMA FlowIsOver ==
    ASSUME NEW c, NEW q \in Seq(ToPeer), NEW n \in Nat, NEW e \in Nat, n <= e, NEW over,
           Flows(c, q, n, e, over), q # <<>>, Ending(Head(q), c)
    PROVE  over /\ n = e
<1>1. Head(q) = q[1] /\ 1 \in DOMAIN q /\ DOMAIN q = 1 .. Len(q) /\ Len(q) \in Nat
  OBVIOUS
<1>2. over /\ \A j \in DOMAIN q : j > 1 => ~Says(q[j], c)
  BY <1>1 DEF Flows
<1>3. ~Says(q[1], c)
  BY <1>1 DEF Ending, Says
<1>4. \A j \in DOMAIN q : ~Says(q[j], c)
  <2> SUFFICES ASSUME NEW j \in DOMAIN q, j # 1 PROVE ~Says(q[j], c)
    BY <1>3
  <2>1. j > 1
    BY <1>1
  <2> QED
    BY <1>2, <2>1
<1>5. ~(e \in n + 1 .. e)
  BY <1>4 DEF Flows
<1> QED
  BY <1>2, <1>5

\* What is said to no call, or to another one, is foreign to this one.
LEMMA ForeignMessages ==
    ASSUME DistinctIds, NEW c \in Calls
    PROVE  /\ \A s \in {"approved", "pending", "denied"} : Auth(s) \in Foreign(c)
           /\ \A C \in SUBSET (Calls \ {c}) : Ends(C) \in Foreign(c)
           /\ \A d \in Calls \ {c} : Error(d) \in Foreign(c)
           /\ \A d \in Calls \ {c}, w \in Words : Text(d, w) \in Foreign(c)
<1>1. \A d \in Calls \ {c} : Id(d) # Id(c)
  BY DEF DistinctIds
<1>2. \A s \in {"approved", "pending", "denied"} : Auth(s) \in Foreign(c)
  <2>1. \A s : Auth(s).kind = "auth"
    BY DEF Auth
  <2> QED
    BY <2>1, MessageTypes DEF Foreign, Says, Ending
<1>3. ASSUME NEW C \in SUBSET (Calls \ {c}) PROVE Ends(C) \in Foreign(c)
  <2>1. Ends(C).kind = "end" /\ Ends(C).ids = {Id(d) : d \in C} /\ Ends(C) \in ToPeer
    BY MessageTypes DEF Ends
  <2>2. Id(c) \notin {Id(d) : d \in C}
    BY <1>1
  <2> QED
    BY <2>1, <2>2 DEF Foreign, Says, Ending
<1>4. ASSUME NEW d \in Calls \ {c} PROVE Error(d) \in Foreign(c)
  <2>1. Error(d).kind = "error" /\ Error(d).ids = {Id(d)} /\ Error(d) \in ToPeer
    BY MessageTypes DEF Error
  <2> QED
    BY <1>1, <2>1 DEF Foreign, Says, Ending
<1>5. ASSUME NEW d \in Calls \ {c}, NEW w \in Words PROVE Text(d, w) \in Foreign(c)
  <2>1. Text(d, w).kind = "text" /\ Text(d, w).id = Id(d) /\ Text(d, w) \in ToPeer
    BY MessageTypes DEF Text
  <2> QED
    BY <1>1, <2>1 DEF Foreign, Says, Ending
<1> QED
  BY <1>2, <1>3, <1>4, <1>5

\* The queue of a call's Playground gets only messages of others.
Spared(c) == \E t \in Seq(Foreign(c)) : toPeer'[c[1]] = toPeer[c[1]] \o t

LEMMA SparedBySend ==
    ASSUME TypeOK, NEW c \in Calls, NEW reach, Send(reach), reach[c[1]] \in Seq(Foreign(c))
    PROVE  Spared(c)
<1>1. c[1] \in Peers /\ toPeer[c[1]] \in Seq(ToPeer)
  BY CallParts DEF TypeOK, WireOK
<1>2. toPeer'[c[1]] = IF linked[c[1]] THEN toPeer[c[1]] \o reach[c[1]] ELSE toPeer[c[1]]
  BY <1>1 DEF Send
<1>3. toPeer[c[1]] = toPeer[c[1]] \o <<>> /\ <<>> \in Seq(Foreign(c))
  BY <1>1
<1> QED
  BY <1>2, <1>3 DEF Spared

LEMMA SparedByOnly ==
    ASSUME TypeOK, NEW c \in Calls, NEW p \in Peers, NEW msgs, Send(Only(p, msgs)),
           p = c[1] => msgs \in Seq(Foreign(c))
    PROVE  Spared(c)
<1>1. Only(p, msgs)[c[1]] \in Seq(Foreign(c))
  BY CallParts DEF Only
<1> QED
  BY <1>1, SparedBySend

\* The events of another call's task.
LEMMA SparedByPass ==
    ASSUME DistinctIds, TypeOK, NEW c \in Calls, NEW d \in Calls \ {c}, NEW msg, Pass(d, msg),
           msg[d] \in Foreign(c)
    PROVE  Spared(c)
<1> DEFINE reach == [p \in Peers |-> IF Hearers(d) \cap Of(p) = {} THEN <<>>
                          ELSE <<msg[CHOOSE e \in Hearers(d) \cap Of(p) : TRUE]>>]
<1>1. \A p \in Peers : \A e \in Hearers(d) \cap Of(p) : e = d
  BY DEF Hearers, Listening, DistinctIds
<1>2. c[1] \in Peers
  BY CallParts
<1>3. reach[c[1]] \in Seq(Foreign(c))
  <2>1. CASE Hearers(d) \cap Of(c[1]) = {}
    BY <1>2, <2>1
  <2>2. CASE Hearers(d) \cap Of(c[1]) # {}
    <3>1. (CHOOSE e \in Hearers(d) \cap Of(c[1]) : TRUE) = d
      BY <1>1, <1>2, <2>2
    <3>2. reach[c[1]] = <<msg[d]>>
      BY <1>2, <2>2, <3>1
    <3> HIDE DEF reach
    <3>3. <<msg[d]>> \in Seq(Foreign(c))
      OBVIOUS
    <3> QED
      BY <3>2, <3>3, Zenon
  <2> QED
    BY <2>1, <2>2
<1>4. Send(reach)
  BY DEF Pass
<1> HIDE DEF reach
<1> QED
  BY <1>3, <1>4, SparedBySend

LEMMA ForeignStep ==
    ASSUME DistinctIds, TypeOK, [Next]_vars, NEW c \in Calls
    PROVE  \/ Spared(c) \/ Takes(c[1]) \/ Drop(c[1]) \/ c \in signal'
           \/ Token(c) \/ Fault(c) \/ Finish(c)
<1>1. c[1] \in Peers /\ toPeer \in [Peers -> Seq(ToPeer)]
  BY CallParts DEF TypeOK, WireOK
<1>2. ASSUME toPeer'[c[1]] = toPeer[c[1]] PROVE Spared(c)
  <2>1. toPeer[c[1]] = toPeer[c[1]] \o <<>> /\ <<>> \in Seq(Foreign(c))
    BY <1>1
  <2> QED
    BY <1>2, <2>1 DEF Spared
<1>3. ASSUME NEW p \in Peers, Drop(p) \/ Takes(p), p # c[1] PROVE Spared(c)
  BY <1>1, <1>2, <1>3 DEF Drop, Takes, TakeAuth, TakeText, TakeEnd, Received
<1>4. ASSUME NEW p \in Peers, Join(p) \/ GiveUp(p) \/ Ask(p) \/ Serve(p) \/ \E d \in Of(p) : PressStop(d) PROVE Spared(c)
  BY <1>2, <1>4, Zenon DEF Join, GiveUp, Ask, Serve, PressStop, wireVars
<1>5. ASSUME NEW d \in Calls, Begin(d) \/ Enter(d) PROVE Spared(c)
  BY <1>2, <1>5, Zenon DEF Begin, Enter, wireVars
<1>6. CASE Unload \/ Unloaded \/ Install \/ UNCHANGED vars
  BY <1>2, <1>6, Zenon DEF Unload, Unloaded, Install, vars, wireVars
<1>7. ASSUME NEW p \in Peers, Approve(p) \/ Hello(p) \/ Refuse(p) PROVE Spared(c)
  <2>1. PICK msgs : Send(Only(p, msgs)) /\ (msgs = <<>> \/ \E s \in {"approved", "pending"} : msgs = <<Auth(s)>>)
    BY <1>7, Zenon DEF Approve, Hello, Refuse
  <2>2. CASE msgs = <<>>
    <3>1. msgs \in Seq(Foreign(c))
      BY <2>2
    <3> QED
      BY <2>1, <3>1, SparedByOnly
  <2>3. ASSUME NEW s \in {"approved", "pending"}, msgs = <<Auth(s)>> PROVE Spared(c)
    <3>1. Auth(s) \in Foreign(c)
      BY ForeignMessages
    <3>2. msgs \in Seq(Foreign(c))
      BY <2>3, <3>1
    <3> QED
      BY <2>1, <3>2, SparedByOnly
  <2> QED
    BY <2>1, <2>2, <2>3
<1>8. ASSUME NEW p \in Peers, NEW C \in SUBSET Of(p), Abort(C), NEW msgs \in Seq(Foreign(c)),
             Send(Only(p, msgs \o Closing(Listening(C))))
      PROVE  Spared(c) \/ c \in signal'
  <2>1. C \in SUBSET Calls
    BY <1>8, CallParts
  <2>2. CASE c \in Listening(C)
    BY <1>8, <2>1, <2>2 DEF Abort, Listening
  <2>3. CASE c \notin Listening(C)
    <3>1. Ends(Listening(C)) \in Foreign(c)
      BY <2>1, <2>3, ForeignMessages DEF Listening
    <3>2. Closing(Listening(C)) \in Seq(Foreign(c))
      BY <3>1, ClosingType
    <3>3. msgs \o Closing(Listening(C)) \in Seq(Foreign(c))
      BY <3>2
    <3> QED
      BY <1>8, <3>3, SparedByOnly
  <2> QED
    BY <2>2, <2>3
<1>9. ASSUME NEW p \in Peers, Dismiss(p) PROVE Spared(c) \/ c \in signal'
  <2>1. <<Auth("denied")>> \in Seq(Foreign(c))
    BY ForeignMessages
  <2>2. Abort(Of(p)) /\ Send(Only(p, <<Auth("denied")>> \o Closing(Listening(Of(p)))))
    BY <1>9, Zenon DEF Dismiss
  <2> QED
    BY <1>8, <2>1, <2>2
<1>10. ASSUME NEW p \in Peers, TakeAbort(p) PROVE Spared(c) \/ c \in signal'
  <2> DEFINE C == {<<p, Head(toHub[p])[2]>>}
  <2>1. Head(toHub[p]) \in ToHub /\ Head(toHub[p])[1] = "abort"
    BY <1>10, ArrivedKeeps, Zenon DEF TakeAbort, TypeOK, WireOK
  <2>2. C \in SUBSET Of(p)
    BY <2>1 DEF ToHub, Of
  <2>3. Abort(C) /\ Send(Only(p, Closing(Listening(C))))
    BY <1>10, Zenon DEF TakeAbort
  <2> HIDE DEF C
  <2>4. Closing(Listening(C)) = <<>> \o Closing(Listening(C)) /\ <<>> \in Seq(Foreign(c))
    <3>1. Closing(Listening(C)) \in Seq(ToPeer)
      BY <2>2, CallParts, MessageTypes, ClosingType DEF Listening
    <3> QED
      BY <3>1
  <2>5. Send(Only(p, <<>> \o Closing(Listening(C))))
    BY <2>3, <2>4
  <2> QED
    BY <1>8, <2>2, <2>3, <2>4, <2>5
<1>11. ASSUME NEW d \in Calls, Listen(d) PROVE Spared(c) \/ c \in signal'
  <2>1. Send(Only(d[1], Closing({d} \cap signal))) /\ signal' = signal
    BY <1>11, Zenon DEF Listen
  <2>2. CASE c \in {d} \cap signal
    BY <2>1, <2>2
  <2>3. CASE c \notin {d} \cap signal
    <3>1. Ends({d} \cap signal) \in Foreign(c)
      BY <2>3, ForeignMessages
    <3>2. Closing({d} \cap signal) \in Seq(Foreign(c))
      BY <3>1, ClosingType
    <3> QED
      BY <2>1, <3>2, CallParts, SparedByOnly
  <2> QED
    BY <2>2, <2>3
<1>12. ASSUME NEW d \in Calls \ {c}, Token(d) PROVE Spared(c)
  <2> DEFINE w == <<d, emitted[d] + 1>>
             msg == [e \in Calls |-> Text(e, w)]
  <2>1. Pass(d, msg) /\ emitted[d] < MaxTokens
    BY <1>12, Zenon DEF Token
  <2>2. w \in Words
    <3>1. emitted[d] \in Nat
      BY DEF TypeOK, EngineOK
    <3>2. emitted[d] + 1 \in 1 .. MaxTokens
      BY <2>1, <3>1, BoundsAssumption
    <3> QED
      BY <3>2 DEF Words
  <2> HIDE DEF w
  <2>3. msg[d] \in Foreign(c)
    BY <2>2, ForeignMessages
  <2> HIDE DEF msg
  <2> QED
    BY <2>1, <2>3, SparedByPass
<1>13. ASSUME NEW d \in Calls \ {c}, Fault(d) PROVE Spared(c)
  <2> DEFINE msg == [e \in Calls |-> Error(e)]
  <2>1. Pass(d, msg)
    BY <1>13, Zenon DEF Fault, Conclude
  <2>2. msg[d] \in Foreign(c)
    BY ForeignMessages
  <2> HIDE DEF msg
  <2> QED
    BY <2>1, <2>2, SparedByPass
<1>14. ASSUME NEW d \in Calls \ {c}, Finish(d) PROVE Spared(c)
  <2> DEFINE msg == [e \in Calls |-> Ends({e})]
  <2>1. Pass(d, msg)
    BY <1>14, Zenon DEF Finish, Conclude
  <2>2. msg[d] \in Foreign(c)
    BY ForeignMessages
  <2> HIDE DEF msg
  <2> QED
    BY <2>1, <2>2, SparedByPass
<1>15. CASE \E d \in Calls : Task(d)
  BY <1>5, <1>12, <1>13, <1>14, <1>15, Zenon DEF Task
<1>16. CASE \E p \in Peers : Playground(p)
  BY <1>3, <1>4, <1>16, Zenon DEF Playground, Takes
<1>17. CASE \E p \in Peers : Join(p) \/ Drop(p) \/ Receive(p)
  BY <1>3, <1>4, <1>7, <1>10, <1>17, Zenon DEF Receive
<1>18. CASE Owner
  BY <1>6, <1>7, <1>9, <1>18, Zenon DEF Owner
<1> QED
  BY <1>6, <1>11, <1>15, <1>16, <1>17, <1>18, Zenon DEF Next

\* What a call's own task sends while its server listens.
LEMMA OwnEvents ==
    ASSUME TypeOK, NEW c \in Calls, serving[c] = "listening", linked[c[1]],
           Token(c) \/ Fault(c) \/ Finish(c)
    PROVE  \E m \in ToPeer :
              /\ toPeer'[c[1]] = toPeer[c[1]] \o <<m>>
              /\ Token(c) => Says(m, c) /\ m.word = <<c, emitted[c] + 1>>
              /\ ~Token(c) => Ending(m, c)
<1>1. c[1] \in Peers /\ c \in Hearers(c)
  BY CallParts DEF Hearers, Listening
<1>2. ASSUME NEW msg, Pass(c, msg) PROVE toPeer'[c[1]] = toPeer[c[1]] \o <<msg[c]>>
  <2>1. PICK reach : Send(reach) /\ reach[c[1]] = <<msg[c]>>
    BY <1>1, <1>2, PassReaches
  <2> QED
    BY <1>1, <2>1 DEF Send
<1>3. CASE Token(c)
  <2> DEFINE w == <<c, emitted[c] + 1>>
             msg == [e \in Calls |-> Text(e, w)]
  <2>1. Pass(c, msg) /\ emitted[c] < MaxTokens
    BY <1>3, Zenon DEF Token
  <2>2. w \in Words
    <3>1. emitted[c] \in Nat
      BY DEF TypeOK, EngineOK
    <3>2. emitted[c] + 1 \in 1 .. MaxTokens
      BY <2>1, <3>1, BoundsAssumption
    <3> QED
      BY <3>2 DEF Words
  <2> HIDE DEF w
  <2>3. msg[c] = Text(c, w)
    OBVIOUS
  <2> HIDE DEF msg
  <2>4. toPeer'[c[1]] = toPeer[c[1]] \o <<Text(c, w)>>
    BY <1>2, <2>1, <2>3
  <2>5. Text(c, w) \in ToPeer /\ Says(Text(c, w), c) /\ Text(c, w).word = w
    BY <2>2, MessageTypes DEF Says, Text
  <2> QED
    BY <1>3, <2>4, <2>5 DEF w
<1>4. CASE Fault(c) /\ ~Token(c)
  <2> DEFINE msg == [e \in Calls |-> Error(e)]
  <2>1. Pass(c, msg) /\ msg[c] = Error(c)
    BY <1>4 DEF Fault, Conclude
  <2> HIDE DEF msg
  <2>2. Error(c) \in ToPeer /\ Ending(Error(c), c)
    BY MessageTypes DEF Ending, Error
  <2>3. toPeer'[c[1]] = toPeer[c[1]] \o <<Error(c)>>
    BY <1>2, <2>1
  <2> QED
    BY <1>4, <2>2, <2>3
<1>5. CASE Finish(c) /\ ~Token(c)
  <2> DEFINE msg == [e \in Calls |-> Ends({e})]
  <2>1. Pass(c, msg) /\ msg[c] = Ends({c})
    BY <1>5 DEF Finish, Conclude
  <2> HIDE DEF msg
  <2>2. Ends({c}) \in ToPeer /\ Ending(Ends({c}), c)
    BY MessageTypes DEF Ending, Ends
  <2>3. toPeer'[c[1]] = toPeer[c[1]] \o <<Ends({c})>>
    BY <1>2, <2>1
  <2> QED
    BY <1>5, <2>2, <2>3
<1> QED
  BY <1>3, <1>4, <1>5

-----------------------------------------------------------------------------
(* Replies are whole. *)

\* The queue of a call's Playground has been lost after the server was through.
Lost(c) == serving[c] = "ended" /\ toPeer[c[1]] \in Seq(Foreign(c))

\* What has come of an undisturbed call is the beginning of its reply; what
\* has not is on its way, or lost with its end, and nothing is missing when the
\* stream is done.
Whole(c) ==
    c \notin signal \cup missed =>
        /\ serving[c] = "ended" => task[c] = "over"
        /\ got[c] = [i \in 1 .. Len(got[c]) |-> <<c, i>>] /\ Len(got[c]) <= emitted[c]
        /\ reply[c] \in {"unused", "open"} =>
              \/ Flows(c, toPeer[c[1]], Len(got[c]), emitted[c], task[c] = "over")
              \/ Lost(c)
        /\ reply[c] = "done" => task[c] = "over" /\ Len(got[c]) = emitted[c]

WholeInv == AskInv /\ AdmissionInv /\ \A c \in Calls : Whole(c)

LEMMA WholeInit == Init => WholeInv
<1> SUFFICES ASSUME Init PROVE WholeInv
  OBVIOUS
<1>1. ASSUME NEW c \in Calls PROVE Whole(c)
  <2>1. /\ serving[c] = "none" /\ reply[c] = "unused" /\ got[c] = <<>> /\ emitted[c] = 0
        /\ toPeer[c[1]] = <<>>
    BY CallParts DEF Init
  <2>2. <<>> = [i \in 1 .. Len(<<>>) |-> <<c, i>>] /\ Len(<<>>) = 0 /\ DOMAIN <<>> = {}
    OBVIOUS
  <2>3. Flows(c, <<>>, 0, 0, task[c] = "over")
    BY <2>2 DEF Flows
  <2> QED
    BY <2>1, <2>2, <2>3 DEF Whole
<1> QED
  BY <1>1, AskInit, AdmissionInit DEF WholeInv

\* The task of an undisturbed call.
LEMMA UndisturbedServer ==
    ASSUME DistinctIds, TypeOK, [Next]_vars, NEW c \in Calls, AskedOnce(c), Whole(c),
           c \notin signal' \cup missed'
    PROVE  /\ c \notin signal \cup missed
           /\ serving'[c] = "ended" => task'[c] = "over"
           /\ Token(c) \/ Fault(c) \/ Finish(c) => serving[c] = "listening"
           /\ ~Token(c) => emitted'[c] = emitted[c]
           /\ Token(c) => emitted'[c] = emitted[c] + 1 /\ task[c] # "over" /\ task'[c] # "over"
           /\ Fault(c) \/ Finish(c) => task'[c] = "over"
           /\ ~Token(c) /\ ~Fault(c) /\ ~Finish(c) => (task'[c] = "over" <=> task[c] = "over")
<1>1. ServerMoves(c)
  BY ServerStep
<1>2. c \notin signal \cup missed
  BY <1>1 DEF ServerMoves
<1>3. serving[c] = "ended" => task[c] = "over"
  BY <1>2 DEF Whole
<1>4. ~StopsIn(c)
  BY DEF StopsIn, DistinctIds
<1>5. ServedIn(c) => serving[c] = "none"
  BY RequestTaken DEF AskedOnce
<1>6. /\ serving \in [Calls -> {"none", "starting", "listening", "ended"}]
      /\ task \in [Calls -> {"none", "starting", "waiting", "generating", "over"}]
      /\ emitted \in [Calls -> 0 .. MaxTokens]
  BY DEF TypeOK, ServerOK, EngineOK
<1>7. ASSUME Token(c)
      PROVE  /\ serving[c] = "listening" /\ emitted'[c] = emitted[c] + 1
             /\ task[c] = "generating" /\ task'[c] = "generating" /\ serving'[c] = "listening"
  <2>1. /\ task[c] = "generating" /\ task' = task /\ serving' = serving
        /\ emitted' = [emitted EXCEPT ![c] = @ + 1]
        /\ missed' = IF serving[c] = "starting" THEN missed \cup {c} ELSE missed
    BY <1>7 DEF Token, Miss, serverVars
  <2>2. serving[c] # "starting" /\ serving[c] # "ended" /\ serving[c] # "none"
    BY <1>3, <2>1 DEF AskedOnce
  <2> QED
    BY <1>6, <2>1, <2>2
<1>8. ASSUME Fault(c) \/ Finish(c)
      PROVE  serving[c] = "listening" /\ task'[c] = "over" /\ emitted' = emitted
  <2>1. /\ Working(c) /\ task' = [task EXCEPT ![c] = "over"] /\ emitted' = emitted
        /\ missed' = IF serving[c] = "starting" THEN missed \cup {c} ELSE missed
    BY <1>8 DEF Fault, Finish, Conclude, Miss, Working
  <2>2. serving[c] # "starting" /\ serving[c] # "ended" /\ serving[c] # "none"
    BY <1>3, <2>1 DEF AskedOnce, Working
  <2> QED
    BY <1>6, <2>1, <2>2
<1>9. ASSUME ~Token(c), ~Fault(c), ~Finish(c)
      PROVE  /\ emitted'[c] = emitted[c] /\ (task'[c] = "over" <=> task[c] = "over")
             /\ serving'[c] = "ended" => serving[c] = "ended"
  <2>1. StaysIn(c) \/ ServedIn(c) \/ ListensIn(c) \/ AdvancesIn(c)
    BY <1>1, <1>4, <1>9 DEF ServerMoves, YieldsIn, ConcludesIn
  <2>2. ServedIn(c) => task[c] = "none"
    BY <1>5 DEF AskedOnce
  <2> QED
    BY <2>1, <2>2 DEF StaysIn, ServedIn, ListensIn, AdvancesIn
<1>10. Token(c) => ~(Fault(c) \/ Finish(c))
  BY <1>7, <1>8
<1> QED
  BY <1>2, <1>3, <1>7, <1>8, <1>9, <1>10

\* What has come of a call, as a message comes.
LEMMA GotMoves ==
    ASSUME TypeOK, [Next]_vars, NEW c \in Calls
    PROVE  \/ got'[c] = got[c]
           \/ /\ TakeText(c[1]) /\ Says(Head(toPeer[c[1]]), c) /\ reply[c] = "open"
              /\ got'[c] = Append(got[c], Head(toPeer[c[1]]).word)
<1>1. c \in Of(c[1]) /\ got \in [Calls -> Seq(Words)]
  BY CallParts DEF TypeOK, PlaygroundOK
<1>2. ASSUME NEW p \in Peers, TakeText(p)
      PROVE  \/ got'[c] = got[c]
             \/ /\ p = c[1] /\ Says(Head(toPeer[p]), c) /\ reply[c] = "open"
                /\ got'[c] = Append(got[c], Head(toPeer[p]).word)
  <2>1. /\ got'[c] = IF c \in Of(p) /\ Id(c) = Head(toPeer[p]).id /\ reply[c] = "open"
                     THEN Append(got[c], Head(toPeer[p]).word) ELSE got[c]
        /\ Head(toPeer[p]).kind = "text"
    BY <1>2 DEF TakeText
  <2>2. c \in Of(p) => c[1] = p
    BY CallParts
  <2> QED
    BY <2>1, <2>2 DEF Says
<1> QED
  BY <1>2, GotStep

\* The stream of an undisturbed call that is waiting, as it hears of its task.
LEMMA WholeByTask ==
    ASSUME DistinctIds, TypeOK, WholeInv, [Next]_vars, NEW c \in Calls,
           c \notin signal' \cup missed', Token(c) \/ Fault(c) \/ Finish(c)
    PROVE  Whole(c)'
<1> DEFINE q == toPeer[c[1]]
           n == Len(got[c])
           e == emitted[c]
<1>1. AskedOnce(c) /\ Whole(c) /\ AdmissionInv
  BY DEF WholeInv, AskInv
<1>2. /\ c \notin signal \cup missed
      /\ serving'[c] = "ended" => task'[c] = "over"
      /\ serving[c] = "listening"
      /\ ~Token(c) => emitted'[c] = e
      /\ Token(c) => emitted'[c] = e + 1 /\ task[c] # "over" /\ task'[c] # "over"
      /\ ~Token(c) => task'[c] = "over"
  BY <1>1, UndisturbedServer
<1>3. /\ q \in Seq(ToPeer) /\ n \in Nat /\ e \in Nat
  BY CallParts, BoundsAssumption DEF TypeOK, WireOK, PlaygroundOK, EngineOK
<1>4. got' = got /\ reply' = reply
  BY Zenon DEF Token, Fault, Finish, playgroundVars
<1>5. /\ got[c] = [i \in 1 .. n |-> <<c, i>>] /\ n <= e
      /\ reply[c] \in {"unused", "open"} => Flows(c, q, n, e, task[c] = "over")
      /\ reply[c] = "done" => task[c] = "over" /\ n = e
  BY <1>1, <1>2 DEF Whole, Lost
<1>6. n <= emitted'[c]
  BY <1>2, <1>3, <1>5
<1>7. ASSUME reply[c] \in {"unused", "open"}
      PROVE  Flows(c, toPeer'[c[1]], n, emitted'[c], task'[c] = "over")
  <2>1. linked[c[1]]
    BY <1>1, <1>2, CallParts DEF AdmissionInv, Live
  <2>2. PICK m \in ToPeer :
            /\ toPeer'[c[1]] = q \o <<m>>
            /\ Token(c) => Says(m, c) /\ m.word = <<c, e + 1>>
            /\ ~Token(c) => Ending(m, c)
    BY <1>2, <2>1, OwnEvents
  <2>3. Flows(c, q, n, e, task[c] = "over")
    BY <1>5, <1>7
  <2> HIDE DEF q, n, e
  <2>4. CASE Token(c)
    <3>1. (task[c] = "over") = FALSE /\ (task'[c] = "over") = FALSE
      BY <1>2, <2>4
    <3>2. Flows(c, q \o <<m>>, n, e + 1, FALSE)
      BY <1>3, <1>5, <2>2, <2>3, <2>4, <3>1, FlowGrows
    <3> QED
      BY <1>2, <2>2, <2>4, <3>1, <3>2
  <2>5. CASE ~Token(c)
    <3>1. (task'[c] = "over") = TRUE
      BY <1>2, <2>5
    <3>2. Flows(c, q \o <<m>>, n, e, TRUE)
      BY <1>3, <2>2, <2>3, <2>5, FlowEnds
    <3> QED
      BY <1>2, <2>2, <2>5, <3>1, <3>2
  <2> QED
    BY <2>4, <2>5
<1>8. reply[c] = "done" => task'[c] = "over" /\ n = emitted'[c]
  BY <1>2, <1>5
<1> QED
  BY <1>2, <1>4, <1>5, <1>6, <1>7, <1>8 DEF Whole

\* The same as its Playground takes a message.
LEMMA WholeByMessage ==
    ASSUME DistinctIds, TypeOK, WholeInv, [Next]_vars, NEW c \in Calls,
           c \notin signal' \cup missed', Takes(c[1]), ~Lost(c)
    PROVE  Whole(c)'
<1> DEFINE q == toPeer[c[1]]
           n == Len(got[c])
           e == emitted[c]
<1>1. AskedOnce(c) /\ Whole(c) /\ c[1] \in Peers
  BY CallParts DEF WholeInv, AskInv
<1>2. (~Token(c) /\ ~Fault(c) /\ ~Finish(c)) \/ Token(c) \/ Fault(c) \/ Finish(c)
  OBVIOUS
<1>3. CASE Token(c) \/ Fault(c) \/ Finish(c)
  BY <1>3, WholeByTask
<1>4. CASE ~Token(c) /\ ~Fault(c) /\ ~Finish(c)
  <2>1. /\ c \notin signal \cup missed
        /\ serving'[c] = "ended" => task'[c] = "over"
        /\ emitted'[c] = e
        /\ (task'[c] = "over") = (task[c] = "over")
    BY <1>1, <1>4, UndisturbedServer
  <2>2. /\ q \in Seq(ToPeer) /\ n \in Nat /\ e \in Nat /\ got[c] \in Seq(Words)
    BY <1>1, BoundsAssumption DEF TypeOK, WireOK, PlaygroundOK, EngineOK
  <2>3. /\ got[c] = [i \in 1 .. n |-> <<c, i>>] /\ n <= e
        /\ reply[c] \in {"unused", "open"} => Flows(c, q, n, e, task[c] = "over")
        /\ reply[c] = "done" => task[c] = "over" /\ n = e
    BY <1>1, <2>1 DEF Whole
  <2>4. q # <<>> /\ toPeer'[c[1]] = Tail(q)
    <3>1. q # <<>> /\ toPeer' = [toPeer EXCEPT ![c[1]] = Tail(@)]
      BY DEF Takes, TakeAuth, TakeText, TakeEnd, Received
    <3> QED
      BY <1>1, <3>1 DEF TypeOK, WireOK
  <2> HIDE DEF q, n, e
  <2>5. CASE TakeText(c[1]) /\ Says(Head(q), c) /\ reply[c] = "open"
    <3>1. /\ n + 1 <= e /\ Head(q).word = <<c, n + 1>>
          /\ Flows(c, Tail(q), n + 1, e, task[c] = "over")
      <4>1. Flows(c, q, n, e, task[c] = "over")
        BY <2>3, <2>5
      <4> DEFINE over == task[c] = "over"
      <4>2. Flows(c, q, n, e, over)
        BY <4>1
      <4>3. q # <<>> /\ Says(Head(q), c)
        BY <2>4, <2>5
      <4> HIDE DEF over
      <4>4. n + 1 <= e /\ Head(q).word = <<c, n + 1>> /\ Flows(c, Tail(q), n + 1, e, over)
        BY <2>2, <4>2, <4>3, FlowTakesWord
      <4> QED
        BY <4>4 DEF over
    <3>2. reply' = reply
      BY <2>5, Zenon DEF TakeText
    <3>3. got'[c] = Append(got[c], <<c, n + 1>>)
      <4>1. got'[c] = IF c \in Of(c[1]) /\ Id(c) = Head(q).id /\ reply[c] = "open"
                      THEN Append(got[c], Head(q).word) ELSE got[c]
        BY <2>5 DEF TakeText, q
      <4>2. c \in Of(c[1]) /\ Id(c) = Head(q).id
        BY <2>5, CallParts DEF Says
      <4> QED
        BY <2>5, <3>1, <4>1, <4>2
    <3>4. Len(got'[c]) = n + 1 /\ got'[c] = [i \in 1 .. n + 1 |-> <<c, i>>]
      <4>1. Len(got'[c]) = n + 1 /\ DOMAIN got'[c] = 1 .. n + 1
        BY <2>2, <3>3 DEF n
      <4>2. \A i \in 1 .. n + 1 : got'[c][i] = <<c, i>>
        <5>1. \A i \in 1 .. n : got'[c][i] = got[c][i]
          BY <2>2, <3>3 DEF n
        <5>2. got'[c][n + 1] = <<c, n + 1>>
          BY <2>2, <3>3 DEF n
        <5>3. \A i \in 1 .. n : got[c][i] = <<c, i>>
          BY <2>3
        <5>4. \A i \in 1 .. n + 1 : i \in 1 .. n \/ i = n + 1
          BY <2>2
        <5> QED
          BY <5>1, <5>2, <5>3, <5>4
      <4>3. got'[c] \in Seq(Words \cup {<<c, n + 1>>})
        BY <2>2, <3>3
      <4>4. got'[c] = [i \in 1 .. n + 1 |-> got'[c][i]]
        BY <4>1, <4>3
      <4> QED
        BY <4>1, <4>2, <4>4
    <3>5. Flows(c, toPeer'[c[1]], Len(got'[c]), emitted'[c], task'[c] = "over")
      BY <2>1, <2>4, <3>1, <3>4
    <3> QED
      BY <2>1, <2>5, <3>1, <3>2, <3>4, <3>5 DEF Whole
  <2>6. CASE ~(TakeText(c[1]) /\ Says(Head(q), c) /\ reply[c] = "open")
    <3>1. got'[c] = got[c]
      BY <2>6, GotMoves DEF q
    <3>2. ASSUME reply'[c] \in {"unused", "open"}
          PROVE  Flows(c, toPeer'[c[1]], n, e, task'[c] = "over")
      <4>1. reply[c] \in {"unused", "open"}
        BY <3>2, ReplyStep
      <4>2. ~Says(Head(q), c)
        <5> SUFFICES ASSUME Says(Head(q), c) PROVE FALSE
          OBVIOUS
        <5>1. TakeText(c[1])
          BY DEF Says, Takes, TakeAuth, TakeEnd, q
        <5>2. reply[c] = "unused"
          BY <2>6, <4>1, <5>1
        <5>3. n + 1 <= e
          BY <2>2, <2>3, <2>4, <4>1, FlowTakesWord
        <5>4. e = 0
          BY <1>1, <5>2 DEF AskedOnce, e
        <5> QED
          BY <2>2, <5>3, <5>4
      <4>3. Flows(c, Tail(q), n, e, task[c] = "over")
        BY <2>2, <2>3, <2>4, <4>1, <4>2, FlowTakesOther
      <4> QED
        BY <2>1, <2>4, <4>3
    <3>3. reply'[c] = "done" => task[c] = "over" /\ n = e
      <4>1. CASE reply'[c] = reply[c]
        BY <2>3, <4>1
      <4>2. CASE reply[c] = "open" /\ Ending(Head(q), c)
        BY <2>2, <2>3, <2>4, <4>2, FlowIsOver
      <4> QED
        BY <4>1, <4>2, ReplyStep DEF q
    <3> QED
      BY <2>1, <2>3, <3>1, <3>2, <3>3 DEF Whole, n, e
  <2> QED
    BY <2>5, <2>6
<1> QED
  BY <1>3, <1>4

\* What has been lost does not come: the stream stays open, or fails.
LEMMA LostGoesOn ==
    ASSUME DistinctIds, TypeOK, WholeInv, [Next]_vars, NEW c \in Calls,
           c \notin signal' \cup missed', Lost(c)
    PROVE  Whole(c)'
<1> DEFINE q == toPeer[c[1]]
<1>1. /\ AskedOnce(c) /\ Whole(c) /\ ServerMoves(c) /\ c[1] \in Peers
      /\ serving[c] = "ended" /\ q \in Seq(Foreign(c)) /\ toPeer \in [Peers -> Seq(ToPeer)]
  BY ServerStep, CallParts DEF WholeInv, AskInv, Lost, TypeOK, WireOK
<1>2. /\ c \notin signal \cup missed /\ ~Token(c) /\ ~Fault(c) /\ ~Finish(c)
      /\ task[c] = "over" /\ task'[c] = "over" /\ emitted'[c] = emitted[c]
  <2>1. c \notin signal \cup missed /\ ~Token(c) /\ ~Fault(c) /\ ~Finish(c)
    BY <1>1, UndisturbedServer
  <2>2. task[c] = "over"
    BY <1>1, <2>1 DEF Whole
  <2> QED
    BY <1>1, <2>1, <2>2, UndisturbedServer
<1>3. serving'[c] = "ended"
  <2>1. ~ServedIn(c)
    BY <1>1, RequestTaken DEF AskedOnce
  <2> QED
    BY <1>1, <2>1 DEF ServerMoves, StaysIn, ListensIn, AdvancesIn, YieldsIn, ConcludesIn, StopsIn
<1>4. q # <<>> => ~Says(Head(q), c) /\ ~Ending(Head(q), c)
  <2>1. q # <<>> => Head(q) \in Foreign(c)
    BY <1>1
  <2> QED
    BY <2>1 DEF Foreign
<1>5. toPeer'[c[1]] \in Seq(Foreign(c))
  <2>1. CASE Spared(c)
    BY <1>1, <2>1 DEF Spared
  <2>2. CASE Takes(c[1])
    <3>1. q # <<>> /\ toPeer'[c[1]] = Tail(q)
      BY <1>1, <2>2 DEF Takes, TakeAuth, TakeText, TakeEnd, Received
    <3> QED
      BY <1>1, <3>1
  <2>3. CASE Drop(c[1])
    <3>1. toPeer'[c[1]] = <<>>
      BY <1>1, <2>3 DEF Drop
    <3> QED
      BY <3>1
  <2> QED
    BY <1>2, <2>1, <2>2, <2>3, ForeignStep
<1>6. got'[c] = got[c]
  BY <1>4, GotMoves DEF TakeText, Received
<1>7. reply'[c] = "done" => reply[c] = "done"
  BY <1>4, ReplyStep DEF TakeEnd, Received
<1> QED
  BY <1>1, <1>2, <1>3, <1>5, <1>6, <1>7 DEF Whole, Lost

LEMMA WholeStep == DistinctIds /\ TypeOK /\ WholeInv /\ [Next]_vars => WholeInv'
<1> SUFFICES ASSUME DistinctIds, TypeOK, WholeInv, [Next]_vars, NEW c \in Calls,
                    c \notin signal' \cup missed'
             PROVE  Whole(c)'
  BY AskStep, AdmissionStep DEF WholeInv, Whole
<1>1. CASE Token(c) \/ Fault(c) \/ Finish(c)
  BY <1>1, WholeByTask
<1>4. CASE Lost(c)
  BY <1>4, LostGoesOn
<1>2. CASE Takes(c[1]) /\ ~Lost(c)
  BY <1>2, WholeByMessage
<1>3. CASE ~Token(c) /\ ~Fault(c) /\ ~Finish(c) /\ ~Takes(c[1]) /\ ~Lost(c)
  <2> DEFINE q == toPeer[c[1]]
             n == Len(got[c])
             e == emitted[c]
  <2>1. AskedOnce(c) /\ Whole(c) /\ c[1] \in Peers
    BY CallParts DEF WholeInv, AskInv
  <2>2. /\ c \notin signal \cup missed
        /\ serving'[c] = "ended" => task'[c] = "over"
        /\ emitted'[c] = e
        /\ (task'[c] = "over") = (task[c] = "over")
    BY <1>3, <2>1, UndisturbedServer
  <2>3. q \in Seq(ToPeer) /\ n \in Nat /\ e \in Nat
    BY <2>1, BoundsAssumption DEF TypeOK, WireOK, PlaygroundOK, EngineOK
  <2>4. /\ got[c] = [i \in 1 .. n |-> <<c, i>>] /\ n <= e
        /\ reply[c] \in {"unused", "open"} => Flows(c, q, n, e, task[c] = "over")
        /\ reply[c] = "done" => task[c] = "over" /\ n = e
    BY <1>3, <2>1, <2>2 DEF Whole
  <2>5. got'[c] = got[c]
    BY <1>3, GotMoves DEF Takes
  <2>6. \/ reply'[c] = reply[c]
        \/ reply[c] = "unused" /\ reply'[c] = "open" /\ Ask(c[1])
        \/ reply'[c] = "failed"
    BY <1>3, ReplyStep DEF Takes
  <2>7. ASSUME reply'[c] \in {"unused", "open"}
        PROVE  Flows(c, toPeer'[c[1]], n, e, task'[c] = "over") \/ Lost(c)'
    <3>1. Flows(c, q, n, e, task[c] = "over")
      BY <2>4, <2>6, <2>7
    <3>2. CASE Spared(c)
      <4>1. PICK t \in Seq(Foreign(c)) : toPeer'[c[1]] = q \o t
        BY <3>2 DEF Spared
      <4> HIDE DEF q, n, e
      <4>2. Flows(c, q \o t, n, e, task[c] = "over")
        BY <2>3, <3>1, FlowPassesBy
      <4> QED
        BY <2>2, <4>1, <4>2
    <3>3. CASE Drop(c[1])
      <4>1. toPeer'[c[1]] = <<>>
        BY <2>1, <3>3 DEF Drop, TypeOK, WireOK
      <4>2. serving[c] \notin {"starting", "listening"}
        <5> SUFFICES ASSUME serving[c] \in {"starting", "listening"} PROVE FALSE
          OBVIOUS
        <5>1. hub[c[1]] = "approved"
          BY <2>2 DEF WholeInv, AdmissionInv, Live
        <5>2. Abort(Of(c[1])) /\ c \in Of(c[1])
          BY <3>3, <5>1, CallParts DEF Drop
        <5> QED
          BY <5>2 DEF Abort
      <4>3. CASE serving[c] = "none"
        <5>1. e = 0 /\ DOMAIN <<>> = {} /\ n + 1 .. 0 = {}
          BY <2>1, <2>3, <4>3 DEF AskedOnce
        <5> QED
          BY <4>1, <5>1 DEF Flows
      <4>4. CASE serving[c] = "ended"
        <5>1. serving'[c] = "ended"
          BY <3>3, <4>4 DEF Drop, Abort
        <5> QED
          BY <4>1, <5>1 DEF Lost
      <4> QED
        BY <4>2, <4>3, <4>4 DEF TypeOK, ServerOK
    <3> QED
      BY <1>3, <3>2, <3>3, ForeignStep
  <2>8. reply'[c] = "done" => task[c] = "over" /\ n = e
    BY <2>4, <2>6
  <2> QED
    BY <2>2, <2>4, <2>5, <2>7, <2>8 DEF Whole
<1> QED
  BY <1>1, <1>2, <1>3, <1>4

-----------------------------------------------------------------------------
(* The theorems. *)

\* The state stays within its types (TypeOK of session.ts, main.ts,
\* inference.rs and the provider).
THEOREM TypesHold == Spec => []TypeOK
<1>1. Init => TypeOK
  BY TypeInit
<1>2. TypeOK /\ [Next]_vars => TypeOK'
  BY TypeStep
<1> QED
  BY <1>1, <1>2, PTL DEF Spec

\* Once the server of a call has been halted the engine has been told to
\* stop, unless a task has begun since (main.ts:694-706, inference.rs:92).
THEOREM StopHolds == Spec => []StopReachesEngine
<1>1. Init => StopInv
  BY StopInit
<1>2. TypeOK /\ StopInv /\ [Next]_vars => StopInv'
  BY StopStep
<1>3. StopInv => StopReachesEngine
  BY DEF StopInv
<1> QED
  BY <1>1, <1>2, <1>3, TypesHold, PTL DEF Spec

\* Text goes only to Playgrounds that the owner has approved and has not
\* dismissed since, whatever their calls had under way (session.ts:181-213,
\* :215-330): a server outlives neither its peer's entry nor its approval.
THEOREM ApprovalHolds == Spec => NoTextUnlessApproved
<1>1. Init => StopInv /\ AdmissionInv
  BY StopInit, AdmissionInit
<1>2. TypeOK /\ StopInv /\ AdmissionInv /\ [Next]_vars => StopInv' /\ AdmissionInv'
  BY StopStep, AdmissionStep
<1>3. ASSUME TypeOK, StopInv, AdmissionInv, [Next]_vars
      PROVE  [\A p \in Peers : TextGrows(p) => hub[p] = "approved"]_vars
  <2> SUFFICES ASSUME NEW p \in Peers, TextGrows(p) PROVE hub[p] = "approved"
    OBVIOUS
  <2>1. CASE Quiet
    BY <1>3, <2>1, QuietAddsNothing
  <2>2. CASE \E reach \in [Peers -> Seq(Plain)] : Send(reach)
    BY <1>3, <2>2, PlainAddsNoText
  <2>3. CASE \E c \in Calls : Token(c)
    BY <1>3, <2>3, TokenReachesApproved
  <2> QED
    BY <1>3, <2>1, <2>2, <2>3, StepSends
<1>4. [\A p \in Peers : TextGrows(p) => hub[p] = "approved"]_vars
        <=> [\A p \in Peers :
        (Len(toPeer'[p]) > Len(toPeer[p]) /\ toPeer'[p][Len(toPeer'[p])].kind = "text") => hub[p] = "approved"]_vars
  BY DEF TextGrows
<1> QED
  BY <1>1, <1>2, <1>3, <1>4, TypesHold, PTL DEF Spec, NoTextUnlessApproved

\* Where no two calls bear the same id, a stream yields only text generated
\* for it (session.ts:4-6). The condition is the one the code does not
\* provide: the provider's counter starts at 1 (ghostbot-provider.ts:80).
THEOREM TokensHold ==
    ASSUME DistinctIds
    PROVE  Spec => []TokensReachTheirRequester
<1>1. Init => TokenInv
  BY TokenInit
<1>2. TypeOK /\ TypeOK' /\ TokenInv /\ [Next]_vars => TokenInv'
  BY TokenStep
<1>3. TokenInv => TokensReachTheirRequester
  BY DEF TokenInv
<1> QED
  BY <1>1, <1>2, <1>3, TypesHold, PTL DEF Spec

\* While a stream is open whose server listened in time, its task is at work
\* or its end is on the way (session.ts:145-170, ghostbot-provider.ts:161-227),
\* even where two Playgrounds' calls bear the same id; unless its Playground
\* lost the hub without noticing (ghostbot-transport.ts:112-117).
THEOREM StreamsHold == Spec => []NoStreamForgotten
<1>1. Init => AttendInv
  BY AttendInit
<1>2. TypeOK /\ AttendInv /\ [Next]_vars => AttendInv'
  BY AttendStep
<1>3. AttendInv => NoStreamForgotten
  BY DEF AttendInv, Attended, OnItsWay, Ending, NoStreamForgotten
<1> QED
  BY <1>1, <1>2, <1>3, TypesHold, PTL DEF Spec

\* A reply that ends normally is all the engine generated for it, in order,
\* unless it was stopped or the consumer came too late (session.ts:145-170,
\* ghostbot-provider.ts:161-227); where no two calls bear the same id.
THEOREM RepliesHold ==
    ASSUME DistinctIds
    PROVE  Spec => []ReplyIsWhole
<1>1. Init => WholeInv
  BY WholeInit
<1>2. TypeOK /\ WholeInv /\ [Next]_vars => WholeInv'
  BY WholeStep
<1>3. WholeInv => ReplyIsWhole
  BY DEF WholeInv, Whole, ReplyIsWhole
<1> QED
  BY <1>1, <1>2, <1>3, TypesHold, PTL DEF Spec


-----------------------------------------------------------------------------
(* The agent: its types. *)

TurnRecord ==
    [n : Turns, agent : 0 .. MaxAgents, phase : Phases, stopped : BOOLEAN, aborted : BOOLEAN,
     after : BOOLEAN, calls : Nat, base : SUBSET (1 .. MaxTyped), unread : SUBSET (1 .. MaxTyped)]

GhostRecord ==
    [asked : [1 .. MaxTurns -> Nat \cup {NONE}], strayed : SUBSET Turns,
     orphaned : SUBSET Turns, shaken : SUBSET Nat, trimmed : SUBSET Nat]

\* The turn and the record that is read are of chats and agents there are; the
\* rest of the chats and the agents have no history.
TypeInv ==
    /\ ChatTypeOK
    /\ turn \in TurnRecord /\ ghost \in GhostRecord
    /\ opening # NONE => opening.chat \in 1 .. ids /\ opening.turns \in SUBSET Turns
    /\ \A k \in Chats : k > ids => store[k] = {}
    /\ \A a \in 1 .. MaxAgents : a > agentIds => hist[a] = {}

\* What an edit under way leaves out of the file f was typed after the loop l read it.
Fit(t, f, l) ==
    t.phase \in {"review", "card", "write"} \/ (l # "tools" /\ t.phase \in {"model", "rejected"})
        => f \ t.unread \subseteq t.base

\* Unless the panel had given it up (o) before, Stop finds the agent of the turn t to be
\* the panel's agent a and aborts it, so no further edit begins.
Stops(t, a, o) ==
    /\ t.n # 0 => a = t.agent \/ t.stopped = TRUE \/ t.n \in o
    /\ t.stopped = TRUE => t.aborted = TRUE \/ t.n \in o
    /\ t.phase \in {"review", "card", "write"} /\ t.after = TRUE => t.n \in o

EditInv == Fit(turn, text, loop) /\ Stops(turn, agent, ghost.orphaned)

\* A turn is of the chat k, or the panel went elsewhere while it ran.
In(t, k) == ghost.asked[t] = k \/ t \in ghost.strayed

\* The turn that runs, the history of the panel's agent, the record being read and
\* the records are of their chat; the agent has what the chat's record has.
ChatInv ==
    /\ Busy => turn.n \in ghost.strayed \/ (agent = turn.agent /\ ghost.asked[turn.n] = chat)
    /\ agent # 0 => \A t \in hist[agent] \ {0} : In(t, chat)
    /\ opening # NONE => \A t \in opening.turns \ {0} : In(t, opening.chat)
    /\ \A k \in Chats : \A t \in store[k] \ {0} : In(t, k)
    /\ agent # 0 /\ chat \notin ghost.trimmed \cup ghost.shaken => store[chat] \subseteq hist[agent]

ChatInvs == TypeInv /\ EditInv /\ ChatInv
LEMMA ChatTypeInit == ChatAssumption /\ ChatInit => TypeInv
<1> SUFFICES ASSUME ChatAssumption, ChatInit PROVE TypeInv
  OBVIOUS
<1>1. turn \in TurnRecord
  BY DEF ChatInit, ChatAssumption, TurnRecord, NoTurn, Turns, Phases
<1>2. ghost \in GhostRecord
  BY DEF ChatInit, ChatAssumption, GhostRecord
<1>3. hist \in [1 .. MaxAgents -> SUBSET Turns] /\ store \in [Chats -> SUBSET Turns]
  BY DEF ChatInit, ChatAssumption, Turns
<1>4. ChatTypeOK
  <2>1. engine \in {"idle", "loading", "again", "ready"} /\ provider \in BOOLEAN
    BY DEF ChatInit
  <2>2. agent \in 0 .. agentIds /\ agentIds \in 0 .. MaxAgents /\ chat \in 1 .. ids /\ ids \in Chats
    BY DEF ChatInit, ChatAssumption, Chats
  <2>3. turn.n \in Turns /\ turn.phase \in Phases /\ ~Busy /\ turn.phase = "none"
    BY DEF ChatInit, ChatAssumption, Turns, Phases, NoTurn, Busy
  <2>4. text \subseteq 1 .. MaxTyped
    BY DEF ChatInit
  <2> QED
    BY <1>3, <2>1, <2>2, <2>3, <2>4 DEF ChatTypeOK
<1> QED
  BY <1>1, <1>2, <1>4 DEF ChatInit, ChatAssumption, TypeInv, Chats

\* Marking the turn as strayed, and refusing its card.
LEMMA Marks ==
    ASSUME ChatAssumption, turn \in TurnRecord, ghost \in GhostRecord
    PROVE  /\ Stray(ghost) \in GhostRecord /\ Stray(ghost).asked = ghost.asked
           /\ Stray(ghost).shaken = ghost.shaken /\ Stray(ghost).trimmed = ghost.trimmed
           /\ Stray(ghost).orphaned = ghost.orphaned
           /\ ghost.strayed \subseteq Stray(ghost).strayed
           /\ Busy => turn.n \in Stray(ghost).strayed
           /\ RejectCards(turn) \in TurnRecord
           /\ RejectCards(turn).n = turn.n /\ RejectCards(turn).agent = turn.agent
           /\ RejectCards(turn).stopped = turn.stopped /\ RejectCards(turn).base = turn.base
           /\ RejectCards(turn).unread = turn.unread
           /\ RejectCards(turn).aborted = turn.aborted /\ RejectCards(turn).after = turn.after
           /\ RejectCards(turn).phase \in {turn.phase, "rejected"} \ {"card"}
           /\ RejectCards(turn).phase = "rejected" => turn.phase \in {"card", "rejected"}
<1>1. /\ Stray(ghost) \in GhostRecord /\ Stray(ghost).asked = ghost.asked
      /\ Stray(ghost).shaken = ghost.shaken /\ Stray(ghost).trimmed = ghost.trimmed
      /\ Stray(ghost).orphaned = ghost.orphaned
      /\ ghost.strayed \subseteq Stray(ghost).strayed
      /\ Busy => turn.n \in Stray(ghost).strayed
  BY DEF Stray, GhostRecord, TurnRecord, Turns
<1>2. /\ RejectCards(turn) \in TurnRecord
      /\ RejectCards(turn).n = turn.n /\ RejectCards(turn).agent = turn.agent
      /\ RejectCards(turn).stopped = turn.stopped /\ RejectCards(turn).base = turn.base
      /\ RejectCards(turn).unread = turn.unread
      /\ RejectCards(turn).aborted = turn.aborted /\ RejectCards(turn).after = turn.after
      /\ RejectCards(turn).phase \in {turn.phase, "rejected"} \ {"card"}
      /\ RejectCards(turn).phase = "rejected" => turn.phase \in {"card", "rejected"}
  BY DEF RejectCards, TurnRecord, Phases
<1> QED
  BY <1>1, <1>2

LEMMA Builds ==
    ASSUME ChatAssumption, TypeInv, BuildAgent
    PROVE  /\ agentIds' = agentIds + 1 /\ agent' = agentIds + 1 /\ agentIds + 1 \in 1 .. MaxAgents
           /\ ghost' \in GhostRecord /\ ghost'.asked = ghost.asked
           /\ ghost'.strayed = Stray(ghost).strayed /\ ghost'.trimmed = ghost.trimmed
           /\ ghost'.orphaned = ghost.orphaned
           /\ ghost'.shaken = IF store[chat] = {} THEN ghost.shaken ELSE ghost.shaken \cup {chat}
<1>1. Stray(ghost) \in GhostRecord /\ Stray(ghost).asked = ghost.asked
      /\ Stray(ghost).shaken = ghost.shaken /\ Stray(ghost).trimmed = ghost.trimmed
      /\ Stray(ghost).orphaned = ghost.orphaned
  BY Marks DEF TypeInv
<1>2. chat \in Nat /\ agentIds \in 0 .. MaxAgents
  BY DEF TypeInv, ChatTypeOK, ChatAssumption, Chats
<1>3. PICK g : g = Stray(ghost)
  OBVIOUS
<1>4. ghost' = [g EXCEPT !.shaken = IF store[chat] = {} THEN g.shaken ELSE g.shaken \cup {chat}]
  BY <1>3 DEF BuildAgent
<1>5. /\ agentIds' = agentIds + 1 /\ agent' = agentIds + 1 /\ agentIds + 1 \in 1 .. MaxAgents
  BY <1>2 DEF BuildAgent, ChatAssumption
<1> QED
  BY <1>1, <1>2, <1>3, <1>4, <1>5 DEF GhostRecord

\* The panel gives up its agent: the turn that runs is marked.
LEMMA Disowns ==
    ASSUME ChatAssumption, TypeInv, Disown
    PROVE  /\ agent' = 0 /\ ghost' \in GhostRecord /\ ghost'.asked = ghost.asked
           /\ ghost'.strayed = Stray(ghost).strayed /\ ghost'.trimmed = ghost.trimmed
           /\ ghost'.shaken = ghost.shaken /\ ghost.orphaned \subseteq ghost'.orphaned
           /\ turn.n # 0 => turn.stopped = TRUE \/ turn.n \in ghost'.orphaned
<1>1. /\ Stray(ghost) \in GhostRecord /\ Stray(ghost).asked = ghost.asked
      /\ Stray(ghost).shaken = ghost.shaken /\ Stray(ghost).trimmed = ghost.trimmed
      /\ Stray(ghost).orphaned = ghost.orphaned
      /\ turn.n \in Turns /\ turn.stopped \in BOOLEAN
  BY Marks DEF TypeInv, TurnRecord
<1>2. PICK g : g = Stray(ghost)
  OBVIOUS
<1>3. ghost' = [g EXCEPT !.orphaned = IF Busy /\ ~turn.stopped THEN g.orphaned \cup {turn.n} ELSE g.orphaned]
  BY <1>2 DEF Disown
<1>4. agent' = 0
  BY DEF Disown
<1>5. CASE Busy /\ ~turn.stopped
  <2>1. ghost' = [g EXCEPT !.orphaned = g.orphaned \cup {turn.n}]
    BY <1>3, <1>5
  <2> QED
    BY <1>1, <1>2, <1>4, <2>1 DEF GhostRecord
<1>6. CASE ~(Busy /\ ~turn.stopped)
  <2>1. ghost' = [g EXCEPT !.orphaned = g.orphaned]
    BY <1>3, <1>6
  <2>2. turn.n # 0 => turn.stopped = TRUE
    BY <1>1, <1>6 DEF Busy
  <2> QED
    BY <1>1, <1>2, <1>4, <2>1, <2>2 DEF GhostRecord
<1> QED
  BY <1>5, <1>6

\* Steps that touch neither the agents nor the chats.
LEMMA TypeTurns ==
    ASSUME ChatAssumption, TypeInv, UNCHANGED <<agent, agentIds, chat, ids, store, opening>>,
           hist' \in [1 .. MaxAgents -> SUBSET Turns],
           \A a \in 1 .. MaxAgents : a > agentIds => hist'[a] = {},
           engine' \in {"idle", "loading", "again", "ready"}, provider' \in BOOLEAN,
           turn' \in TurnRecord, turn'.n # 0 <=> turn'.phase # "none",
           turn'.n # 0 => turn'.agent \in 1 .. agentIds, ghost' \in GhostRecord,
           text' \subseteq 1 .. MaxTyped
    PROVE  TypeInv'
<1>1. turn'.n \in Turns /\ turn'.phase \in Phases
  BY DEF TurnRecord
<1>2. ChatTypeOK'
  BY <1>1 DEF TypeInv, ChatTypeOK, Busy, Chats, Turns, Phases
<1> QED
  BY <1>2 DEF TypeInv, Chats, Turns, TurnRecord, GhostRecord, Phases
\* A turn that goes on.
LEMMA TurnGoesOn ==
    ASSUME ChatAssumption, turn \in TurnRecord, text \subseteq 1 .. MaxTyped
    PROVE  /\ \A p \in Phases : [turn EXCEPT !.phase = p] \in TurnRecord
           /\ ApplyEdit(turn) \in TurnRecord /\ AfterEdit(turn) \in TurnRecord
           /\ ApplyEdit(turn).n = turn.n /\ AfterEdit(turn).n = turn.n
           /\ ApplyEdit(turn).agent = turn.agent /\ AfterEdit(turn).agent = turn.agent
           /\ ApplyEdit(turn).phase \in {"review", "rejected"} /\ AfterEdit(turn).phase = "model"
<1>1. \A p \in Phases : [turn EXCEPT !.phase = p] \in TurnRecord
  BY DEF TurnRecord
<1>2. ApplyEdit(turn) \in TurnRecord
  <2>1. turn.calls + 1 \in Nat /\ {} \in SUBSET (1 .. MaxTyped) /\ text \in SUBSET (1 .. MaxTyped)
    BY DEF TurnRecord
  <2>2. PICK b, u, w : /\ b = (IF loop = "tools" THEN text ELSE turn.base)
                       /\ u = (IF loop = "tools" THEN {} ELSE turn.unread)
                       /\ w = turn.stopped
    OBVIOUS
  <2>3. b \in SUBSET (1 .. MaxTyped) /\ u \in SUBSET (1 .. MaxTyped) /\ w \in BOOLEAN
    BY <2>1, <2>2 DEF TurnRecord
  <2>4. /\ [turn EXCEPT !.phase = "review", !.calls = turn.calls + 1, !.after = w, !.base = b,
                        !.unread = u] \in TurnRecord
        /\ [turn EXCEPT !.phase = "rejected"] \in TurnRecord
    BY <2>1, <2>3 DEF TurnRecord, Phases
  <2> QED
    BY <2>2, <2>4 DEF ApplyEdit
<1>3. AfterEdit(turn) \in TurnRecord
  BY DEF AfterEdit, TurnRecord, Phases, ChatAssumption
<1>4. /\ ApplyEdit(turn).n = turn.n /\ ApplyEdit(turn).agent = turn.agent
      /\ ApplyEdit(turn).phase \in {"review", "rejected"}
  BY DEF ApplyEdit, TurnRecord
<1>5. /\ AfterEdit(turn).n = turn.n /\ AfterEdit(turn).agent = turn.agent
      /\ AfterEdit(turn).phase = "model"
  BY DEF AfterEdit, TurnRecord
<1> QED
  BY <1>1, <1>2, <1>3, <1>4, <1>5

\* Stop marks the turn, and aborts it when it is of the panel's agent.
LEMMA StopsTurn ==
    ASSUME ChatAssumption, turn \in TurnRecord, Stop
    PROVE  \E u \in {turn, RejectCards(turn)}, b \in BOOLEAN :
              /\ turn' = [u EXCEPT !.stopped = TRUE, !.aborted = b]
              /\ turn.agent # 0 => b = TRUE \/ (b = turn.aborted /\ agent # turn.agent)
<1>1. turn.aborted \in BOOLEAN /\ RejectCards(turn) \in TurnRecord /\ RejectCards(turn).aborted = turn.aborted
  BY DEF RejectCards, TurnRecord, Phases
<1>2. CASE agent = 0
  <2>1. turn' = [turn EXCEPT !.stopped = TRUE]
    BY <1>2 DEF Stop
  <2>2. turn' = [turn EXCEPT !.stopped = TRUE, !.aborted = turn.aborted]
    BY <1>1, <2>1 DEF TurnRecord
  <2> QED
    BY <1>1, <1>2, <2>2
<1>3. CASE agent # 0
  <2>1. PICK u : u = RejectCards(turn)
    OBVIOUS
  <2>2. turn' = [u EXCEPT !.stopped = TRUE, !.aborted = u.aborted \/ agent = turn.agent]
    BY <1>3, <2>1 DEF Stop
  <2>3. CASE agent = turn.agent
    <3>1. turn' = [u EXCEPT !.stopped = TRUE, !.aborted = TRUE]
      BY <2>2, <2>3
    <3> QED
      BY <2>1, <3>1
  <2>4. CASE agent # turn.agent
    <3>1. (u.aborted \/ agent = turn.agent) = turn.aborted
      BY <1>1, <2>1, <2>4
    <3>2. turn' = [u EXCEPT !.stopped = TRUE, !.aborted = turn.aborted]
      BY <2>2, <3>1
    <3> QED
      BY <1>1, <2>1, <2>4, <3>2
  <2> QED
    BY <2>3, <2>4
<1> QED
  BY <1>2, <1>3

LEMMA TypeTurnStep ==
    ASSUME ChatAssumption, TypeInv,
           \/ Load \/ Reconnect \/ SendTurn \/ BeginTurn \/ ReadTarget \/ Fails \/ Evict \/ ModelAnswers \/ ModelCalls
           \/ ReviewRejects \/ ReviewPasses \/ ApproveEdit \/ Reject \/ Write \/ Refused \/ Stop \/ Type
    PROVE  TypeInv'
<1> USE DEF llm, agents, chats
<1>1. /\ turn \in TurnRecord /\ ghost \in GhostRecord /\ text \subseteq 1 .. MaxTyped
      /\ (turn.n # 0 <=> turn.phase # "none") /\ (turn.n # 0 => turn.agent \in 1 .. agentIds)
      /\ hist \in [1 .. MaxAgents -> SUBSET Turns]
      /\ \A a \in 1 .. MaxAgents : a > agentIds => hist[a] = {}
      /\ engine \in {"idle", "loading", "again", "ready"} /\ provider \in BOOLEAN
      /\ agent \in 0 .. agentIds /\ agentIds \in 0 .. MaxAgents /\ chat \in Nat
  BY DEF TypeInv, ChatTypeOK, Busy, Chats
<1>2. CASE Load \/ Reconnect
  BY <1>1, <1>2, TypeTurns DEF Load, Reconnect
<1>3. CASE SendTurn
  <2>1. PICK n \in 1 .. MaxTurns :
           /\ turn' = [NoTurn EXCEPT !.n = n, !.agent = agent, !.phase = "provider"]
           /\ ghost' = [ghost EXCEPT !.asked[n] = chat]
    BY <1>3 DEF SendTurn
  <2>2. agent \in 1 .. agentIds /\ agent \in 0 .. MaxAgents /\ n # 0 /\ n \in Turns
    <3>1. agent # 0
      BY <1>3 DEF SendTurn
    <3> QED
      BY <1>1, <3>1 DEF Turns, ChatAssumption
  <2>3. turn' = [n |-> n, agent |-> agent, phase |-> "provider", stopped |-> FALSE, aborted |-> FALSE,
                 after |-> FALSE, calls |-> 0, base |-> {}, unread |-> {}]
    BY <2>1 DEF NoTurn
  <2>4. turn' \in TurnRecord /\ turn'.n = n /\ turn'.agent = agent /\ turn'.phase = "provider"
    BY <2>2, <2>3 DEF TurnRecord, Phases
  <2>5. ghost' \in GhostRecord
    BY <1>1, <2>1 DEF GhostRecord
  <2>6. turn'.n # 0 /\ turn'.phase # "none" /\ turn'.agent \in 1 .. agentIds
    BY <2>2, <2>4
  <2> QED
    BY <1>1, <1>3, <2>4, <2>5, <2>6, TypeTurns DEF SendTurn
<1>4. CASE BeginTurn
  <2>1. turn.agent \in 1 .. agentIds /\ turn.n \in Turns /\ turn.agent \in 1 .. MaxAgents
    BY <1>1, <1>4 DEF BeginTurn, TurnRecord, ChatAssumption
  <2>2. turn' \in TurnRecord /\ turn'.n = turn.n /\ turn'.agent = turn.agent /\ turn'.phase # "none"
    <3>1. PICK p \in {"classify", "model"} : turn' = [turn EXCEPT !.phase = p]
      BY <1>4 DEF BeginTurn
    <3> QED
      BY <1>1, <3>1 DEF TurnRecord, Phases
  <2>3. hist' \in [1 .. MaxAgents -> SUBSET Turns] /\ \A a \in 1 .. MaxAgents : a > agentIds => hist'[a] = {}
    BY <1>1, <1>4, <2>1 DEF BeginTurn
  <2> QED
    BY <1>1, <1>4, <2>1, <2>2, <2>3, TypeTurns DEF BeginTurn
<1>5. CASE Fails
  <2>1. turn.n # 0 /\ turn' \in TurnRecord /\ turn'.n = turn.n /\ turn'.agent = turn.agent
        /\ turn'.phase # "none"
    BY <1>1, <1>5 DEF Fails, TurnRecord, Phases
  <2> QED
    BY <1>1, <1>5, <2>1, TypeTurns DEF Fails
<1>17. CASE ReadTarget
  <2>1. turn.n # 0 /\ turn' \in TurnRecord /\ turn'.n = turn.n /\ turn'.agent = turn.agent
        /\ turn'.phase # "none"
    BY <1>1, <1>17 DEF ReadTarget, TurnRecord, Phases
  <2> QED
    BY <1>1, <1>17, <2>1, TypeTurns DEF ReadTarget
<1>6. CASE Evict
  <2>1. hist' \in [1 .. MaxAgents -> SUBSET Turns] /\ \A a \in 1 .. MaxAgents : a > agentIds => hist'[a] = {}
    <3>1. PICK a : a = turn.agent /\ a \in 1 .. MaxAgents
      BY <1>1, <1>6 DEF Evict, ChatAssumption
    <3>2. hist' = [hist EXCEPT ![a] = hist[a] \cap {turn.n}]
      BY <1>6, <3>1 DEF Evict
    <3> QED
      BY <1>1, <3>1, <3>2
  <2>2. ghost' \in GhostRecord
    BY <1>1, <1>6 DEF Evict, GhostRecord
  <2> QED
    BY <1>1, <1>6, <2>1, <2>2, TypeTurns DEF Evict
<1>7. CASE ModelAnswers
  <2>1. turn.agent \in 1 .. agentIds /\ turn.n \in Turns /\ turn.agent \in 1 .. MaxAgents
    BY <1>1, <1>7 DEF ModelAnswers, TurnRecord, ChatAssumption
  <2>2. turn' \in TurnRecord /\ turn'.n = turn.n /\ turn'.agent = turn.agent /\ turn'.phase = "done"
    BY <1>1, <1>7 DEF ModelAnswers, TurnRecord, Phases
  <2>3. hist' \in [1 .. MaxAgents -> SUBSET Turns] /\ \A a \in 1 .. MaxAgents : a > agentIds => hist'[a] = {}
    BY <1>1, <1>7, <2>1 DEF ModelAnswers
  <2> QED
    BY <1>1, <1>7, <2>1, <2>2, <2>3, TypeTurns DEF ModelAnswers
<1>8. CASE ModelCalls
  BY <1>1, <1>8, TurnGoesOn, TypeTurns DEF ModelCalls
<1>9. CASE ReviewRejects
  <2>1. turn.n # 0 /\ turn' \in TurnRecord /\ turn'.n = turn.n /\ turn'.agent = turn.agent
        /\ turn'.phase # "none"
    BY <1>1, <1>9 DEF ReviewRejects, TurnRecord, Phases
  <2> QED
    BY <1>1, <1>9, <2>1, TypeTurns DEF ReviewRejects
<1>10. CASE ReviewPasses
  <2>1. turn.n # 0 /\ turn' \in TurnRecord /\ turn'.n = turn.n /\ turn'.agent = turn.agent
        /\ turn'.phase # "none"
    BY <1>1, <1>10 DEF ReviewPasses, TurnRecord, Phases
  <2> QED
    BY <1>1, <1>10, <2>1, TypeTurns DEF ReviewPasses
<1>11. CASE ApproveEdit
  <2>1. turn.n # 0 /\ turn' \in TurnRecord /\ turn'.n = turn.n /\ turn'.agent = turn.agent
        /\ turn'.phase # "none"
    BY <1>1, <1>11 DEF ApproveEdit, TurnRecord, Phases
  <2> QED
    BY <1>1, <1>11, <2>1, TypeTurns DEF ApproveEdit
<1>12. CASE Reject
  BY <1>1, <1>12, Marks, TypeTurns DEF Reject
<1>13. CASE Write
  <2>1. turn.base \subseteq 1 .. MaxTyped
    BY <1>1 DEF TurnRecord
  <2> QED
    BY <1>1, <1>13, <2>1, TurnGoesOn, TypeTurns DEF Write
<1>14. CASE Refused
  BY <1>1, <1>14, TurnGoesOn, TypeTurns DEF Refused
<1>15. CASE Stop
  <2>1. PICK t : t = RejectCards(turn)
    OBVIOUS
  <2>2. t \in TurnRecord /\ t.n = turn.n /\ t.agent = turn.agent /\ turn.n # 0
        /\ (t.phase = "none" => turn.phase = "none")
    BY <1>1, <1>15, <2>1, Marks DEF Stop, Busy
  <2>3. PICK u \in {turn, t}, b \in BOOLEAN : turn' = [u EXCEPT !.stopped = TRUE, !.aborted = b]
    BY <1>1, <1>15, <2>1, <2>2, StopsTurn
  <2>4. turn' \in TurnRecord /\ turn'.n = u.n /\ turn'.agent = u.agent /\ turn'.phase = u.phase
    BY <1>1, <2>2, <2>3 DEF TurnRecord
  <2>5. turn'.n = turn.n /\ turn'.agent = turn.agent /\ turn'.phase # "none"
    BY <1>1, <2>2, <2>3, <2>4
  <2> QED
    BY <1>1, <1>15, <2>2, <2>4, <2>5, TypeTurns DEF Stop
<1>16. CASE Type
  <2>1. PICK i \in (1 .. MaxTyped) \ text :
           /\ text' = text \cup {i}
           /\ turn' = IF Busy THEN [turn EXCEPT !.unread = @ \cup {i}] ELSE turn
    BY <1>16 DEF Type
  <2>2. turn' \in TurnRecord /\ turn'.n = turn.n /\ turn'.agent = turn.agent /\ turn'.phase = turn.phase
    BY <1>1, <2>1 DEF TurnRecord
  <2> QED
    BY <1>1, <1>16, <2>1, <2>2, TypeTurns DEF Type
<1> QED
  BY <1>2, <1>3, <1>4, <1>5, <1>6, <1>7, <1>8, <1>9, <1>10, <1>11, <1>12, <1>13, <1>14, <1>15, <1>16, <1>17

\* A new chat.
LEMMA StartsNew ==
    ASSUME ChatAssumption, TypeInv, StartNewChat
    PROVE  /\ ids' = ids + 1 /\ chat' = ids + 1 /\ ids + 1 \in Chats
           /\ turn' = RejectCards(turn) /\ ghost' = Stray(ghost)
           /\ hist' \in [1 .. MaxAgents -> SUBSET Turns]
           /\ \A a \in 1 .. MaxAgents : hist'[a] = IF a = agent THEN {} ELSE hist[a]
           /\ agent' = agent /\ agentIds' = agentIds /\ opening' = opening /\ text' = text /\ loop' = loop
           /\ engine' = engine /\ provider' = provider
<1>1. ids \in Chats /\ hist \in [1 .. MaxAgents -> SUBSET Turns] /\ agent \in Nat
  BY DEF TypeInv, ChatTypeOK
<1>2. ids + 1 \in Chats
  BY <1>1 DEF StartNewChat, Chats, ChatAssumption
<1>3. /\ hist' \in [1 .. MaxAgents -> SUBSET Turns]
      /\ \A a \in 1 .. MaxAgents : hist'[a] = IF a = agent THEN {} ELSE hist[a]
  <2>1. hist' = IF agent = 0 THEN hist ELSE [hist EXCEPT ![agent] = {}]
    BY DEF StartNewChat
  <2>2. CASE agent = 0
    <3>1. \A a \in 1 .. MaxAgents : a # agent
      BY <2>2, ChatAssumption DEF ChatAssumption
    <3> QED
      BY <1>1, <2>1, <2>2, <3>1
  <2>3. CASE agent # 0
    BY <1>1, <2>1, <2>3
  <2> QED
    BY <2>2, <2>3
<1> QED
  BY <1>2, <1>3 DEF StartNewChat, llm

\* The types, when the turn is the same but for a card that is refused.
LEMMA TypeChats ==
    ASSUME ChatAssumption, TypeInv, turn' \in {turn, RejectCards(turn)}, ghost' \in GhostRecord,
           text' = text, agent' \in 0 .. agentIds', agentIds' \in agentIds .. MaxAgents,
           engine' \in {"idle", "loading", "again", "ready"}, provider' \in BOOLEAN,
           hist' \in [1 .. MaxAgents -> SUBSET Turns], store' \in [Chats -> SUBSET Turns],
           ids' \in Chats, chat' \in 1 .. ids',
           opening' # NONE => opening'.chat \in 1 .. ids' /\ opening'.turns \in SUBSET Turns,
           \A k \in Chats : k > ids' => store'[k] = {},
           \A a \in 1 .. MaxAgents : a > agentIds' => hist'[a] = {}
    PROVE  TypeInv'
<1>1. turn \in TurnRecord /\ ghost \in GhostRecord /\ agentIds \in 0 .. MaxAgents
      /\ (turn.n # 0 <=> turn.phase # "none") /\ (turn.n # 0 => turn.agent \in 1 .. agentIds)
      /\ text \subseteq 1 .. MaxTyped
  BY DEF TypeInv, ChatTypeOK, Busy
<1>2. /\ turn' \in TurnRecord /\ turn'.n = turn.n /\ turn'.agent = turn.agent
      /\ (turn'.phase = "none" <=> turn.phase = "none")
  <2>1. CASE turn' = turn
    BY <1>1, <2>1
  <2>2. CASE turn' = RejectCards(turn)
    <3>1. /\ RejectCards(turn) \in TurnRecord /\ RejectCards(turn).n = turn.n
          /\ RejectCards(turn).agent = turn.agent
          /\ (RejectCards(turn).phase = "none" <=> turn.phase = "none")
      BY <1>1, Marks
    <3> QED
      BY <2>2, <3>1
  <2> QED
    BY <2>1, <2>2
<1>3. turn'.n \in Turns /\ turn'.phase \in Phases
  BY <1>2 DEF TurnRecord
<1>4. turn'.n # 0 => turn'.agent \in 1 .. agentIds'
  BY <1>1, <1>2, ChatAssumption DEF ChatAssumption
<1>5. agentIds' \in 0 .. MaxAgents
  BY <1>1
<1>6. ChatTypeOK'
  BY <1>1, <1>2, <1>3, <1>4, <1>5 DEF ChatTypeOK, Busy, Chats, Turns, Phases
<1> QED
  BY <1>2, <1>6 DEF TypeInv, Chats, Turns, TurnRecord, GhostRecord, Phases

LEMMA TypeChatStep ==
    ASSUME ChatAssumption, TypeInv,
           \/ Ready \/ NotReady \/ Disconnect \/ NewChat \/ Opened \/ End
           \/ \E k \in Chats : OpenChat(k) \/ DeleteChat(k)
    PROVE  TypeInv'
<1> USE DEF llm, agents, chats
<1>1. /\ turn \in TurnRecord /\ ghost \in GhostRecord /\ text \subseteq 1 .. MaxTyped
      /\ (turn.n # 0 <=> turn.phase # "none") /\ (turn.n # 0 => turn.agent \in 1 .. agentIds)
      /\ hist \in [1 .. MaxAgents -> SUBSET Turns] /\ store \in [Chats -> SUBSET Turns]
      /\ \A a \in 1 .. MaxAgents : a > agentIds => hist[a] = {}
      /\ \A k \in Chats : k > ids => store[k] = {}
      /\ engine \in {"idle", "loading", "again", "ready"} /\ provider \in BOOLEAN
      /\ agent \in 0 .. agentIds /\ agentIds \in 0 .. MaxAgents /\ chat \in 1 .. ids /\ ids \in Chats
      /\ (opening # NONE => opening.chat \in 1 .. ids /\ opening.turns \in SUBSET Turns)
  BY DEF TypeInv, ChatTypeOK, Busy
<1>2. Stray(ghost) \in GhostRecord /\ agentIds \in agentIds .. MaxAgents
  BY <1>1, Marks DEF ChatAssumption
<1>3. CASE Ready
  <2>1. CASE agent = 0
    <3>1. BuildAgent /\ turn' = RejectCards(turn) /\ engine' = "ready"
      BY <1>3, <2>1 DEF Ready
    <3>2. ghost' \in GhostRecord /\ agent' \in 0 .. agentIds' /\ agentIds' \in agentIds .. MaxAgents /\ agentIds' > agentIds
      BY <1>1, <3>1, Builds DEF ChatAssumption
    <3> QED
      BY <1>1, <1>3, <3>1, <3>2, TypeChats DEF Ready
  <2>2. CASE agent # 0
    BY <1>1, <1>2, <1>3, <2>2, TypeChats DEF Ready
  <2> QED
    BY <2>1, <2>2
<1>4. CASE NotReady
  <2>1. provider' \in BOOLEAN /\ engine' = "idle" /\ agent' = 0 /\ ghost' \in GhostRecord
    BY <1>4, Disowns DEF NotReady
  <2> QED
    BY <1>1, <1>2, <1>4, <2>1, TypeChats DEF NotReady
<1>5. CASE Disconnect
  <2>1. provider' \in BOOLEAN /\ engine' = "idle" /\ agent' = 0 /\ ghost' \in GhostRecord
    BY <1>5, Disowns DEF Disconnect
  <2> QED
    BY <1>1, <1>2, <1>5, <2>1, TypeChats DEF Disconnect
<1>6. ASSUME StartNewChat, store' \in [Chats -> SUBSET Turns],
             \A k \in Chats : store'[k] \in {store[k], {}}
      PROVE  TypeInv'
  <2>1. \A a \in 1 .. MaxAgents : a > agentIds => hist'[a] = {}
    BY <1>1, <1>6, StartsNew
  <2>2. \A k \in Chats : k > ids' => store'[k] = {}
    BY <1>1, <1>6, StartsNew DEF Chats
  <2>3. ids' \in Chats /\ chat' \in 1 .. ids' /\ ids' = ids + 1
    BY <1>6, StartsNew DEF Chats, ChatAssumption
  <2> QED
    BY <1>1, <1>2, <1>6, <2>1, <2>2, <2>3, StartsNew, TypeChats DEF Chats
<1>7. CASE NewChat
  BY <1>1, <1>6, <1>7 DEF NewChat
<1>8. ASSUME NEW k \in Chats, OpenChat(k) PROVE TypeInv'
  <2>1. opening' = [chat |-> k, turns |-> store[k]] /\ k \in 1 .. ids /\ store[k] \in SUBSET Turns
    BY <1>1, <1>8 DEF OpenChat, Chats, ChatAssumption
  <2> QED
    BY <1>1, <1>2, <1>8, <2>1, TypeChats DEF OpenChat
<1>9. ASSUME NEW k \in Chats, DeleteChat(k) PROVE TypeInv'
  <2>1. store' \in [Chats -> SUBSET Turns] /\ \A j \in Chats : store'[j] \in {store[j], {}}
    BY <1>1, <1>9 DEF DeleteChat
  <2>2. CASE k = chat
    BY <1>6, <1>9, <2>1, <2>2 DEF DeleteChat
  <2>3. CASE k # chat
    <3>1. \A j \in Chats : j > ids => store'[j] = {}
      BY <1>1, <2>1
    <3> QED
      BY <1>1, <1>2, <1>9, <2>1, <2>3, <3>1, TypeChats DEF DeleteChat
  <2> QED
    BY <2>2, <2>3
<1>10. CASE Opened
  <2> DEFINE built == provider /\ agent = 0
             to == IF built THEN agentIds + 1 ELSE agent
             lost == to = 0 \/ opening.turns # store[opening.chat]
  <2>1. /\ opening # NONE /\ opening' = NONE /\ chat' = opening.chat
        /\ (built => agentIds < MaxAgents)
        /\ agent' = to /\ agentIds' = (IF built THEN to ELSE agentIds)
        /\ hist' = IF to = 0 THEN hist ELSE [hist EXCEPT ![to] = opening.turns]
        /\ turn' = IF built THEN RejectCards(turn) ELSE turn
        /\ ghost' = [Stray(ghost) EXCEPT !.shaken = IF lost THEN @ \cup {opening.chat} ELSE @]
        /\ engine' = engine /\ provider' = provider /\ ids' = ids /\ store' = store /\ text' = text
    BY <1>10 DEF Opened
  <2>2. to \in 0 .. agentIds' /\ agentIds' \in agentIds .. MaxAgents
    BY <1>1, <2>1 DEF ChatAssumption
  <2>3. hist' \in [1 .. MaxAgents -> SUBSET Turns]
        /\ \A a \in 1 .. MaxAgents : a > agentIds' => hist'[a] = {}
    BY <1>1, <2>1, <2>2 DEF ChatAssumption
  <2>4. opening.chat \in Nat
    BY <1>1, <2>1
  <2>5. ghost' \in GhostRecord
    <3>1. PICK g : g = Stray(ghost)
      OBVIOUS
    <3>2. ghost' = [g EXCEPT !.shaken = IF lost THEN g.shaken \cup {opening.chat} ELSE g.shaken]
      BY <2>1, <3>1
    <3> HIDE DEF lost
    <3> QED
      BY <1>2, <2>4, <3>1, <3>2 DEF GhostRecord
  <2>6. turn' \in {turn, RejectCards(turn)} /\ chat' \in 1 .. ids
    BY <1>1, <2>1
  <2> HIDE DEF built, to, lost
  <2> QED
    BY <1>1, <2>1, <2>2, <2>3, <2>5, <2>6, TypeChats
<1>11. CASE End
  <2>1. SaveChat \in [Chats -> SUBSET Turns] /\ \A k \in Chats : k > ids => SaveChat[k] = {}
    <3>1. CASE agent # 0 /\ hist[agent] # {}
      <4>1. SaveChat = [store EXCEPT ![chat] = hist[agent]] /\ agent \in 1 .. MaxAgents
        BY <1>1, <3>1 DEF SaveChat, ChatAssumption
      <4>2. hist[agent] \in SUBSET Turns /\ \A k \in Chats : k > ids => k # chat
        BY <1>1, <4>1 DEF Chats
      <4> QED
        BY <1>1, <4>1, <4>2
    <3>2. CASE ~(agent # 0 /\ hist[agent] # {})
      BY <1>1, <3>2 DEF SaveChat
    <3> QED
      BY <3>1, <3>2
  <2>2. turn' = NoTurn /\ store' = SaveChat
    BY <1>11 DEF End
  <2>3. turn' \in TurnRecord /\ turn'.n = 0 /\ turn'.phase = "none"
    BY <2>2 DEF NoTurn, TurnRecord, Turns, Phases, ChatAssumption
  <2>4. ChatTypeOK'
    <3>1. turn'.n \in Turns /\ turn'.phase \in Phases
      BY <2>3 DEF TurnRecord
    <3> QED
      BY <1>1, <1>11, <2>1, <2>2, <2>3, <3>1 DEF End, ChatTypeOK, Busy, Chats, Turns, Phases
  <2> QED
    BY <1>1, <1>11, <2>1, <2>2, <2>3, <2>4 DEF End, TypeInv, Chats, Turns, TurnRecord, GhostRecord, Phases
<1> QED
  BY <1>3, <1>4, <1>5, <1>7, <1>8, <1>9, <1>10, <1>11

LEMMA ChatTypeStep == ChatAssumption /\ TypeInv /\ [ChatNext]_chatVars => TypeInv'
<1>1. CASE UNCHANGED chatVars
  <2> SUFFICES ASSUME TypeInv, UNCHANGED chatVars PROVE TypeInv'
    BY <1>1
  <2> QED
    BY DEF chatVars, TypeInv, ChatTypeOK, Busy, Chats, Turns, TurnRecord, GhostRecord, Phases
<1> QED
  BY <1>1, TypeTurnStep, TypeChatStep DEF ChatNext
-----------------------------------------------------------------------------
(* An edit under way. *)

LEMMA FitGoesOn ==
    ASSUME ChatAssumption, turn \in TurnRecord, Fit(turn, text, loop)
    PROVE  /\ Fit(RejectCards(turn), text, loop) /\ Fit(NoTurn, text, loop)
           /\ turn.phase = "model" => Fit(ApplyEdit(turn), text, loop)
           /\ turn.phase = "rejected" => Fit(AfterEdit(turn), text, loop)
           /\ Fit(AfterEdit(turn), turn.base, loop)
<1>1. Fit(NoTurn, text, loop)
  BY DEF Fit, NoTurn
<1>2. Fit(RejectCards(turn), text, loop)
  <2>1. CASE turn.phase = "card"
    <3>1. RejectCards(turn).unread = turn.unread /\ RejectCards(turn).base = turn.base
      BY Marks, <2>1 DEF RejectCards, TurnRecord
    <3> QED
      BY <2>1, <3>1 DEF Fit
  <2>2. CASE turn.phase # "card"
    BY <2>2 DEF RejectCards
  <2> QED
    BY <2>1, <2>2
<1>3. ASSUME turn.phase = "model" PROVE Fit(ApplyEdit(turn), text, loop)
  <2> DEFINE t == ApplyEdit(turn)
  <2>1. CASE loop = "tools" /\ ~turn.aborted
    <3>1. t.base = text
      BY <2>1 DEF ApplyEdit, TurnRecord
    <3> HIDE DEF t
    <3> QED
      BY <3>1 DEF Fit, t
  <2>2. CASE loop = "tools" /\ turn.aborted
    <3>1. t.phase = "rejected"
      BY <2>2 DEF ApplyEdit, TurnRecord
    <3> HIDE DEF t
    <3> QED
      BY <2>2, <3>1 DEF Fit, t
  <2>3. CASE loop # "tools"
    <3>1. t.base = turn.base /\ t.unread = turn.unread
      BY <2>3 DEF ApplyEdit, TurnRecord
    <3>2. text \ turn.unread \subseteq turn.base
      BY <1>3, <2>3 DEF Fit
    <3> HIDE DEF t
    <3> QED
      BY <3>1, <3>2 DEF Fit, t
  <2> QED
    BY <2>1, <2>2, <2>3
<1>4. /\ AfterEdit(turn).phase = "model" /\ AfterEdit(turn).unread = turn.unread
      /\ AfterEdit(turn).base = turn.base
  BY DEF AfterEdit, TurnRecord
<1>5. turn.phase = "rejected" => Fit(AfterEdit(turn), text, loop)
  BY <1>4 DEF Fit
<1>6. Fit(AfterEdit(turn), turn.base, loop)
  BY <1>4 DEF Fit
<1> QED
  BY <1>1, <1>2, <1>3, <1>5, <1>6

LEMMA FitStep ==
    ASSUME ChatAssumption, TypeInv, EditInv, [ChatNext]_chatVars
    PROVE  Fit(turn', text', loop')
<1>1. turn \in TurnRecord /\ text \subseteq 1 .. MaxTyped /\ ghost \in GhostRecord
  BY DEF TypeInv, ChatTypeOK
<1>2. Fit(turn, text, loop)
  BY DEF EditInv
<1>3. CASE text' = text /\ loop' = loop /\ turn' \in {turn, RejectCards(turn), NoTurn}
  BY <1>1, <1>2, <1>3, FitGoesOn
<1>4. CASE Load \/ Reconnect \/ NotReady \/ Disconnect \/ Evict \/ UNCHANGED chatVars
  BY <1>3, <1>4 DEF Load, Reconnect, NotReady, Disconnect, Evict, chatVars
<1>5. CASE Ready \/ Opened
  BY <1>3, <1>5 DEF Ready, Opened, BuildAgent
<1>6. CASE NewChat \/ \E k \in Chats : OpenChat(k) \/ DeleteChat(k)
  BY <1>3, <1>6 DEF NewChat, OpenChat, DeleteChat, StartNewChat
<1>7. CASE Reject \/ End
  BY <1>3, <1>7 DEF Reject, End
<1>8. CASE SendTurn
  <2>1. turn'.phase = "provider"
    BY <1>8 DEF SendTurn, NoTurn
  <2> QED
    BY <2>1 DEF Fit
<1>9. CASE BeginTurn
  <2>1. turn'.phase = (IF loop = "tools" THEN "model" ELSE "classify") /\ loop' = loop
    BY <1>1, <1>9 DEF BeginTurn, TurnRecord
  <2> QED
    BY <2>1 DEF Fit
<1>10. CASE ReadTarget
  <2>1. turn'.base = text /\ text' = text
    BY <1>1, <1>10 DEF ReadTarget, TurnRecord
  <2> QED
    BY <2>1 DEF Fit
<1>11. CASE Fails \/ ModelAnswers
  <2>1. turn'.phase = "done"
    BY <1>1, <1>11 DEF Fails, ModelAnswers, TurnRecord
  <2> QED
    BY <2>1 DEF Fit
<1>12. CASE ModelCalls
  BY <1>1, <1>2, <1>12, FitGoesOn DEF ModelCalls
<1>13. CASE ReviewRejects \/ ReviewPasses \/ ApproveEdit
  <2>1. /\ turn.phase \in {"review", "card"}
        /\ \E p \in {"rejected", "write", "card"} : turn' = [turn EXCEPT !.phase = p]
        /\ text' = text /\ loop' = loop
    BY <1>13 DEF ReviewRejects, ReviewPasses, ApproveEdit
  <2>2. turn'.unread = turn.unread /\ turn'.base = turn.base
    BY <1>1, <2>1 DEF TurnRecord
  <2> QED
    BY <1>2, <2>1, <2>2 DEF Fit
<1>14. CASE Write
  BY <1>1, <1>2, <1>14, FitGoesOn DEF Write
<1>15. CASE Refused
  BY <1>1, <1>2, <1>15, FitGoesOn DEF Refused
<1>16. CASE Stop
  <2>1. PICK u \in {turn, RejectCards(turn)}, b \in BOOLEAN : turn' = [u EXCEPT !.stopped = TRUE, !.aborted = b]
    BY <1>1, <1>16, StopsTurn
  <2>2. u \in TurnRecord /\ Fit(u, text, loop)
    BY <1>1, <1>2, <2>1, Marks, FitGoesOn
  <2>3. turn'.phase = u.phase /\ turn'.unread = u.unread /\ turn'.base = u.base
    BY <2>1, <2>2 DEF TurnRecord
  <2>4. text' = text /\ loop' = loop
    BY <1>16 DEF Stop
  <2> QED
    BY <2>2, <2>3, <2>4 DEF Fit
<1>17. CASE Type
  <2>1. PICK i \in (1 .. MaxTyped) \ text :
           /\ text' = text \cup {i} /\ loop' = loop
           /\ turn' = IF Busy THEN [turn EXCEPT !.unread = @ \cup {i}] ELSE turn
    BY <1>17 DEF Type
  <2>2. CASE Busy
    <3>1. turn'.phase = turn.phase /\ turn'.unread = turn.unread \cup {i} /\ turn'.base = turn.base
      BY <1>1, <2>1, <2>2 DEF TurnRecord
    <3>2. text' \ turn'.unread \subseteq text \ turn.unread
      BY <2>1, <3>1
    <3> QED
      BY <1>2, <2>1, <3>1, <3>2 DEF Fit
  <2>3. CASE ~Busy
    <3>1. turn' = turn /\ turn.phase = "none"
      BY <2>1, <2>3 DEF TypeInv, ChatTypeOK
    <3> QED
      BY <3>1 DEF Fit
  <2> QED
    BY <2>2, <2>3
<1> QED
  BY <1>4, <1>5, <1>6, <1>7, <1>8, <1>9, <1>10, <1>11, <1>12, <1>13, <1>14, <1>15, <1>16, <1>17 DEF ChatNext

\* Steps in which no review begins.
LEMMA StopsGoOn ==
    ASSUME ChatAssumption, TypeInv, EditInv,
           turn'.n = turn.n, turn'.agent = turn.agent, turn'.stopped = turn.stopped, turn'.aborted = turn.aborted,
           turn'.phase \in {"review", "card", "write"} /\ turn'.after = TRUE =>
               turn.phase \in {"review", "card", "write"} /\ turn.after = TRUE,
           ghost.orphaned \subseteq ghost'.orphaned,
           agent' = agent \/ agent = 0 \/ (turn.n # 0 => turn.stopped = TRUE \/ turn.n \in ghost'.orphaned)
    PROVE  Stops(turn', agent', ghost'.orphaned)
<1>1. Stops(turn, agent, ghost.orphaned)
  BY DEF EditInv
<1>2. turn.n # 0 => turn.agent # 0
  BY DEF TypeInv, ChatTypeOK, Busy, ChatAssumption
<1> QED
  BY <1>1, <1>2 DEF Stops

LEMMA StopsStep ==
    ASSUME ChatAssumption, TypeInv, EditInv, [ChatNext]_chatVars
    PROVE  Stops(turn', agent', ghost'.orphaned)
<1> USE DEF agents
<1>1. turn \in TurnRecord /\ ghost \in GhostRecord
  BY DEF TypeInv
<1>2. Stops(turn, agent, ghost.orphaned)
  BY DEF EditInv
<1>3. ASSUME NEW p \in Phases, turn' = [turn EXCEPT !.phase = p], agent' = agent, ghost'.orphaned = ghost.orphaned,
             p \in {"review", "card", "write"} => turn.phase \in {"review", "card"}
      PROVE  Stops(turn', agent', ghost'.orphaned)
  <2>1. /\ turn'.n = turn.n /\ turn'.agent = turn.agent /\ turn'.stopped = turn.stopped
        /\ turn'.aborted = turn.aborted /\ turn'.after = turn.after /\ turn'.phase = p
    BY <1>1, <1>3 DEF TurnRecord
  <2> QED
    BY <1>3, <2>1, StopsGoOn
<1>4. ASSUME turn' \in {turn, RejectCards(turn)}, ghost.orphaned \subseteq ghost'.orphaned,
             agent' = agent \/ agent = 0 \/ (turn.n # 0 => turn.stopped = TRUE \/ turn.n \in ghost'.orphaned)
      PROVE  Stops(turn', agent', ghost'.orphaned)
  <2>1. /\ turn'.n = turn.n /\ turn'.agent = turn.agent /\ turn'.stopped = turn.stopped
        /\ turn'.aborted = turn.aborted /\ turn'.after = turn.after /\ turn'.phase \in {turn.phase, "rejected"}
    BY <1>1, <1>4, Marks
  <2> QED
    BY <1>4, <2>1, StopsGoOn
<1>5. CASE Load \/ Reconnect \/ Reject \/ UNCHANGED chatVars
  BY <1>4, <1>5 DEF Load, Reconnect, Reject, chatVars
<1>6. CASE Evict
  <2>1. ghost'.orphaned = ghost.orphaned
    BY <1>1, <1>6 DEF Evict, GhostRecord
  <2> QED
    BY <1>4, <1>6, <2>1 DEF Evict
<1>7. CASE NotReady \/ Disconnect
  BY <1>4, <1>7, Disowns DEF NotReady, Disconnect
<1>8. CASE Ready
  <2>1. CASE agent = 0
    BY <1>4, <1>8, <2>1, Builds DEF Ready
  <2>2. CASE agent # 0
    BY <1>4, <1>8, <2>2 DEF Ready
  <2> QED
    BY <2>1, <2>2
<1>9. CASE Opened
  <2>1. ghost'.orphaned = ghost.orphaned
    <3>1. PICK g, s : g = Stray(ghost) /\ ghost' = [g EXCEPT !.shaken = s]
      BY <1>9 DEF Opened
    <3>2. g \in GhostRecord /\ g.orphaned = ghost.orphaned
      BY <1>1, <3>1, Marks
    <3> QED
      BY <3>1, <3>2 DEF GhostRecord
  <2>2. turn' \in {turn, RejectCards(turn)} /\ (agent' = agent \/ agent = 0)
    BY <1>9 DEF Opened
  <2> QED
    BY <1>4, <2>1, <2>2
<1>10. ASSUME StartNewChat
       PROVE  Stops(turn', agent', ghost'.orphaned)
  <2>1. turn' = RejectCards(turn) /\ ghost' = Stray(ghost) /\ agent' = agent
    BY <1>10 DEF StartNewChat
  <2>2. ghost'.orphaned = ghost.orphaned
    BY <1>1, <2>1, Marks
  <2> QED
    BY <1>4, <2>1, <2>2
<1>11. CASE NewChat \/ \E k \in Chats : OpenChat(k) \/ DeleteChat(k)
  BY <1>4, <1>10, <1>11 DEF NewChat, OpenChat, DeleteChat
<1>12. CASE SendTurn
  <2>1. PICK n \in 1 .. MaxTurns :
           /\ turn' = [NoTurn EXCEPT !.n = n, !.agent = agent, !.phase = "provider"]
           /\ agent' = agent
    BY <1>12 DEF SendTurn
  <2>2. turn'.agent = agent /\ turn'.stopped = FALSE /\ turn'.phase = "provider"
    BY <2>1 DEF NoTurn
  <2> QED
    BY <2>1, <2>2 DEF Stops
<1>13. CASE BeginTurn
  <2>1. PICK p \in {"classify", "model"} : turn' = [turn EXCEPT !.phase = p]
    BY <1>13 DEF BeginTurn
  <2> QED
    BY <1>3, <1>13, <2>1 DEF BeginTurn, Phases
<1>14. CASE ReadTarget
  <2>1. /\ turn'.n = turn.n /\ turn'.agent = turn.agent /\ turn'.stopped = turn.stopped
        /\ turn'.aborted = turn.aborted /\ turn'.phase = "model"
    BY <1>1, <1>14 DEF ReadTarget, TurnRecord
  <2> QED
    BY <1>14, <2>1, StopsGoOn DEF ReadTarget
<1>15. CASE Fails \/ ModelAnswers \/ ReviewRejects \/ ReviewPasses \/ ApproveEdit
  BY <1>3, <1>15 DEF Fails, ModelAnswers, ReviewRejects, ReviewPasses, ApproveEdit, Phases
<1>16. CASE ModelCalls
  <2>1. turn' = ApplyEdit(turn) /\ agent' = agent /\ ghost' = ghost
    BY <1>16 DEF ModelCalls
  <2>2. CASE turn.aborted
    <3>1. turn' = [turn EXCEPT !.phase = "rejected"]
      BY <2>1, <2>2 DEF ApplyEdit
    <3> QED
      BY <1>3, <2>1, <3>1 DEF Phases
  <2>3. CASE ~turn.aborted
    <3>1. /\ turn'.n = turn.n /\ turn'.agent = turn.agent /\ turn'.stopped = turn.stopped
          /\ turn'.aborted = turn.aborted /\ turn'.after = turn.stopped
      BY <1>1, <2>1, <2>3 DEF ApplyEdit, TurnRecord
    <3> QED
      BY <1>2, <2>1, <2>3, <3>1 DEF Stops
  <2> QED
    BY <2>2, <2>3
<1>17. CASE Write \/ Refused
  <2>1. turn' = AfterEdit(turn) /\ agent' = agent /\ ghost' = ghost
    BY <1>17 DEF Write, Refused
  <2>2. /\ turn'.n = turn.n /\ turn'.agent = turn.agent /\ turn'.stopped = turn.stopped
        /\ turn'.aborted = turn.aborted /\ turn'.phase = "model"
    BY <1>1, <2>1 DEF AfterEdit, TurnRecord
  <2> QED
    BY <2>1, <2>2, StopsGoOn
<1>18. CASE End
  <2>1. turn'.n = 0 /\ turn'.stopped = FALSE /\ turn'.phase = "none"
    BY <1>18 DEF End, NoTurn
  <2> QED
    BY <2>1 DEF Stops
<1>19. CASE Stop
  <2>1. PICK u \in {turn, RejectCards(turn)}, b \in BOOLEAN :
           /\ turn' = [u EXCEPT !.stopped = TRUE, !.aborted = b]
           /\ turn.agent # 0 => b = TRUE \/ (b = turn.aborted /\ agent # turn.agent)
    BY <1>1, <1>19, StopsTurn
  <2>2. /\ u \in TurnRecord /\ u.n = turn.n /\ u.agent = turn.agent /\ u.after = turn.after
        /\ u.phase \in {turn.phase, "rejected"}
    BY <1>1, <2>1, Marks
  <2>3. /\ turn'.n = turn.n /\ turn'.agent = turn.agent /\ turn'.stopped = TRUE /\ turn'.aborted = b
        /\ turn'.after = turn.after /\ turn'.phase \in {turn.phase, "rejected"}
    BY <2>1, <2>2 DEF TurnRecord
  <2>4. agent' = agent /\ ghost' = ghost /\ turn.n # 0 /\ turn.agent # 0
    BY <1>19 DEF Stop, Busy, TypeInv, ChatTypeOK, ChatAssumption
  <2> QED
    BY <1>2, <2>1, <2>3, <2>4 DEF Stops
<1>20. CASE Type
  <2>1. /\ turn'.n = turn.n /\ turn'.agent = turn.agent /\ turn'.stopped = turn.stopped
        /\ turn'.aborted = turn.aborted /\ turn'.after = turn.after /\ turn'.phase = turn.phase
    BY <1>1, <1>20 DEF Type, TurnRecord
  <2> QED
    BY <1>20, <2>1, StopsGoOn DEF Type
<1> QED
  BY <1>5, <1>6, <1>7, <1>8, <1>9, <1>11, <1>12, <1>13, <1>14, <1>15, <1>16, <1>17, <1>18, <1>19, <1>20
  DEF ChatNext

LEMMA EditStep == ChatAssumption /\ TypeInv /\ EditInv /\ [ChatNext]_chatVars => EditInv'
BY FitStep, StopsStep DEF EditInv

-----------------------------------------------------------------------------
(* The chats. *)

TurnInChat == Busy => turn.n \in ghost.strayed \/ (agent = turn.agent /\ ghost.asked[turn.n] = chat)
HistoryInChat == agent # 0 => \A t \in hist[agent] \ {0} : In(t, chat)
OpeningInChat == opening # NONE => \A t \in opening.turns \ {0} : In(t, opening.chat)
RecordsInChat == \A k \in Chats : \A t \in store[k] \ {0} : In(t, k)
AgentHasRecord ==
    agent # 0 /\ chat \notin ghost.trimmed \cup ghost.shaken => store[chat] \subseteq hist[agent]

LEMMA ChatParts ==
    ChatInv <=> /\ TurnInChat /\ HistoryInChat /\ OpeningInChat /\ RecordsInChat
                /\ AgentHasRecord
BY DEF ChatInv, TurnInChat, HistoryInChat, OpeningInChat, RecordsInChat, AgentHasRecord

\* The turns that ran in a chat did, while none is asked anew.
LEMMA StillIn ==
    ASSUME ghost'.asked = ghost.asked, ghost.strayed \subseteq ghost'.strayed
    PROVE  /\ \A t, k : In(t, k) => In(t, k)'
           /\ RecordsInChat /\ (\A k \in Chats : store'[k] \subseteq store[k]) => RecordsInChat'
           /\ OpeningInChat /\ (opening' = opening \/ opening' = NONE) => OpeningInChat'
<1>1. \A t, k : In(t, k) => In(t, k)'
  BY DEF In
<1> QED
  BY <1>1 DEF RecordsInChat, OpeningInChat

\* A step of the turn, or one that has nothing to do with it.
LEMMA ChatTurns ==
    ASSUME TypeInv, ChatInv, UNCHANGED <<agent, hist, chat, store, opening, ghost>>,
           turn'.n = turn.n, turn'.agent = turn.agent
    PROVE  ChatInv'
<1>1. \A t, k : In(t, k) <=> In(t, k)'
  BY DEF In
<1>2. TurnInChat'
  BY ChatParts DEF TurnInChat, Busy
<1>3. HistoryInChat' /\ OpeningInChat' /\ RecordsInChat' /\ AgentHasRecord'
  BY <1>1, ChatParts DEF HistoryInChat, OpeningInChat, RecordsInChat, AgentHasRecord
<1> QED
  BY <1>2, <1>3 DEF ChatInv, TurnInChat, HistoryInChat, OpeningInChat, RecordsInChat, AgentHasRecord

LEMMA ChatTurnStep ==
    ASSUME ChatAssumption, TypeInv, ChatInv,
           \/ Load \/ Reconnect \/ ReadTarget \/ Fails \/ ModelCalls \/ ReviewRejects \/ ReviewPasses
           \/ ApproveEdit \/ Reject \/ Write \/ Refused \/ Stop \/ Type
    PROVE  ChatInv'
<1> USE DEF agents, chats
<1>1. turn \in TurnRecord /\ ghost \in GhostRecord /\ text \subseteq 1 .. MaxTyped
  BY DEF TypeInv, ChatTypeOK
<1>2. CASE Load \/ Reconnect
  BY <1>2, ChatTurns DEF Load, Reconnect
<1>3. CASE ReadTarget \/ Fails
  <2>1. turn'.n = turn.n /\ turn'.agent = turn.agent
    BY <1>1, <1>3 DEF ReadTarget, Fails, TurnRecord
  <2> QED
    BY <1>3, <2>1, ChatTurns DEF ReadTarget, Fails
<1>4. CASE ModelCalls
  BY <1>1, <1>4, TurnGoesOn, ChatTurns DEF ModelCalls
<1>5. CASE ReviewRejects
  <2>1. turn'.n = turn.n /\ turn'.agent = turn.agent
    BY <1>1, <1>5 DEF ReviewRejects, TurnRecord
  <2> QED
    BY <1>5, <2>1, ChatTurns DEF ReviewRejects
<1>6. CASE ReviewPasses
  <2>1. turn'.n = turn.n /\ turn'.agent = turn.agent
    BY <1>1, <1>6 DEF ReviewPasses, TurnRecord
  <2> QED
    BY <1>6, <2>1, ChatTurns DEF ReviewPasses
<1>7. CASE ApproveEdit
  <2>1. turn'.n = turn.n /\ turn'.agent = turn.agent
    BY <1>1, <1>7 DEF ApproveEdit, TurnRecord
  <2> QED
    BY <1>7, <2>1, ChatTurns DEF ApproveEdit
<1>8. CASE Reject
  BY <1>1, <1>8, Marks, ChatTurns DEF Reject
<1>9. CASE Write
  BY <1>1, <1>9, TurnGoesOn, ChatTurns DEF Write
<1>10. CASE Refused
  BY <1>1, <1>10, TurnGoesOn, ChatTurns DEF Refused
<1>11. CASE Stop
  <2>1. PICK u \in {turn, RejectCards(turn)}, b \in BOOLEAN : turn' = [u EXCEPT !.stopped = TRUE, !.aborted = b]
    BY <1>1, <1>11, StopsTurn
  <2>2. u \in TurnRecord /\ u.n = turn.n /\ u.agent = turn.agent
    BY <1>1, <2>1, Marks
  <2>3. turn'.n = turn.n /\ turn'.agent = turn.agent
    BY <2>1, <2>2 DEF TurnRecord
  <2> QED
    BY <1>11, <2>3, ChatTurns DEF Stop
<1>12. CASE Type
  <2>1. turn'.n = turn.n /\ turn'.agent = turn.agent
    BY <1>1, <1>12 DEF Type, TurnRecord
  <2> QED
    BY <1>12, <2>1, ChatTurns DEF Type
<1> QED
  BY <1>2, <1>3, <1>4, <1>5, <1>6, <1>7, <1>8, <1>9, <1>10, <1>11, <1>12

\* A turn begins or the model answers: the turn is in the history of its agent.
LEMMA ChatSpeaks ==
    ASSUME ChatAssumption, TypeInv, ChatInv, BeginTurn \/ ModelAnswers
    PROVE  ChatInv'
<1>1. /\ turn \in TurnRecord /\ turn.n # 0 /\ turn.agent \in 1 .. MaxAgents
      /\ hist \in [1 .. MaxAgents -> SUBSET Turns] /\ agent \in 0 .. MaxAgents
  BY DEF TypeInv, ChatTypeOK, BeginTurn, ModelAnswers, Busy, ChatAssumption
<1>2. PICK a \in 1 .. MaxAgents : a = turn.agent
  BY <1>1
<1>3. /\ hist' = [hist EXCEPT ![a] = @ \cup {turn.n}]
      /\ agent' = agent /\ chat' = chat /\ store' = store /\ opening' = opening /\ ghost' = ghost
      /\ turn'.n = turn.n /\ turn'.agent = turn.agent
  BY <1>1, <1>2 DEF BeginTurn, ModelAnswers, TurnRecord, chats
<1>4. \A t, k : In(t, k) <=> In(t, k)'
  BY <1>3 DEF In
<1>5. TurnInChat'
  BY <1>3, ChatParts DEF TurnInChat, Busy
<1>6. HistoryInChat'
  <2> SUFFICES ASSUME agent # 0, NEW t \in hist'[agent] \ {0} PROVE In(t, chat)
    BY <1>3, <1>4 DEF HistoryInChat
  <2>1. CASE t \in hist[agent]
    BY <2>1, ChatParts DEF HistoryInChat
  <2>2. CASE t \notin hist[agent]
    <3>1. t = turn.n /\ agent = turn.agent
      BY <1>1, <1>2, <1>3, <2>2
    <3> QED
      BY <1>1, <3>1, ChatParts DEF TurnInChat, Busy, In
  <2> QED
    BY <2>1, <2>2
<1>7. OpeningInChat' /\ RecordsInChat'
  BY <1>3, <1>4, ChatParts DEF OpeningInChat, RecordsInChat
<1>8. AgentHasRecord'
  <2>1. agent # 0 => hist[agent] \subseteq hist'[agent]
    BY <1>1, <1>3
  <2> QED
    BY <1>3, <2>1, ChatParts DEF AgentHasRecord
<1> QED
  BY <1>5, <1>6, <1>7, <1>8 DEF ChatInv, TurnInChat, HistoryInChat, OpeningInChat, RecordsInChat, AgentHasRecord

LEMMA ChatEvicts ==
    ASSUME ChatAssumption, TypeInv, ChatInv, Evict
    PROVE  ChatInv'
<1>1. /\ turn \in TurnRecord /\ ghost \in GhostRecord /\ turn.agent \in 1 .. MaxAgents
      /\ hist \in [1 .. MaxAgents -> SUBSET Turns] /\ agent \in 0 .. MaxAgents /\ chat \in Nat
  BY DEF TypeInv, ChatTypeOK, Evict, Busy, ChatAssumption, Chats
<1>2. PICK a \in 1 .. MaxAgents : a = turn.agent
  BY <1>1
<1>3. /\ hist' = [hist EXCEPT ![a] = @ \cap {turn.n}]
      /\ agent' = agent /\ chat' = chat /\ store' = store /\ opening' = opening /\ turn' = turn
      /\ ghost' = [ghost EXCEPT !.trimmed = @ \cup {chat}]
  BY <1>2 DEF Evict, chats
<1>4. /\ ghost'.asked = ghost.asked /\ ghost'.strayed = ghost.strayed
      /\ chat \in ghost'.trimmed
  BY <1>1, <1>3 DEF GhostRecord
<1>5. \A t, k : In(t, k) <=> In(t, k)'
  BY <1>4 DEF In
<1>6. TurnInChat' /\ OpeningInChat' /\ RecordsInChat'
  BY <1>3, <1>4, <1>5, ChatParts DEF TurnInChat, Busy, OpeningInChat, RecordsInChat
<1>7. HistoryInChat'
  <2>1. agent # 0 => hist'[agent] \subseteq hist[agent]
    BY <1>1, <1>3
  <2> QED
    BY <1>3, <1>5, <2>1, ChatParts DEF HistoryInChat
<1>8. AgentHasRecord'
  BY <1>3, <1>4 DEF AgentHasRecord
<1> QED
  BY <1>6, <1>7, <1>8 DEF ChatInv, TurnInChat, HistoryInChat, OpeningInChat, RecordsInChat, AgentHasRecord

LEMMA ChatSends ==
    ASSUME ChatAssumption, TypeInv, ChatInv, SendTurn
    PROVE  ChatInv'
<1>1. PICK n \in 1 .. MaxTurns :
         /\ ghost.asked[n] = NONE
         /\ turn' = [NoTurn EXCEPT !.n = n, !.agent = agent, !.phase = "provider"]
         /\ ghost' = [ghost EXCEPT !.asked[n] = chat]
  BY DEF SendTurn
<1>2. /\ agent' = agent /\ chat' = chat /\ store' = store /\ opening' = opening /\ hist' = hist
  BY DEF SendTurn, agents, chats
<1>3. /\ ghost \in GhostRecord /\ chat \in Nat /\ agent \in 0 .. MaxAgents
      /\ hist \in [1 .. MaxAgents -> SUBSET Turns] /\ store \in [Chats -> SUBSET Turns]
      /\ (opening # NONE => opening.chat \in Nat /\ opening.turns \in SUBSET Turns)
  BY DEF TypeInv, ChatTypeOK, Chats, ChatAssumption
<1>4. /\ ghost'.strayed = ghost.strayed /\ ghost'.trimmed = ghost.trimmed
      /\ ghost'.shaken = ghost.shaken /\ ghost'.asked[n] = chat
      /\ \A t \in 1 .. MaxTurns : t # n => ghost'.asked[t] = ghost.asked[t]
  BY <1>1, <1>3 DEF GhostRecord
<1>5. ASSUME NEW t \in Turns \ {0}, NEW k \in Nat, In(t, k) PROVE In(t, k)'
  <2>1. t \in 1 .. MaxTurns
    BY DEF Turns, ChatAssumption
  <2>2. CASE t = n
    BY <1>1, <1>4, <1>5, <2>2 DEF In, ChatAssumption
  <2>3. CASE t # n
    BY <1>4, <1>5, <2>1, <2>3 DEF In
  <2> QED
    BY <2>2, <2>3
<1>6. TurnInChat'
  <2>1. turn'.n = n /\ turn'.agent = agent
    BY <1>1 DEF NoTurn
  <2> QED
    BY <1>2, <1>4, <2>1 DEF TurnInChat
<1>7. HistoryInChat'
  <2>1. agent # 0 => hist[agent] \subseteq Turns
    BY <1>3
  <2> QED
    BY <1>2, <1>3, <1>5, <2>1, ChatParts DEF HistoryInChat
<1>8. OpeningInChat'
  BY <1>2, <1>3, <1>5, ChatParts DEF OpeningInChat
<1>9. RecordsInChat'
  <2>1. \A k \in Chats : k \in Nat /\ store[k] \subseteq Turns
    BY <1>3 DEF Chats
  <2> QED
    BY <1>2, <1>5, <2>1, ChatParts DEF RecordsInChat
<1>10. AgentHasRecord'
  BY <1>2, <1>4, ChatParts DEF AgentHasRecord
<1> QED
  BY <1>6, <1>7, <1>8, <1>9, <1>10
     DEF ChatInv, TurnInChat, HistoryInChat, OpeningInChat, RecordsInChat, AgentHasRecord
\* The turn ends: its chat is saved, when the agent is there still.
LEMMA ChatEnds ==
    ASSUME ChatAssumption, TypeInv, ChatInv, End
    PROVE  ChatInv'
<1>1. /\ turn'.n = 0 /\ store' = SaveChat
      /\ agent' = agent /\ hist' = hist /\ chat' = chat /\ opening' = opening /\ ghost' = ghost
  BY DEF End, NoTurn, agents
<1>2. store \in [Chats -> SUBSET Turns] /\ chat \in Chats
  BY DEF TypeInv, ChatTypeOK, Chats, ChatAssumption
<1>3. \A t, k : In(t, k) <=> In(t, k)'
  BY <1>1 DEF In
<1>4. TurnInChat' /\ HistoryInChat' /\ OpeningInChat'
  BY <1>1, <1>3, ChatParts DEF TurnInChat, Busy, HistoryInChat, OpeningInChat
<1>5. CASE agent # 0 /\ hist[agent] # {}
  <2>1. store' = [store EXCEPT ![chat] = hist[agent]]
    BY <1>1, <1>5 DEF SaveChat
  <2>2. RecordsInChat'
    <3>1. \A k \in Chats : store'[k] = IF k = chat THEN hist[agent] ELSE store[k]
      BY <1>2, <2>1
    <3> QED
      BY <1>1, <1>3, <1>5, <3>1, ChatParts DEF RecordsInChat, HistoryInChat
  <2>3. AgentHasRecord'
    BY <1>1, <1>2, <2>1 DEF AgentHasRecord
  <2> QED
    BY <1>4, <2>2, <2>3 DEF ChatInv, TurnInChat, HistoryInChat, OpeningInChat, RecordsInChat, AgentHasRecord
<1>6. CASE ~(agent # 0 /\ hist[agent] # {})
  <2>1. store' = store
    BY <1>1, <1>6 DEF SaveChat
  <2>2. RecordsInChat' /\ AgentHasRecord'
    BY <1>1, <1>3, <2>1, ChatParts DEF RecordsInChat, AgentHasRecord
  <2> QED
    BY <1>4, <2>2 DEF ChatInv, TurnInChat, HistoryInChat, OpeningInChat, RecordsInChat, AgentHasRecord
<1> QED
  BY <1>5, <1>6

\* The panel goes elsewhere: the turn that runs is marked.
LEMMA ChatLeaves ==
    ASSUME ChatAssumption, TypeInv, turn' \in {turn, RejectCards(turn)},
           ghost'.asked = ghost.asked, ghost'.strayed = Stray(ghost).strayed
    PROVE  TurnInChat' /\ ghost.strayed \subseteq ghost'.strayed
<1>1. turn \in TurnRecord /\ ghost \in GhostRecord
  BY DEF TypeInv
<1>2. turn'.n = turn.n
  <2>1. RejectCards(turn).n = turn.n
    BY <1>1, Marks
  <2> QED
    BY <2>1
<1>3. ghost.strayed \subseteq ghost'.strayed /\ (Busy => turn.n \in ghost'.strayed)
  <2>1. ghost.strayed \subseteq Stray(ghost).strayed /\ (Busy => turn.n \in Stray(ghost).strayed)
    BY <1>1, Marks
  <2> QED
    BY <2>1
<1> QED
  BY <1>2, <1>3 DEF TurnInChat, Busy

\* The agent is gone.
LEMMA ChatAlone ==
    ASSUME ChatAssumption, TypeInv, ChatInv, NotReady \/ Disconnect
    PROVE  ChatInv'
<1>1. agent' = 0 /\ turn' = turn /\ store' = store /\ opening' = opening
  BY DEF NotReady, Disconnect, Disown, chats
<1>2. ghost'.asked = ghost.asked /\ ghost'.strayed = Stray(ghost).strayed
  BY Disowns DEF NotReady, Disconnect
<1>3. TurnInChat' /\ ghost.strayed \subseteq ghost'.strayed
  BY <1>1, <1>2, ChatLeaves
<1>4. OpeningInChat' /\ RecordsInChat'
  BY <1>1, <1>2, <1>3, StillIn, ChatParts
<1>5. HistoryInChat' /\ AgentHasRecord'
  BY <1>1 DEF HistoryInChat, AgentHasRecord
<1> QED
  BY <1>3, <1>4, <1>5 DEF ChatInv, TurnInChat, HistoryInChat, OpeningInChat, RecordsInChat, AgentHasRecord

\* An agent is built: it has no history, and the chat is marked unless it is new.
LEMMA ChatBuilds ==
    ASSUME ChatAssumption, TypeInv, ChatInv, Ready
    PROVE  ChatInv'
<1>1. hist' = hist /\ store' = store /\ chat' = chat /\ opening' = opening
  BY DEF Ready, chats
<1>2. CASE agent = 0
  <2>1. BuildAgent /\ turn' = RejectCards(turn)
    BY <1>2 DEF Ready
  <2>2. /\ agent' = agentIds + 1 /\ agentIds + 1 \in 1 .. MaxAgents
        /\ ghost'.asked = ghost.asked /\ ghost'.strayed = Stray(ghost).strayed
        /\ ghost'.shaken = IF store[chat] = {} THEN ghost.shaken ELSE ghost.shaken \cup {chat}
    BY <2>1, Builds
  <2>3. TurnInChat' /\ ghost.strayed \subseteq ghost'.strayed
    BY <2>1, <2>2, ChatLeaves
  <2>4. OpeningInChat' /\ RecordsInChat'
    BY <1>1, <2>2, <2>3, StillIn, ChatParts
  <2>5. hist'[agent'] = {}
    <3>1. agentIds \in Nat /\ hist[agentIds + 1] = {}
      BY <2>2 DEF TypeInv, ChatTypeOK, ChatAssumption
    <3> QED
      BY <1>1, <2>2, <3>1
  <2>6. HistoryInChat'
    BY <2>5 DEF HistoryInChat
  <2>7. AgentHasRecord'
    BY <1>1, <2>2 DEF AgentHasRecord
  <2> QED
    BY <2>3, <2>4, <2>6, <2>7
       DEF ChatInv, TurnInChat, HistoryInChat, OpeningInChat, RecordsInChat, AgentHasRecord
<1>3. CASE agent # 0
  BY <1>1, <1>3, ChatTurns DEF Ready
<1> QED
  BY <1>2, <1>3

\* A new chat: neither the agent nor the chat has a history; a record may be deleted.
LEMMA ChatStartsNew ==
    ASSUME ChatAssumption, TypeInv, ChatInv, StartNewChat,
           \A k \in Chats : store'[k] \in {store[k], {}}
    PROVE  ChatInv'
<1>1. /\ chat' = ids + 1 /\ ids + 1 \in Chats /\ turn' = RejectCards(turn)
      /\ ghost' = Stray(ghost) /\ agent' = agent /\ opening' = opening
      /\ \A a \in 1 .. MaxAgents : hist'[a] = IF a = agent THEN {} ELSE hist[a]
  BY StartsNew
<1>2. ghost'.asked = ghost.asked
  <2>1. turn \in TurnRecord /\ ghost \in GhostRecord
    BY DEF TypeInv
  <2>2. Stray(ghost).asked = ghost.asked
    BY <2>1, Marks
  <2> QED
    BY <1>1, <2>2
<1>3. TurnInChat' /\ ghost.strayed \subseteq ghost'.strayed
  BY <1>1, <1>2, ChatLeaves
<1>4. OpeningInChat' /\ RecordsInChat'
  <2>1. \A k \in Chats : store'[k] \subseteq store[k]
    OBVIOUS
  <2> QED
    BY <1>1, <1>2, <1>3, <2>1, StillIn, ChatParts
<1>5. agent # 0 => hist'[agent] = {}
  <2>1. agent # 0 => agent \in 1 .. MaxAgents
    BY DEF TypeInv, ChatTypeOK, ChatAssumption
  <2> QED
    BY <1>1, <2>1
<1>6. HistoryInChat'
  BY <1>1, <1>5 DEF HistoryInChat
<1>7. store'[chat'] = {}
  <2>1. store[ids + 1] = {}
    BY <1>1 DEF TypeInv, ChatTypeOK, Chats, ChatAssumption
  <2> QED
    BY <1>1, <2>1
<1>8. AgentHasRecord'
  BY <1>7 DEF AgentHasRecord
<1> QED
  BY <1>3, <1>4, <1>6, <1>8
     DEF ChatInv, TurnInChat, HistoryInChat, OpeningInChat, RecordsInChat, AgentHasRecord

LEMMA ChatDeletes ==
    ASSUME ChatAssumption, TypeInv, ChatInv, NEW k \in Chats, DeleteChat(k)
    PROVE  ChatInv'
<1>1. store' = [store EXCEPT ![k] = {}] /\ store \in [Chats -> SUBSET Turns] /\ chat \in Chats
  BY DEF DeleteChat, TypeInv, ChatTypeOK, Chats, ChatAssumption
<1>2. \A j \in Chats : store'[j] \in {store[j], {}}
  BY <1>1
<1>3. CASE k = chat
  BY <1>2, <1>3, ChatStartsNew DEF DeleteChat
<1>4. CASE k # chat
  <2>1. /\ agent' = agent /\ hist' = hist /\ chat' = chat /\ opening' = opening /\ turn' = turn
        /\ ghost' = ghost
    BY <1>4 DEF DeleteChat, agents
  <2>2. \A t, j : In(t, j) <=> In(t, j)'
    BY <2>1 DEF In
  <2>3. TurnInChat' /\ HistoryInChat' /\ OpeningInChat'
    BY <2>1, <2>2, ChatParts DEF TurnInChat, Busy, HistoryInChat, OpeningInChat
  <2>4. \A j \in Chats : store'[j] \subseteq store[j]
    BY <1>2
  <2>5. RecordsInChat'
    BY <2>2, <2>4, ChatParts DEF RecordsInChat
  <2>6. AgentHasRecord'
    BY <1>1, <2>1, <2>4, ChatParts DEF AgentHasRecord
  <2> QED
    BY <2>3, <2>5, <2>6
       DEF ChatInv, TurnInChat, HistoryInChat, OpeningInChat, RecordsInChat, AgentHasRecord
<1> QED
  BY <1>3, <1>4

LEMMA ChatReads ==
    ASSUME ChatAssumption, TypeInv, ChatInv, NEW k \in Chats, OpenChat(k)
    PROVE  ChatInv'
<1>1. /\ opening'.chat = k /\ opening'.turns = store[k] /\ store' = store
      /\ agent' = agent /\ hist' = hist /\ chat' = chat /\ turn' = turn /\ ghost' = ghost
  BY DEF OpenChat, agents
<1>2. \A t, j : In(t, j) <=> In(t, j)'
  BY <1>1 DEF In
<1>3. TurnInChat' /\ HistoryInChat' /\ RecordsInChat' /\ AgentHasRecord'
  BY <1>1, <1>2, ChatParts DEF TurnInChat, Busy, HistoryInChat, RecordsInChat, AgentHasRecord
<1>4. OpeningInChat'
  BY <1>1, <1>2, ChatParts DEF RecordsInChat, OpeningInChat
<1> QED
  BY <1>3, <1>4 DEF ChatInv, TurnInChat, HistoryInChat, OpeningInChat, RecordsInChat, AgentHasRecord

\* loadChat goes on: the agent, or the one built for it, has the record that was read;
\* the chat is marked when the record has changed since, or there is no agent.
LEMMA ChatOpens ==
    ASSUME ChatAssumption, TypeInv, ChatInv, Opened
    PROVE  ChatInv'
<1> DEFINE built == provider /\ agent = 0
           to == IF built THEN agentIds + 1 ELSE agent
           lost == to = 0 \/ opening.turns # store[opening.chat]
<1>1. /\ opening # NONE /\ opening' = NONE /\ chat' = opening.chat
      /\ (built => agentIds < MaxAgents)
      /\ agent' = to /\ hist' = IF to = 0 THEN hist ELSE [hist EXCEPT ![to] = opening.turns]
      /\ turn' \in {turn, RejectCards(turn)}
      /\ ghost' = [Stray(ghost) EXCEPT !.shaken = IF lost THEN @ \cup {opening.chat} ELSE @]
      /\ store' = store
  BY DEF Opened
<1>2. /\ turn \in TurnRecord /\ ghost \in GhostRecord /\ agent \in 0 .. MaxAgents /\ agentIds \in 0 .. MaxAgents
      /\ hist \in [1 .. MaxAgents -> SUBSET Turns] /\ opening.chat \in Nat
  BY <1>1 DEF TypeInv, ChatTypeOK, ChatAssumption
<1>3. PICK g : g = Stray(ghost)
  OBVIOUS
<1>4. g \in GhostRecord /\ g.asked = ghost.asked
  BY <1>2, <1>3, Marks
<1>5. /\ ghost'.asked = ghost.asked /\ ghost'.strayed = Stray(ghost).strayed
      /\ lost => opening.chat \in ghost'.shaken
  <2> HIDE DEF lost
  <2>1. ghost' = [g EXCEPT !.shaken = IF lost THEN g.shaken \cup {opening.chat} ELSE g.shaken]
    BY <1>1, <1>3
  <2>2. ghost'.asked = g.asked /\ ghost'.strayed = g.strayed /\ (lost => opening.chat \in ghost'.shaken)
    BY <1>4, <2>1 DEF GhostRecord
  <2> QED
    BY <1>3, <1>4, <2>2
<1>6. TurnInChat' /\ ghost.strayed \subseteq ghost'.strayed
  BY <1>1, <1>5, ChatLeaves
<1>7. OpeningInChat' /\ RecordsInChat'
  BY <1>1, <1>5, <1>6, StillIn, ChatParts
<1>8. \A t, k : In(t, k) => In(t, k)'
  BY <1>5, <1>6, StillIn
<1>9. to # 0 => hist'[to] = opening.turns
  <2>1. to # 0 => to \in 1 .. MaxAgents
    BY <1>1, <1>2 DEF ChatAssumption
  <2> QED
    BY <1>1, <1>2, <2>1
<1> HIDE DEF to
<1>10. HistoryInChat'
  BY <1>1, <1>8, <1>9, ChatParts DEF HistoryInChat, OpeningInChat
<1>11. AgentHasRecord'
  BY <1>1, <1>5, <1>9 DEF AgentHasRecord
<1> QED
  BY <1>6, <1>7, <1>10, <1>11
     DEF ChatInv, TurnInChat, HistoryInChat, OpeningInChat, RecordsInChat, AgentHasRecord

LEMMA ChatStep == ChatAssumption /\ TypeInv /\ ChatInv /\ [ChatNext]_chatVars => ChatInv'
<1> SUFFICES ASSUME ChatAssumption, TypeInv, ChatInv, [ChatNext]_chatVars PROVE ChatInv'
  OBVIOUS
<1>1. CASE \/ Load \/ Reconnect \/ ReadTarget \/ Fails \/ ModelCalls \/ ReviewRejects \/ ReviewPasses
           \/ ApproveEdit \/ Reject \/ Write \/ Refused \/ Stop \/ Type
  BY <1>1, ChatTurnStep
<1>2. CASE Ready \/ NotReady \/ Disconnect
  BY <1>2, ChatBuilds, ChatAlone
<1>3. CASE NewChat
  <2>1. \A k \in Chats : store'[k] \in {store[k], {}}
    BY <1>3 DEF NewChat
  <2> QED
    BY <1>3, <2>1, ChatStartsNew DEF NewChat
<1>4. CASE Opened
  BY <1>4, ChatOpens
<1>5. CASE \E k \in Chats : OpenChat(k) \/ DeleteChat(k)
  BY <1>5, ChatReads, ChatDeletes
<1>6. CASE SendTurn \/ BeginTurn \/ Evict \/ ModelAnswers \/ End
  BY <1>6, ChatSends, ChatSpeaks, ChatEvicts, ChatEnds
<1>7. CASE UNCHANGED chatVars
  BY <1>7, ChatTurns DEF chatVars
<1> QED
  BY <1>1, <1>2, <1>3, <1>4, <1>5, <1>6, <1>7 DEF ChatNext

-----------------------------------------------------------------------------
(* The theorems. *)

LEMMA ChatInvsHold == ASSUME ChatAssumption PROVE ChatSpec => []ChatInvs
<1>1. ChatInit => ChatInvs
  <2> SUFFICES ASSUME ChatInit PROVE ChatInvs
    OBVIOUS
  <2>1. EditInv
    BY DEF ChatInit, EditInv, Fit, Stops, NoTurn
  <2>2. ChatInv
    <3>1. turn.n = 0 /\ agent = 0 /\ opening = NONE /\ \A k \in Chats : store[k] \subseteq {0}
      BY DEF ChatInit, NoTurn
    <3> QED
      BY <3>1 DEF ChatInv, Busy
  <2> QED
    BY <2>1, <2>2, ChatTypeInit DEF ChatInvs
<1>2. ChatInvs /\ [ChatNext]_chatVars => ChatInvs'
  BY ChatTypeStep, EditStep, ChatStep DEF ChatInvs
<1> QED
  BY <1>1, <1>2, PTL DEF ChatSpec

\* Every variable of the panel, of its agent and of its saved chats stays in the
\* set of its values; a turn that runs has an agent that was built, and is in a
\* phase of handleSend.
THEOREM TypeOKHolds == ASSUME ChatAssumption PROVE ChatSpec => []ChatTypeOK
<1>1. ChatInvs => ChatTypeOK
  BY DEF ChatInvs, TypeInv
<1> QED
  BY <1>1, ChatInvsHold, PTL

\* A turn is saved in the chat it was asked in, unless the user changed the chat, or
\* the model's connection the agent, while it ran: saveChat looks at neither.
THEOREM SavedWhereAskedHolds == ASSUME ChatAssumption PROVE ChatSpec => []SavedWhereAsked
<1>1. ChatInvs => SavedWhereAsked
  BY DEF ChatInvs, ChatInv, In, SavedWhereAsked
<1> QED
  BY <1>1, ChatInvsHold, PTL

\* Once Stop has been pressed no further edit is begun and written (ai-chat.ts:640-647,
\* agent.ts:236-260), in any interleaving of the turn with the buttons, the chats and
\* the connection; unless the panel had given up the turn's agent before.
THEOREM NoEditAfterStopHolds == ASSUME ChatAssumption PROVE ChatSpec => []NoEditAfterStop
<1>1. ChatInvs => NoEditAfterStop
  <2> SUFFICES ASSUME ChatInvs, turn.phase = "write", turn.after PROVE turn.n \in ghost.orphaned
    BY DEF NoEditAfterStop
  <2>1. turn.after = TRUE
    BY DEF ChatInvs, TypeInv, TurnRecord
  <2> QED
    BY <2>1 DEF ChatInvs, EditInv, Stops
<1> QED
  BY <1>1, ChatInvsHold, PTL

\* No step takes a stroke out of the file but the writing of an edit, and that takes
\* only what was typed after the loop read the file: so an edit the user waits for,
\* reviews or approves late undoes no typing that was there when the loop read it.
THEOREM TypingSurvivesHolds == ASSUME ChatAssumption PROVE ChatSpec => TypingSurvives
<1>1. ChatInvs /\ [ChatNext]_chatVars => [text \ turn.unread \subseteq text']_chatVars
  <2> SUFFICES ASSUME ChatInvs, ChatNext PROVE text \ turn.unread \subseteq text'
    BY DEF chatVars
  <2>1. CASE Write
    BY <2>1 DEF Write, ChatInvs, EditInv, Fit
  <2>2. CASE Type
    BY <2>2 DEF Type
  <2>3. CASE Load \/ Reconnect \/ Ready \/ NotReady \/ Disconnect \/ ReadTarget
    BY <2>3 DEF Load, Reconnect, Ready, NotReady, Disconnect, ReadTarget
  <2>4. CASE NewChat \/ Opened \/ \E k \in Chats : OpenChat(k) \/ DeleteChat(k)
    BY <2>4 DEF NewChat, StartNewChat, Opened, OpenChat, DeleteChat
  <2>5. CASE SendTurn \/ BeginTurn \/ Fails \/ Evict \/ ModelAnswers \/ ModelCalls
    BY <2>5 DEF SendTurn, BeginTurn, Fails, Evict, ModelAnswers, ModelCalls
  <2>6. CASE ReviewRejects \/ ReviewPasses \/ ApproveEdit \/ Reject \/ Refused \/ End \/ Stop
    BY <2>6 DEF ReviewRejects, ReviewPasses, ApproveEdit, Reject, Refused, End, Stop
  <2> QED
    BY <2>1, <2>2, <2>3, <2>4, <2>5, <2>6 DEF ChatNext
<1>2. ChatSpec => []ChatInvs
  BY ChatInvsHold
<1> QED
  BY <1>1, <1>2, PTL DEF ChatSpec, TypingSurvives

\* A saved chat loses a turn only when the user deletes it, when the context of the
\* model was trimmed in it, or when the panel went on with it under a history that
\* is not its record: an agent built anew, a chat that changed while it was read.
THEOREM ChatKeepsItsTurnsHolds == ASSUME ChatAssumption PROVE ChatSpec => ChatKeepsItsTurns
<1> DEFINE Keeps(k) == \/ store[k] \subseteq store'[k] \/ store'[k] = {}
                       \/ k \in ghost.trimmed \cup ghost.shaken
<1>1. ChatInvs /\ [ChatNext]_chatVars => [\A k \in Chats : Keeps(k)]_chatVars
  <2> SUFFICES ASSUME ChatInvs, ChatNext, NEW k \in Chats PROVE Keeps(k)
    BY DEF chatVars
  <2>1. store \in [Chats -> SUBSET Turns]
    BY DEF ChatInvs, TypeInv, ChatTypeOK
  <2>2. CASE store' = store
    BY <2>2
  <2>3. CASE End
    <3>1. store' = SaveChat
      BY <2>3 DEF End
    <3>2. agent # 0 /\ chat \notin ghost.trimmed \cup ghost.shaken => store[chat] \subseteq hist[agent]
      BY DEF ChatInvs, ChatInv
    <3> QED
      BY <2>1, <3>1, <3>2 DEF SaveChat
  <2>4. CASE \E j \in Chats : DeleteChat(j)
    BY <2>1, <2>4 DEF DeleteChat
  <2>5. CASE Load \/ Reconnect \/ Ready \/ NotReady \/ Disconnect \/ ReadTarget
    BY <2>2, <2>5 DEF Load, Reconnect, Ready, NotReady, Disconnect, ReadTarget, chats
  <2>6. CASE NewChat \/ Opened \/ \E j \in Chats : OpenChat(j)
    BY <2>2, <2>6 DEF NewChat, Opened, OpenChat
  <2>7. CASE SendTurn \/ BeginTurn \/ Fails \/ Evict \/ ModelAnswers \/ ModelCalls
    BY <2>2, <2>7 DEF SendTurn, BeginTurn, Fails, Evict, ModelAnswers, ModelCalls, chats
  <2>8. CASE ReviewRejects \/ ReviewPasses \/ ApproveEdit \/ Reject \/ Write \/ Refused \/ Stop \/ Type
    BY <2>2, <2>8 DEF ReviewRejects, ReviewPasses, ApproveEdit, Reject, Write, Refused, Stop, Type, chats
  <2> QED
    BY <2>3, <2>4, <2>5, <2>6, <2>7, <2>8 DEF ChatNext
<1>2. ChatSpec => []ChatInvs
  BY ChatInvsHold
<1> QED
  BY <1>1, <1>2, PTL DEF ChatSpec, ChatKeepsItsTurns
=============================================================================
