------------------------------ MODULE GhostHub ------------------------------
(***************************************************************************)
(* GhostBot's hub: one desktop app lends its language model to any number  *)
(* of Playgrounds that share a room (ghostBot/src/session.ts,              *)
(* ghostBot/src/main.ts, ghostBot/src-tauri/src/{commands,inference}.rs),  *)
(* and the Playground's end of it (ai/providers/ghostbot-provider.ts,      *)
(* ghostbot-transport.ts).                                                 *)
(*                                                                         *)
(* A call <<p, k>> is the k-th stream p asks for. Its stream id is p's own *)
(* counter, so ids of different Playgrounds may be equal. At the hub a     *)
(* call has a server (runStream and its consumer of the engine's events,   *)
(* in the web view) and a task (the blocking thread that generates); the   *)
(* two start together and meet only through broadcast events that carry    *)
(* the stream id, and through one abort flag shared by all tasks.          *)
(*                                                                         *)
(* Left out: ping and pong, which repeat what auth says, model-status, the *)
(* Claude provider, which is built the same way on a flag of its own, and  *)
(* the watchdog that reopens the room: a Drop, or a GiveUp, and a Join.    *)
(***************************************************************************)
EXTENDS Naturals, Sequences

CONSTANTS Peers,        \* the Playgrounds
          FirstId,      \* nextStreamId of each one when the model begins
          MaxStreams,   \* bound: calls a Playground makes
          MaxTokens,    \* max_tokens of a call
          Stoppers,     \* bound: Playgrounds whose user presses Stop
          Admitted,     \* Playgrounds that the owner has approved before the model begins
          MaxTrouble    \* bound: joins, lost links, denials and model swaps, together

ASSUME PeersAssumption == FirstId \in [Peers -> Nat \ {0}] /\ Admitted \subseteq Peers /\ Stoppers \subseteq Peers
ASSUME BoundsAssumption == MaxStreams \in Nat /\ MaxTokens \in Nat /\ MaxTrouble \in Nat

Calls == Peers \X (1 .. MaxStreams)

Id(c) == FirstId[c[1]] + c[2] - 1

(* What the engine emits for a call: its n-th token. *)
Words == Calls \X (1 .. MaxTokens)

VARIABLES
    ready,      \* Playground: provider.ready
    reply,      \* Playground: where its stream() is: "unused", "open", "done", "failed"
    got,        \* Playground: the text a call has yielded
    stopped,    \* Playground: calls whose Stop has been pressed
    linked,     \* the data channel between a Playground and the hub is up
    toHub,      \* messages of a Playground on their way
    toPeer,     \* messages to a Playground on their way
    hub,        \* hub: peers, "gone" when it has no entry
    greeted,    \* hub: peers with a clientId
    known,      \* hub: approvedClients
    serving,    \* hub: runStream of a call: "none", "starting", "listening", "ended"
    signal,     \* hub: calls whose AbortController has fired
    task,       \* engine: "none", "starting", "waiting", "generating", "over"
    emitted,    \* engine: tokens a task has emitted
    flag,       \* engine: InferenceState.abort
    loaded,     \* engine: InferenceState.inner holds a model
    swap,       \* engine: the owner's load or unload: "none", "unloading", "loading"
    trouble,    \* bound: troubles left
    missed,     \* history: calls whose events came before anyone listened
    unnoticed,  \* history: calls open at a Playground that did not notice its lost link
    revived     \* history: halted calls whose flag a task that began has cleared

playgroundVars == <<ready, reply, got, stopped>>
wireVars == <<linked, toHub, toPeer>>
admissionVars == <<hub, greeted, known>>
serverVars == <<serving, signal>>
engineVars == <<task, emitted, flag, loaded, swap>>
historyVars == <<missed, unnoticed, revived>>
vars == <<playgroundVars, wireVars, admissionVars, serverVars, engineVars, historyVars, trouble>>

ToHub == {"hello"} \X {0} \cup {"stream", "abort"} \X (1 .. MaxStreams)

Text(c, w) == [kind |-> "text", id |-> Id(c), word |-> w]
Ends(C) == [kind |-> "end", ids |-> {Id(c) : c \in C}]
Error(c) == [kind |-> "error", ids |-> {Id(c)}]
Auth(s) == [kind |-> "auth", status |-> s]

Ids == {Id(c) : c \in Calls}
ToPeer == [kind : {"text"}, id : Ids, word : Words] \cup [kind : {"end", "error"}, ids : SUBSET Ids]
              \cup [kind : {"auth"}, status : {"approved", "pending", "denied"}]

(* The types, by where the state lives. *)
PlaygroundOK ==
    /\ ready \in [Peers -> BOOLEAN]
    /\ reply \in [Calls -> {"unused", "open", "done", "failed"}]
    /\ got \in [Calls -> Seq(Words)]
    /\ stopped \subseteq Calls

WireOK ==
    /\ linked \in [Peers -> BOOLEAN]
    /\ toHub \in [Peers -> Seq(ToHub)]
    /\ toPeer \in [Peers -> Seq(ToPeer)]

AdmissionOK ==
    /\ hub \in [Peers -> {"gone", "pending", "approved"}]
    /\ greeted \subseteq Peers
    /\ known \subseteq Peers

ServerOK ==
    /\ serving \in [Calls -> {"none", "starting", "listening", "ended"}]
    /\ signal \subseteq Calls

EngineOK ==
    /\ task \in [Calls -> {"none", "starting", "waiting", "generating", "over"}]
    /\ emitted \in [Calls -> 0 .. MaxTokens]
    /\ flag \in BOOLEAN
    /\ loaded \in BOOLEAN
    /\ swap \in {"none", "unloading", "loading"}

HistoryOK ==
    /\ missed \subseteq Calls /\ unnoticed \subseteq Calls /\ revived \subseteq Calls

TypeOK ==
    /\ PlaygroundOK /\ WireOK /\ AdmissionOK /\ ServerOK /\ EngineOK /\ HistoryOK
    /\ trouble \in 0 .. MaxTrouble

Init ==
    /\ ready = [p \in Peers |-> p \in Admitted]
    /\ reply = [c \in Calls |-> "unused"]
    /\ got = [c \in Calls |-> <<>>]
    /\ stopped = {}
    /\ linked = [p \in Peers |-> p \in Admitted]
    /\ toHub = [p \in Peers |-> <<>>]
    /\ toPeer = [p \in Peers |-> <<>>]
    /\ hub = [p \in Peers |-> IF p \in Admitted THEN "approved" ELSE "gone"]
    /\ greeted = Admitted /\ known = Admitted
    /\ serving = [c \in Calls |-> "none"]
    /\ signal = {}
    /\ task = [c \in Calls |-> "none"]
    /\ emitted = [c \in Calls |-> 0]
    /\ flag = FALSE /\ loaded = TRUE /\ swap = "none"
    /\ trouble = MaxTrouble
    /\ missed = {} /\ unnoticed = {} /\ revived = {}

-----------------------------------------------------------------------------
(* What the steps have in common. *)

Of(p) == {p} \X (1 .. MaxStreams)

(* The messages reach[p] go out to every p that is linked. *)
Send(reach) == toPeer' = [p \in Peers |-> IF linked[p] THEN toPeer[p] \o reach[p] ELSE toPeer[p]]

Only(p, msgs) == [q \in Peers |-> IF q = p THEN msgs ELSE <<>>]

(* stream-end of these calls of one peer. *)
Closing(C) == IF C = {} THEN <<>> ELSE <<Ends(C)>>

Listening(C) == {c \in C : serving[c] = "listening"}

(* The AbortControllers of these calls fire: a server whose consumer       *)
(* listens ends, and tells the engine to stop, whichever call it is at.    *)
Abort(C) ==
    /\ signal' = signal \cup {c \in C : serving[c] \in {"starting", "listening"}}
    /\ serving' = [c \in Calls |-> IF c \in Listening(C) THEN "ended" ELSE serving[c]]
    /\ flag' = (flag \/ Listening(C) # {})

(* The open streams of a Playground see a status other than connected. *)
Lose(p) ==
    /\ ready' = [ready EXCEPT ![p] = FALSE]
    /\ reply' = [c \in Calls |-> IF c \in Of(p) /\ reply[c] = "open" THEN "failed" ELSE reply[c]]

(* A message to the hub: it gets nowhere when the link has been lost. *)
Tell(p, m) == toHub' = IF linked[p] THEN [toHub EXCEPT ![p] = Append(@, m)] ELSE toHub

\* Mutant of Hearers: no filter by id.
HearersOfAny(c) == Listening(Calls)

(* The servers that hear the engine's events for c: they filter by id. *)
Hearers(c) == {d \in Listening(Calls) : Id(d) = Id(c)}

Miss(c) == missed' = IF serving[c] = "starting" THEN missed \cup {c} ELSE missed

(* Each of them passes it on under its own request's id. *)
Pass(c, msg) ==
    Send([p \in Peers |-> IF Hearers(c) \cap Of(p) = {} THEN <<>>
                          ELSE <<msg[CHOOSE d \in Hearers(c) \cap Of(p) : TRUE]>>])

(* done or error: who hears it ends, with stream-end or stream-error. *)
Conclude(c, msg) ==
    /\ task' = [task EXCEPT ![c] = "over"]
    /\ serving' = [d \in Calls |-> IF d \in Hearers(c) THEN "ended" ELSE serving[d]]
    /\ Pass(c, msg)
    /\ Miss(c)

Halted(c) == c \in signal /\ serving[c] = "ended"
Working(c) == task[c] \in {"starting", "waiting", "generating"}
Unlocked == \A c \in Calls : task[c] # "generating"

-----------------------------------------------------------------------------
(* The room. *)

(* The hub and a Playground pair up: it introduces itself, and so do the   *)
(* others, who see a peer join too.                                        *)
Join(p) ==
    /\ ~linked[p] /\ trouble > 0
    /\ linked' = [linked EXCEPT ![p] = TRUE]
    /\ hub' = [hub EXCEPT ![p] = "pending"]
    /\ greeted' = greeted \ {p}
    /\ toHub' = [q \in Peers |-> IF linked'[q] THEN Append(toHub[q], <<"hello", 0>>) ELSE toHub[q]]
    /\ trouble' = trouble - 1
    /\ UNCHANGED <<playgroundVars, toPeer, known, serverVars, engineVars, historyVars>>

(* A Playground and the hub lose each other. The hub cleans up. The        *)
(* Playground gives up its streams if its peerId is the hub's, or if it was *)
(* the one that left; but peerId is whoever it heard or saw join last, and  *)
(* when that is another Playground it notices nothing: it stays ready, and  *)
(* its streams stay open.                                                  *)
Drop(p) ==
    /\ linked[p] /\ trouble > 0
    /\ linked' = [linked EXCEPT ![p] = FALSE]
    /\ toHub' = [toHub EXCEPT ![p] = <<>>]
    /\ toPeer' = [toPeer EXCEPT ![p] = <<>>]
    /\ hub' = [hub EXCEPT ![p] = "gone"]
    /\ Abort(IF hub[p] = "gone" THEN {} ELSE Of(p))
    /\ \/ Lose(p) /\ UNCHANGED unnoticed
       \/ /\ Peers # {p} /\ UNCHANGED <<ready, reply>>
          /\ unnoticed' = unnoticed \cup {c \in Of(p) : reply[c] = "open"}
    /\ trouble' = trouble - 1
    /\ UNCHANGED <<got, stopped, greeted, known, task, emitted, loaded, swap, missed, revived>>

(* A Playground gives up although its link to the hub is as it was: the     *)
(* Playground that it heard last leaves, or it has not noticed that it lost *)
(* the hub and reopens its room. The hub learns nothing.                   *)
GiveUp(p) ==
    /\ trouble > 0
    /\ Peers # {p} \/ ~linked[p]
    /\ Lose(p)
    /\ trouble' = trouble - 1
    /\ UNCHANGED <<got, stopped, wireVars, admissionVars, serverVars, engineVars, historyVars>>

-----------------------------------------------------------------------------
(* The Playground. *)

Ask(p) ==
    /\ ready[p]
    /\ \A c \in Of(p) : reply[c] # "open"
    /\ \E k \in 1 .. MaxStreams :
         /\ \A j \in 1 .. MaxStreams : reply[<<p, j>>] = "unused" <=> j >= k
         /\ reply' = [reply EXCEPT ![<<p, k>>] = "open"]
         /\ Tell(p, <<"stream", k>>)
    /\ UNCHANGED <<ready, got, stopped, linked, toPeer, admissionVars, serverVars, engineVars, historyVars, trouble>>

PressStop(c) ==
    /\ reply[c] = "open" /\ c \notin stopped /\ c[1] \in Stoppers
    /\ stopped' = stopped \cup {c}
    /\ Tell(c[1], <<"abort", c[2]>>)
    /\ UNCHANGED <<ready, reply, got, linked, toPeer, admissionVars, serverVars, engineVars, historyVars, trouble>>

Received(p) ==
    /\ toPeer[p] # <<>>
    /\ toPeer' = [toPeer EXCEPT ![p] = Tail(@)]

TakeAuth(p) ==
    /\ Received(p) /\ Head(toPeer[p]).kind = "auth"
    /\ ready' = [ready EXCEPT ![p] = Head(toPeer[p]).status = "approved"]
    /\ UNCHANGED <<reply, got, stopped, linked, toHub, admissionVars, serverVars, engineVars, historyVars, trouble>>

\* Mutant of TakeText: the stream unsubscribes when Stop is pressed.
TakeTextUnlessStopped(p) ==
    /\ Received(p) /\ Head(toPeer[p]).kind = "text"
    /\ LET m == Head(toPeer[p])
       IN  got' = [c \in Calls |-> IF c \in Of(p) \ stopped /\ Id(c) = m.id /\ reply[c] = "open"
                                   THEN Append(got[c], m.word) ELSE got[c]]
    /\ UNCHANGED <<ready, reply, stopped, linked, toHub, admissionVars, serverVars, engineVars, historyVars, trouble>>

(* Text reaches the stream() that waits for its id, if one still does. *)
TakeText(p) ==
    /\ Received(p) /\ Head(toPeer[p]).kind = "text"
    /\ LET m == Head(toPeer[p])
       IN  got' = [c \in Calls |-> IF c \in Of(p) /\ Id(c) = m.id /\ reply[c] = "open"
                                   THEN Append(got[c], m.word) ELSE got[c]]
    /\ UNCHANGED <<ready, reply, stopped, linked, toHub, admissionVars, serverVars, engineVars, historyVars, trouble>>

(* So do stream-end and stream-error, which end it. *)
TakeEnd(p) ==
    /\ Received(p) /\ Head(toPeer[p]).kind \in {"end", "error"}
    /\ LET m == Head(toPeer[p])
       IN  reply' = [c \in Calls |-> IF c \in Of(p) /\ Id(c) \in m.ids /\ reply[c] = "open"
                                     THEN (IF m.kind = "end" THEN "done" ELSE "failed") ELSE reply[c]]
    /\ UNCHANGED <<ready, got, stopped, linked, toHub, admissionVars, serverVars, engineVars, historyVars, trouble>>

-----------------------------------------------------------------------------
(* The hub. *)

Approve(p) ==
    /\ hub[p] = "pending"
    /\ hub' = [hub EXCEPT ![p] = "approved"]
    /\ known' = known \cup ({p} \cap greeted)
    /\ Send(Only(p, <<Auth("approved")>>))
    /\ UNCHANGED <<playgroundVars, linked, toHub, greeted, serverVars, engineVars, historyVars, trouble>>

\* Mutant of Dismiss: the peer's streams are left alone.
DismissOnly(p) ==
    /\ hub[p] # "gone" /\ trouble > 0
    /\ hub' = [hub EXCEPT ![p] = "gone"]
    /\ known' = IF hub[p] = "approved" /\ p \in greeted THEN known \ {p} ELSE known
    /\ Send(Only(p, <<Auth("denied")>>))
    /\ trouble' = trouble - 1
    /\ UNCHANGED <<playgroundVars, linked, toHub, greeted, serverVars, engineVars, historyVars>>

(* Deny and Disconnect: only the second forgets the client. *)
Dismiss(p) ==
    /\ hub[p] # "gone" /\ trouble > 0
    /\ hub' = [hub EXCEPT ![p] = "gone"]
    /\ known' = IF hub[p] = "approved" /\ p \in greeted THEN known \ {p} ELSE known
    /\ Abort(Of(p))
    /\ Send(Only(p, <<Auth("denied")>> \o Closing(Listening(Of(p)))))
    /\ trouble' = trouble - 1
    /\ UNCHANGED <<playgroundVars, linked, toHub, greeted, task, emitted, loaded, swap, historyVars>>

Arrived(p, kind) ==
    /\ toHub[p] # <<>> /\ Head(toHub[p])[1] = kind
    /\ toHub' = [toHub EXCEPT ![p] = Tail(@)]

(* handleHello: a known client is accepted; another one is told to wait,   *)
(* even one that the owner approved before its hello came.                 *)
Hello(p) ==
    /\ Arrived(p, "hello") /\ hub[p] # "gone"
    /\ greeted' = greeted \cup {p}
    /\ hub' = [hub EXCEPT ![p] = IF p \in known THEN "approved" ELSE @]
    /\ Send(Only(p, <<Auth(IF p \in known THEN "approved" ELSE "pending")>>))
    /\ UNCHANGED <<playgroundVars, linked, known, serverVars, engineVars, historyVars, trouble>>

(* A message of a peer the hub has no entry for, or has not approved. *)
Refuse(p) ==
    /\ \/ hub[p] = "gone" /\ \E kind \in {"hello", "stream", "abort"} : Arrived(p, kind)
       \/ hub[p] = "pending" /\ \E kind \in {"stream", "abort"} : Arrived(p, kind)
    /\ Send(Only(p, IF hub[p] = "gone" THEN <<>> ELSE <<Auth("pending")>>))
    /\ UNCHANGED <<playgroundVars, linked, admissionVars, serverVars, engineVars, historyVars, trouble>>

(* runStream, up to the start of the task. *)
Serve(p) ==
    /\ Arrived(p, "stream") /\ hub[p] = "approved"
    /\ LET c == <<p, Head(toHub[p])[2]>>
       IN  /\ serving' = [serving EXCEPT ![c] = "starting"]
           /\ task' = [task EXCEPT ![c] = "starting"]
    /\ UNCHANGED <<playgroundVars, linked, toPeer, admissionVars, signal, emitted, flag, loaded, swap, historyVars, trouble>>

\* Mutant of TakeAbort: a stopped server sends no stream-end.
TakeAbortSilently(p) ==
    /\ Arrived(p, "abort") /\ hub[p] = "approved"
    /\ Abort({<<p, Head(toHub[p])[2]>>})
    /\ UNCHANGED <<playgroundVars, linked, toPeer, admissionVars, task, emitted, loaded, swap, historyVars, trouble>>

TakeAbort(p) ==
    /\ Arrived(p, "abort") /\ hub[p] = "approved"
    /\ LET C == {<<p, Head(toHub[p])[2]>>}
       IN  Abort(C) /\ Send(Only(p, Closing(Listening(C))))
    /\ UNCHANGED <<playgroundVars, linked, admissionVars, task, emitted, loaded, swap, historyVars, trouble>>

\* Mutant of Listen: the engine is not told of a signal that has already fired.
ListenRegardless(c) ==
    /\ serving[c] = "starting"
    /\ serving' = [serving EXCEPT ![c] = IF c \in signal THEN "ended" ELSE "listening"]
    /\ Send(Only(c[1], Closing({c} \cap signal)))
    /\ UNCHANGED <<playgroundVars, linked, toHub, admissionVars, signal, task, emitted, flag, loaded, swap, historyVars, trouble>>

(* start_stream has returned, and the consumer's listener is registered:   *)
(* a signal that has fired meanwhile is seen now.                          *)
Listen(c) ==
    /\ serving[c] = "starting"
    /\ serving' = [serving EXCEPT ![c] = IF c \in signal THEN "ended" ELSE "listening"]
    /\ flag' = (flag \/ c \in signal)
    /\ Send(Only(c[1], Closing({c} \cap signal)))
    /\ UNCHANGED <<playgroundVars, linked, toHub, admissionVars, signal, task, emitted, loaded, swap, historyVars, trouble>>

-----------------------------------------------------------------------------
(* The engine. An event reaches the servers that listen, and passes from   *)
(* them to their Playgrounds, before the web view does anything else.      *)

(* The blocking thread runs: stream() begins with clear_abort. *)
Begin(c) ==
    /\ task[c] = "starting"
    /\ task' = [task EXCEPT ![c] = "waiting"]
    /\ flag' = FALSE
    /\ revived' = revived \cup {d \in Calls : Halted(d) /\ Working(d)}
    /\ UNCHANGED <<playgroundVars, wireVars, admissionVars, serverVars, emitted, loaded, swap, missed, unnoticed, trouble>>

(* It gets the lock, and the prompt is decoded. *)
Enter(c) ==
    /\ task[c] = "waiting" /\ Unlocked /\ loaded
    /\ task' = [task EXCEPT ![c] = "generating"]
    /\ UNCHANGED <<playgroundVars, wireVars, admissionVars, serverVars, emitted, flag, loaded, swap, historyVars, trouble>>

(* No model is loaded, or the prompt or a token cannot be decoded. *)
Fault(c) ==
    /\ \/ task[c] = "waiting" /\ Unlocked /\ ~loaded
       \/ task[c] = "generating"
    /\ Conclude(c, [d \in Calls |-> Error(d)])
    /\ UNCHANGED <<playgroundVars, linked, toHub, admissionVars, signal, emitted, flag, loaded, swap, unnoticed, revived, trouble>>

\* Mutant of Token: one too many.
TokenTooMany(c) ==
    /\ task[c] = "generating" /\ ~flag /\ emitted[c] <= MaxTokens
    /\ emitted' = [emitted EXCEPT ![c] = @ + 1]
    /\ Pass(c, [d \in Calls |-> Text(d, <<c, emitted[c] + 1>>)])
    /\ Miss(c)
    /\ UNCHANGED <<playgroundVars, linked, toHub, admissionVars, serverVars, task, flag, loaded, swap, unnoticed, revived, trouble>>

(* One turn of the loop that samples: the flag is looked at first. *)
Token(c) ==
    /\ task[c] = "generating" /\ ~flag /\ emitted[c] < MaxTokens
    /\ emitted' = [emitted EXCEPT ![c] = @ + 1]
    /\ Pass(c, [d \in Calls |-> Text(d, <<c, emitted[c] + 1>>)])
    /\ Miss(c)
    /\ UNCHANGED <<playgroundVars, linked, toHub, admissionVars, serverVars, task, flag, loaded, swap, unnoticed, revived, trouble>>

(* The flag, the end of the reply or max_tokens ends it: done in any case. *)
Finish(c) ==
    /\ task[c] = "generating"
    /\ Conclude(c, [d \in Calls |-> Ends({d})])
    /\ UNCHANGED <<playgroundVars, linked, toHub, admissionVars, signal, emitted, flag, loaded, swap, unnoticed, revived, trouble>>

(* The owner unloads the model, or loads another one: unload() comes first. *)
Unload ==
    /\ swap = "none" /\ trouble > 0
    /\ swap' = "unloading"
    /\ flag' = TRUE
    /\ trouble' = trouble - 1
    /\ UNCHANGED <<playgroundVars, wireVars, admissionVars, serverVars, task, emitted, loaded, historyVars>>

Unloaded ==
    /\ swap = "unloading" /\ Unlocked
    /\ loaded' = FALSE
    /\ swap' \in {"none", "loading"}
    /\ UNCHANGED <<playgroundVars, wireVars, admissionVars, serverVars, task, emitted, flag, historyVars, trouble>>

Install ==
    /\ swap = "loading" /\ Unlocked
    /\ loaded' \in BOOLEAN
    /\ swap' = "none"
    /\ UNCHANGED <<playgroundVars, wireVars, admissionVars, serverVars, task, emitted, flag, historyVars, trouble>>

-----------------------------------------------------------------------------
Playground(p) == Ask(p) \/ GiveUp(p) \/ TakeAuth(p) \/ TakeText(p) \/ TakeEnd(p) \/ \E c \in Of(p) : PressStop(c)

Receive(p) == Hello(p) \/ Refuse(p) \/ Serve(p) \/ TakeAbort(p)

Task(c) == Begin(c) \/ Enter(c) \/ Fault(c) \/ Token(c) \/ Finish(c)

Owner == Unload \/ Unloaded \/ Install \/ \E p \in Peers : Approve(p) \/ Dismiss(p)

Next ==
    \/ \E p \in Peers : Join(p) \/ Drop(p) \/ Playground(p) \/ Receive(p)
    \/ \E c \in Calls : Listen(c) \/ Task(c)
    \/ Owner

Spec == Init /\ [][Next]_vars

-----------------------------------------------------------------------------
(* One Playground never sees another's tokens (session.ts:4-6): whatever a *)
(* stream yields was generated for that very call.                         *)
TokensReachTheirRequester ==
    \A c \in Calls : \A i \in DOMAIN got[c] : got[c][i][1] = c

(* A reply that ends normally is all the engine generated, in order, when  *)
(* nobody stopped it and the consumer was there from the first event on,   *)
(* even if the engine was interrupted on somebody else's account.          *)
ReplyIsWhole ==
    \A c \in Calls :
        (reply[c] = "done" /\ c \notin signal \cup missed)
            => got[c] = [i \in 1 .. emitted[c] |-> <<c, i>>]

(* Breaking the loop is not enough (main.ts:694-697): once the server of a *)
(* call has been halted, the engine is told to stop, however early the     *)
(* stop came, unless a task that begins afterwards clears the flag.        *)
StopReachesEngine ==
    \A c \in Calls : (Halted(c) /\ Working(c)) => (flag \/ c \in revived)

(* No text is sent to a Playground that the owner has denied or             *)
(* disconnected, whatever its calls had under way.                         *)
NoTextUnlessApproved ==
    [][\A p \in Peers :
        (Len(toPeer'[p]) > Len(toPeer[p]) /\ toPeer'[p][Len(toPeer'[p])].kind = "text") => hub[p] = "approved"]_vars

(* Nobody waits for nothing: while a stream is open whose server listened  *)
(* in time, the engine is still at work for it or its end is on the way;   *)
(* unless its Playground lost the hub without noticing                     *)
(* (ghostbot-transport.ts:113): such a stream stays open for good.         *)
NoStreamForgotten ==
    \A c \in Calls :
        (reply[c] = "open" /\ serving[c] \in {"listening", "ended"} /\ c \notin missed \cup unnoticed)
            => \/ serving[c] = "listening" /\ Working(c)
               \/ \E i \in DOMAIN toPeer[c[1]] :
                     LET m == toPeer[c[1]][i]
                     IN  m.kind \in {"end", "error"} /\ Id(c) \in m.ids

=============
