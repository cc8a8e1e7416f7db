----------------------------- MODULE AgentChat -----------------------------
(***************************************************************************)
(* The AI chat panel of a Playground (ai-chat.ts) with the agent it builds *)
(* for the loaded model: the tool loop of ai/agent.ts or the decision tree *)
(* of ai/loop/grammar-agent.ts.  One turn runs at a time, and awaits the    *)
(* provider, the model, the review, the user's approval and the write; the  *)
(* panel's buttons, the saved chats and the connection to the model go on   *)
(* meanwhile.                                                               *)
(*                                                                         *)
(* A history is the set of the turns it has messages of.  The text is that  *)
(* of the one file the agent edits: the user's strokes in it.  The model is *)
(* external: what it answers is chosen freely.  Left out: prompts, plans,   *)
(* retrieval, read-only tools, imports and what is shown.                   *)
(***************************************************************************)
EXTENDS Naturals, FiniteSets

CONSTANTS Saved,      \* chats saved by an earlier visit: 1..Saved
          Loops,      \* the loops in use: "tools" (agent.ts), "grammar" (grammar-agent.ts)
          MaxChats,   \* bound: chats
          MaxAgents,  \* bound: agents built
          MaxTurns,   \* bound: messages sent
          MaxCalls,   \* bound: edits the model asks for in one turn
          MaxTyped,   \* bound: strokes of the user in the file
          NONE

\* What the constants must be: there is room for the first new chat, and "no chat" is
\* none.  MCWorkbench assumes it.
ChatAssumption ==
    /\ Saved \in Nat /\ MaxChats \in Nat /\ Saved < MaxChats /\ MaxAgents \in Nat
    /\ MaxTurns \in Nat /\ MaxCalls \in Nat /\ MaxTyped \in Nat /\ NONE \notin Nat

VARIABLES
    engine,    \* engineStatus, "error" counted as "idle"; "again": loading, by reconnectGhostBot
    provider,  \* provider # null
    agent,     \* the panel's agent; 0 is null
    agentIds,  \* agents built so far
    hist,      \* history of each agent
    chat,      \* activeChatId
    ids,       \* chat ids given out
    store,     \* the saved records
    opening,   \* loadChat in flight: the chat, and the record read
    loop,      \* the loop that buildAgent chooses
    turn,      \* the turn that runs; n = 0: not generating
    text,      \* the file
    ghost      \* history variable of the properties

chatVars == <<engine, provider, agent, agentIds, hist, chat, ids, store, opening,
              loop, turn, text, ghost>>
llm == <<engine, provider>>
agents == <<agent, agentIds, hist>>
chats == <<chat, ids, store, opening>>

Chats == 1..MaxChats

Turns == 0..MaxTurns

\* stopped: Stop has been pressed; aborted: it reached the turn's own agent; after: its
\* edit was begun when Stop had been pressed; base: what the edit is made of; unread: the
\* strokes made since that was read.
NoTurn == [n |-> 0, agent |-> 0, phase |-> "none", stopped |-> FALSE, aborted |-> FALSE,
           after |-> FALSE, calls |-> 0, base |-> {}, unread |-> {}]

\* asked: the chat a turn was asked in; strayed: turns during which the chat or the
\* agent was changed; orphaned: turns whose agent the panel gave up before Stop was
\* pressed; shaken: chats the panel went on with under another history;
\* trimmed: chats whose oldest turns were evicted from the model's context.
ChatInit ==
    /\ engine = "idle" /\ provider = FALSE
    /\ agent = 0 /\ agentIds = 0 /\ hist = [a \in 1..MaxAgents |-> {}]
    /\ chat = Saved + 1 /\ ids = Saved + 1
    /\ store = [k \in Chats |-> IF k <= Saved THEN {0} ELSE {}]
    /\ opening = NONE /\ loop \in Loops
    /\ turn = NoTurn /\ text = {}
    /\ ghost = [asked |-> [t \in 1..MaxTurns |-> NONE], strayed |-> {}, orphaned |-> {},
               shaken |-> {}, trimmed |-> {}]

Busy == turn.n # 0
Stray(g) == IF Busy THEN [g EXCEPT !.strayed = @ \cup {turn.n}] ELSE g

\* The panel forgets its agent; the turn that runs goes on with it.
Disown ==
    /\ agent' = 0
    /\ ghost' = [Stray(ghost) EXCEPT !.orphaned = IF Busy /\ ~turn.stopped THEN @ \cup {turn.n} ELSE @]

\* rejectPendingDiffs: whoever awaits a card is told that the user rejected.
RejectCards(t) == IF t.phase = "card" THEN [t EXCEPT !.phase = "rejected"] ELSE t

\* buildAgent: an agent of its own, with no history.
BuildAgent ==
    /\ agentIds < MaxAgents
    /\ agentIds' = agentIds + 1 /\ agent' = agentIds + 1
    /\ ghost' = [Stray(ghost) EXCEPT !.shaken = IF store[chat] = {} THEN @ ELSE @ \cup {chat}]

-----------------------------------------------------------------------------
(* The model and the connection to it.                                     *)

\* loadSelectedProvider, up to its await
Load ==
    /\ engine = "idle" /\ engine' = "loading" /\ provider' = TRUE
    /\ UNCHANGED <<agents, chats, loop, turn, text, ghost>>

\* reconnectGhostBot, up to its await
Reconnect ==
    /\ provider /\ engine \in {"idle", "ready"} /\ engine' = "again"
    /\ UNCHANGED <<provider, agents, chats, loop, turn, text, ghost>>

\* notifyStatus("ready"), onEngineStatusChange: an agent, unless one is bound.
Ready ==
    /\ engine \in {"loading", "again"} /\ engine' = "ready"
    /\ IF agent = 0 THEN BuildAgent /\ turn' = RejectCards(turn)
                    ELSE UNCHANGED <<agent, agentIds, turn, ghost>>
    /\ UNCHANGED <<provider, hist, chats, loop, text>>

\* Loading or reconnecting failed; only the first forgets the provider.
NotReady ==
    /\ engine \in {"loading", "again"} /\ engine' = "idle"
    /\ provider' = (engine = "again")
    /\ Disown
    /\ UNCHANGED <<agentIds, hist, chats, loop, turn, text>>

\* stopGhostBotSession; a loading that waits is cancelled with it.
Disconnect ==
    /\ provider /\ provider' = FALSE /\ engine' = "idle"
    /\ Disown
    /\ UNCHANGED <<agentIds, hist, chats, loop, turn, text>>

-----------------------------------------------------------------------------
(* The chats.                                                              *)

\* saveChat: the history of the agent that is there now, under the chat shown now.
SaveChat == IF agent # 0 /\ hist[agent] # {} THEN [store EXCEPT ![chat] = hist[agent]] ELSE store

\* Mutant of StartNewChat: the agent keeps its history.
StartNewKept ==
    /\ ids < MaxChats /\ ids' = ids + 1 /\ chat' = ids + 1
    /\ turn' = RejectCards(turn) /\ ghost' = Stray(ghost)
    /\ UNCHANGED <<llm, agents, opening, loop, text>>

\* startNewChat
StartNewChat ==
    /\ ids < MaxChats /\ ids' = ids + 1 /\ chat' = ids + 1
    /\ turn' = RejectCards(turn) /\ ghost' = Stray(ghost)
    /\ hist' = IF agent = 0 THEN hist ELSE [hist EXCEPT ![agent] = {}]
    /\ UNCHANGED <<llm, agent, agentIds, opening, loop, text>>

\* "New chat" of the history menu (also while a turn runs), /clear
NewChat == StartNewChat /\ UNCHANGED store

\* A row of the history menu: the record is read, and loadChat goes on later.
OpenChat(k) ==
    /\ store[k] # {} /\ opening = NONE
    /\ opening' = [chat |-> k, turns |-> store[k]]
    /\ UNCHANGED <<llm, agents, chat, ids, store, loop, turn, text, ghost>>

\* Mutant of Opened: the record is shown, and the agent is not given it.
OpenedShown ==
    /\ opening # NONE /\ opening' = NONE
    /\ chat' = opening.chat
    /\ UNCHANGED <<llm, agents, ids, store, loop, turn, text>>
    /\ ghost' = Stray(ghost)

\* The rest of loadChat; ensureAgent builds an agent while a model loads, none before.
Opened ==
    /\ opening # NONE /\ opening' = NONE
    /\ chat' = opening.chat
    /\ LET built == provider /\ agent = 0
           to == IF built THEN agentIds + 1 ELSE agent
           lost == to = 0 \/ opening.turns # store[opening.chat]
       IN  /\ built => agentIds < MaxAgents
           /\ agent' = to /\ agentIds' = IF built THEN to ELSE agentIds
           /\ hist' = IF to = 0 THEN hist ELSE [hist EXCEPT ![to] = opening.turns]
           /\ turn' = IF built THEN RejectCards(turn) ELSE turn
           /\ ghost' = [Stray(ghost) EXCEPT !.shaken = IF lost THEN @ \cup {opening.chat} ELSE @]
    /\ UNCHANGED <<llm, ids, store, loop, text>>

\* The cross of a row: the chat that is shown gives way to a new one.
DeleteChat(k) ==
    /\ store[k] # {} /\ store' = [store EXCEPT ![k] = {}]
    /\ IF k = chat THEN StartNewChat
                   ELSE UNCHANGED <<llm, agents, chat, ids, opening, loop, turn, text, ghost>>

-----------------------------------------------------------------------------
(* A turn.                                                                 *)

\* handleSend, up to agent.send's await of the provider
SendTurn ==
    /\ ~Busy /\ engine = "ready" /\ agent # 0
    /\ \E n \in 1..MaxTurns :
         /\ ghost.asked[n] = NONE /\ (n > 1 => ghost.asked[n - 1] # NONE)
         /\ turn' = [NoTurn EXCEPT !.n = n, !.agent = agent, !.phase = "provider"]
         /\ ghost' = [ghost EXCEPT !.asked[n] = chat]
    /\ UNCHANGED <<llm, agents, chats, loop, text>>

\* agent.send: the user's message enters the history.  The grammar loop asks the model
\* first what kind of request it is.
BeginTurn ==
    /\ turn.phase = "provider"
    /\ hist' = [hist EXCEPT ![turn.agent] = @ \cup {turn.n}]
    /\ turn' = [turn EXCEPT !.phase = IF loop = "tools" THEN "model" ELSE "classify"]
    /\ UNCHANGED <<llm, agent, agentIds, chats, loop, text, ghost>>

\* editOrDebug: a request to change code; the file that will be rewritten is read now,
\* before the model is asked for the program.
ReadTarget ==
    /\ turn.phase = "classify"
    /\ turn' = [turn EXCEPT !.phase = "model", !.base = text, !.unread = {}]
    /\ UNCHANGED <<llm, agents, chats, loop, text, ghost>>

\* ensureReady throws; so may a stream.  The turn is over, without an answer.
Fails ==
    /\ turn.phase \in {"provider", "classify", "model"}
    /\ turn' = [turn EXCEPT !.phase = "done"]
    /\ UNCHANGED <<llm, agents, chats, loop, text, ghost>>

\* evictToBudget: before the tool loop asks the model, old turns may be folded away.
Evict ==
    /\ loop = "tools" /\ turn.phase = "model" /\ hist[turn.agent] \notin SUBSET {turn.n}
    /\ hist' = [hist EXCEPT ![turn.agent] = @ \cap {turn.n}]
    /\ ghost' = [ghost EXCEPT !.trimmed = @ \cup {chat}]
    /\ UNCHANGED <<llm, agent, agentIds, chats, loop, turn, text>>

\* The answer of the turn (from "classify": to a request that changes no file), or what
\* was streamed when Stop ended the stream
ModelAnswers ==
    /\ turn.phase \in {"classify", "model"}
    /\ hist' = [hist EXCEPT ![turn.agent] = @ \cup {turn.n}]
    /\ turn' = [turn EXCEPT !.phase = "done"]
    /\ UNCHANGED <<llm, agent, agentIds, chats, loop, text, ghost>>

\* Mutant of ApplyEdit: Stop is not looked at, as in a tool given no signal.
ApplyUnasked(t) ==
    [t EXCEPT !.phase = "review", !.calls = @ + 1, !.after = t.stopped,
              !.base = IF loop = "tools" THEN text ELSE @,
              !.unread = IF loop = "tools" THEN {} ELSE @]

\* Mutant of ApplyEdit: the tool loop, too, edits what was there when the turn began.
ApplyStale(t) ==
    IF ~t.aborted THEN [t EXCEPT !.phase = "review", !.calls = @ + 1, !.after = t.stopped,
                                 !.unread = IF loop = "tools" THEN {} ELSE @]
    ELSE [t EXCEPT !.phase = "rejected"]

\* An edit begins: apply_edit of the tool loop up to its review, which looks at Stop
\* once it has read the file; runTool of the grammar loop, which looks at Stop, and whose
\* apply_edit, given no signal, brings a whole program in place of the lines read before.
ApplyEdit(t) ==
    IF ~t.aborted
    THEN [t EXCEPT !.phase = "review", !.calls = @ + 1, !.after = t.stopped,
                   !.base = IF loop = "tools" THEN text ELSE @,
                   !.unread = IF loop = "tools" THEN {} ELSE @]
    ELSE [t EXCEPT !.phase = "rejected"]

\* The model asks for an edit.
ModelCalls ==
    /\ turn.phase = "model" /\ turn.calls < MaxCalls
    /\ turn' = ApplyEdit(turn)
    /\ UNCHANGED <<llm, agents, chats, loop, text, ghost>>

\* reviewProposedEdit finds a mistake.
ReviewRejects ==
    /\ turn.phase = "review"
    /\ turn' = [turn EXCEPT !.phase = "rejected"]
    /\ UNCHANGED <<llm, agents, chats, loop, text, ghost>>

\* The review passes, and confirmEdit writes at once or shows a card: editMode, which
\* the user sets at any time, is what it is then.
ReviewPasses ==
    /\ turn.phase = "review"
    /\ \/ turn' = [turn EXCEPT !.phase = "write"]
       \/ turn' = [turn EXCEPT !.phase = "card"]
    /\ UNCHANGED <<llm, agents, chats, loop, text, ghost>>

\* The Apply button of the card
ApproveEdit ==
    /\ turn.phase = "card"
    /\ turn' = [turn EXCEPT !.phase = "write"]
    /\ UNCHANGED <<llm, agents, chats, loop, text, ghost>>

Reject ==
    /\ turn.phase = "card"
    /\ turn' = RejectCards(turn)
    /\ UNCHANGED <<llm, agents, chats, loop, text, ghost>>

\* The tool loop asks the model again after an edit; the grammar loop is at its end.
AfterEdit(t) == [t EXCEPT !.phase = "model", !.after = FALSE,
                      !.calls = IF loop = "grammar" THEN MaxCalls ELSE @]

\* workspace.write of the adapter: the file and the editor's text become the edit.
Write ==
    /\ turn.phase = "write"
    /\ text' = turn.base /\ turn' = AfterEdit(turn)
    /\ UNCHANGED <<llm, agents, chats, loop, ghost>>

\* The tool's refusal goes back to the loop.
Refused ==
    /\ turn.phase = "rejected" /\ turn' = AfterEdit(turn)
    /\ UNCHANGED <<llm, agents, chats, loop, text, ghost>>

\* The rest of handleSend
End ==
    /\ turn.phase = "done" /\ turn' = NoTurn
    /\ store' = SaveChat
    /\ UNCHANGED <<llm, agents, chat, ids, opening, loop, text, ghost>>

\* The Stop button: cards are rejected, and the agent that is there now is aborted,
\* whoever runs the turn; nothing happens when there is none.
Stop ==
    /\ Busy
    /\ turn' = IF agent = 0 THEN [turn EXCEPT !.stopped = TRUE]
               ELSE [RejectCards(turn) EXCEPT !.stopped = TRUE, !.aborted = @ \/ agent = turn.agent]
    /\ UNCHANGED <<llm, agents, chats, loop, text, ghost>>

Type ==
    /\ \E i \in 1..MaxTyped \ text :
         /\ text' = text \cup {i}
         /\ turn' = IF Busy THEN [turn EXCEPT !.unread = @ \cup {i}] ELSE turn
    /\ UNCHANGED <<llm, agents, chats, loop, ghost>>

-----------------------------------------------------------------------------
ChatNext ==
    \/ Load \/ Reconnect \/ Ready \/ NotReady \/ Disconnect
    \/ NewChat \/ Opened
    \/ \E k \in Chats : OpenChat(k) \/ DeleteChat(k)
    \/ SendTurn \/ BeginTurn \/ ReadTarget \/ Fails \/ Evict \/ ModelAnswers \/ ModelCalls
    \/ ReviewRejects \/ ReviewPasses \/ ApproveEdit \/ Reject \/ Write \/ Refused
    \/ End \/ Stop \/ Type

ChatSpec == ChatInit /\ [][ChatNext]_chatVars

-----------------------------------------------------------------------------
Phases == {"none", "provider", "classify", "model", "review", "card", "rejected", "write", "done"}

\* Every variable stays in the set its declaration names; a running turn has an agent.
ChatTypeOK ==
    /\ engine \in {"idle", "loading", "again", "ready"} /\ provider \in BOOLEAN
    /\ agent \in 0..agentIds /\ agentIds \in 0..MaxAgents
    /\ hist \in [1..MaxAgents -> SUBSET Turns] /\ store \in [Chats -> SUBSET Turns]
    /\ chat \in 1..ids /\ ids \in Chats
    /\ turn.n \in Turns /\ turn.phase \in Phases
    /\ (Busy <=> turn.phase # "none") /\ (Busy => turn.agent \in 1..agentIds)
    /\ text \subseteq 1..MaxTyped

\* A turn is saved in the chat it was asked in (handleSend, saveChat), unless the
\* chat or the agent was changed while it ran: saveChat looks at neither.
SavedWhereAsked ==
    \A k \in Chats : \A t \in store[k] \ {0} : ghost.asked[t] = k \/ t \in ghost.strayed

\* A saved chat loses a turn only when it is deleted, when the model's context was
\* trimmed, or when the panel went on with it under another history.
ChatKeepsItsTurns ==
    [][\A k \in Chats : \/ store[k] \subseteq store'[k] \/ store'[k] = {}
                        \/ k \in ghost.trimmed \cup ghost.shaken]_chatVars

\* agent.ts:201: "Persistent conversation history. Survives across sends."  So a
\* saved chat that is not deleted, and whose context is not trimmed, only grows.
SavedChatOnlyGrows ==
    [][\A k \in Chats : store[k] \subseteq store'[k] \/ store'[k] = {} \/ k \in ghost.trimmed]_chatVars

\* Once Stop has been pressed no further edit is begun and written: what is written then
\* was with apply_edit already.  Except in a turn whose agent the panel had given up before
\* (a lost connection, another loading of the model): Stop then aborts nothing
\* (ai-chat.ts:641-646), and the turn goes on editing.
NoEditAfterStop == turn.phase = "write" /\ turn.after => turn.n \in ghost.orphaned

\* An edit undoes no typing that was in the file when the loop read it.
TypingSurvives == [][text \ turn.unread \subseteq text']_chatVars
=============================================================================
