----------------------------- MODULE MCWorkbench -----------------------------
(* What a page shares its work with beside the branch: the hub of a         *)
(* GhostBot with two Playgrounds, the AI chat, and the document of a live   *)
(* session.  The hub comes twice: one Playground is paired while the other  *)
(* is served ("hub"), and both are served and one presses Stop ("stops").   *)
(* The chat comes three times: saved chats and agents ("chats"), edits      *)
(* under approval ("edits"), and a saved chat opened meanwhile ("opened").  *)
(* The session comes three times: a host and a guest with one forced sync   *)
(* ("session"), parted and joined again with strokes of both ("apart"), and *)
(* two forced syncs at the host ("alone").  A behaviour is one of the       *)
(* eight; the others stay as they start.  What is extended is the first of  *)
(* each, the others are instances with bounds of their own over the same    *)
(* variables.                                                               *)
EXTENDS GhostHub, SessionSync, AgentChat, TLC

CONSTANTS a, b, f, g

FirstIds == [p \in Peers |-> IF p = a THEN 1 ELSE 3]

VARIABLE part

Stops == INSTANCE GhostHub WITH Admitted <- Peers, Stoppers <- {a}, MaxTrouble <- 1
Apart == INSTANCE SessionSync WITH MaxStrokes <- 2, MaxSyncs <- 0, MaxLinks <- 2
Alone == INSTANCE SessionSync WITH MaxStrokes <- 2, MaxSyncs <- 2, MaxLinks <- 0
Edits == INSTANCE AgentChat WITH
    Saved <- 0, Loops <- {"tools", "grammar"}, MaxChats <- 2, MaxAgents <- 2,
    MaxTurns <- 1, MaxCalls <- 2, MaxTyped <- 1
Records == INSTANCE AgentChat WITH
    Saved <- 1, Loops <- {"tools"}, MaxChats <- 2, MaxAgents <- 2,
    MaxTurns <- 1, MaxCalls <- 1, MaxTyped <- 1

ASSUME SessionAssumption /\ Apart!SessionAssumption /\ Alone!SessionAssumption
ASSUME ChatAssumption /\ Edits!ChatAssumption /\ Records!ChatAssumption

\* Only the part called x moves.
InHub == part = "hub" /\ UNCHANGED <<part, syncVars, chatVars>>
InStops == part = "stops" /\ UNCHANGED <<part, syncVars, chatVars>>
InSession == part = "session" /\ UNCHANGED <<part, vars, chatVars>>
InApart == part = "apart" /\ UNCHANGED <<part, vars, chatVars>>
InAlone == part = "alone" /\ UNCHANGED <<part, vars, chatVars>>
InChats == part = "chats" /\ UNCHANGED <<part, vars, syncVars>>
InRecords == part = "opened" /\ UNCHANGED <<part, vars, syncVars>>
InEdits == part = "edits" /\ UNCHANGED <<part, vars, syncVars>>

WorkbenchInit ==
    /\ part \in {"hub", "stops", "session", "apart", "alone", "chats", "edits", "opened"}
    /\ SyncInit
    /\ IF part = "stops" THEN Stops!Init ELSE Init
    /\ CASE part = "edits" -> Edits!ChatInit
         [] part = "opened" -> Records!ChatInit
         [] OTHER -> ChatInit

SessionNext ==
    \/ InSession /\ PeersJoin
    \/ InSession /\ PeersPart
    \/ InSession /\ HostLeaves
    \/ \E x \in Peer : InSession /\ Answer(x)
    \/ \E x \in Peer : InSession /\ Integrate(x)
    \/ InSession /\ HostTypes
    \/ \E p \in {f, g} : InSession /\ HostOpens(p)
    \/ \E p \in {f, g} : InSession /\ GuestTypes(p)
    \/ \E p \in {f, g} : InSession /\ AutoSave(p)
    \/ \E p \in {f, g} : InSession /\ HostCreates(p)
    \/ \E p \in {f, g} : InSession /\ HostDeletes(p)
    \/ InSession /\ ForceSync
    \/ \E r \in runs : InSession /\ Listed(r)
    \/ \E r \in runs, p \in {f, g}, tells \in BOOLEAN : InSession /\ Copy(r, p, tells)
    \/ \E r \in runs : InSession /\ FinishSync(r)

ChatsNext ==
    \/ InChats /\ Load
    \/ InChats /\ Reconnect
    \/ InChats /\ Ready
    \/ InChats /\ NotReady
    \/ InChats /\ Disconnect
    \/ InChats /\ NewChat
    \/ InChats /\ Opened
    \/ \E k \in 1 .. 2 : InChats /\ OpenChat(k)
    \/ \E k \in 1 .. 2 : InChats /\ DeleteChat(k)
    \/ InChats /\ SendTurn
    \/ InChats /\ BeginTurn
    \/ InChats /\ Fails
    \/ InChats /\ Evict
    \/ InChats /\ ModelAnswers
    \/ InChats /\ End
    \/ InChats /\ Stop

EditsNext ==
    \/ InEdits /\ Edits!Load
    \/ InEdits /\ Edits!Reconnect
    \/ InEdits /\ Edits!Ready
    \/ InEdits /\ Edits!NotReady
    \/ InEdits /\ Edits!Disconnect
    \/ InEdits /\ Edits!NewChat
    \/ InEdits /\ Edits!Opened
    \/ \E k \in 1 .. 2 : InEdits /\ Edits!OpenChat(k)
    \/ \E k \in 1 .. 2 : InEdits /\ Edits!DeleteChat(k)
    \/ InEdits /\ Edits!SendTurn
    \/ InEdits /\ Edits!BeginTurn
    \/ InEdits /\ Edits!ReadTarget
    \/ InEdits /\ Edits!Fails
    \/ InEdits /\ Edits!ModelAnswers
    \/ InEdits /\ Edits!ModelCalls
    \/ InEdits /\ Edits!ReviewRejects
    \/ InEdits /\ Edits!ReviewPasses
    \/ InEdits /\ Edits!ApproveEdit
    \/ InEdits /\ Edits!Reject
    \/ InEdits /\ Edits!Write
    \/ InEdits /\ Edits!Refused
    \/ InEdits /\ Edits!End
    \/ InEdits /\ Edits!Stop
    \/ InEdits /\ Edits!Type

WorkbenchNext ==
    \/ InHub /\ Next
    \/ InStops /\ Stops!Next
    \/ SessionNext
    \/ InApart /\ Apart!SyncNext
    \/ InAlone /\ Alone!SyncNext
    \/ ChatsNext
    \/ EditsNext
    \/ InRecords /\ Records!ChatNext

WorkbenchSpec == WorkbenchInit /\ [][WorkbenchNext]_<<part, vars, syncVars, chatVars>>

\* The type invariants of the hub, the session and the chat.
TypesOK ==
    /\ TypeOK
    /\ CASE part = "apart" -> Apart!SyncTypeOK
         [] part = "alone" -> Alone!SyncTypeOK
         [] OTHER -> SyncTypeOK
    /\ CASE part = "edits" -> Edits!ChatTypeOK
         [] part = "opened" -> Records!ChatTypeOK
         [] OTHER -> ChatTypeOK
=============================================================================
