----------------------------- MODULE MCRequests -----------------------------
(* Two protocols of requests and answers: the calls of a live session, and *)
(* the runnable blocks of a page with the frames their programs run in, as *)
(* consoles ("blocks") and, over an instance of its own, as a game in a    *)
(* window ("game").  A behaviour is one of the three; the others stay as   *)
(* they start.                                                             *)
EXTENDS CollabRpc, RunnerBridge, TLC

CONSTANTS a, b, c, c1, c2

\* Low bytes 1, 2 and 127: distinct and below 128, on ids of several bytes.
DistinctIDs == a :> 257 @@ b :> 2 @@ c :> 383

VARIABLES part, gArming, gWaiting, gUi, gAttached, gListeners, gHook, gPending, gNextId, gFrame

Game == INSTANCE RunnerBridge WITH
    Comps <- {c1}, Runners <- {c1}, Debuggers <- {c1}, Mono <- TRUE, Removed <- {},
    arming <- gArming, waiting <- gWaiting, ui <- gUi, attached <- gAttached,
    listeners <- gListeners, hook <- gHook, pending <- gPending, nextId <- gNextId,
    frame <- gFrame

gameVars == <<gArming, gWaiting, gUi, gAttached, gListeners, gHook, gPending, gNextId, gFrame>>

\* Only the part called x moves.
InRpc == part = "rpc" /\ UNCHANGED <<part, bridgeVars, gameVars>>
InBlocks == part = "blocks" /\ UNCHANGED <<part, vars, gameVars>>
InGame == part = "game" /\ UNCHANGED <<part, vars, bridgeVars>>

RequestsInit ==
    /\ part \in {"rpc", "blocks", "game"}
    /\ Init /\ BridgeInit /\ Game!BridgeInit

RpcNext ==
    \/ \E p \in Peers : InRpc /\ OnRequest(p)
    \/ \E p \in Peers : InRpc /\ Destroy(p)
    \/ \E p \in Callers : \E t \in Others(p) : InRpc /\ SendRequest(p, t)
    \/ \E p \in Peers, n \in Seqs : InRpc /\ Timeout(p, n)
    \/ \E p \in Peers, m \in wire : InRpc /\ ReceiveRequest(p, m)
    \/ \E p \in Peers, m \in wire : InRpc /\ ReceiveResponse(p, m)
    \/ \E h \in running, ok \in BOOLEAN : InRpc /\ HandlerDone(h, ok)

BlocksNext ==
    \E x \in {c1, c2} :
        \/ InBlocks /\ Edit(x)
        \/ InBlocks /\ DetectTests(x)
        \/ InBlocks /\ PressRun(x)
        \/ InBlocks /\ PressDebug(x)
        \/ InBlocks /\ PressReload(x)
        \/ InBlocks /\ PressContinue(x)
        \/ InBlocks /\ PressStop(x)
        \/ InBlocks /\ Remove(x)
        \/ InBlocks /\ Armed(x)
        \/ InBlocks /\ ArmFails(x)
        \/ InBlocks /\ Resume(x)
        \/ InBlocks /\ Reject(x)
        \/ InBlocks /\ Ignored(x)
        \/ InBlocks /\ Unheard(x)
        \/ InBlocks /\ Paused(x)
        \/ InBlocks /\ Complete(x)
        \/ InBlocks /\ Interrupted(x)
        \/ \E p \in pending : InBlocks /\ RunEnds(x, p)
        \/ \E p \in pending : InBlocks /\ Reloaded(x, p)
        \/ \E p \in pending : InBlocks /\ Started(x, p)
        \/ \E p \in pending : InBlocks /\ Verdict(x, p)
        \/ InBlocks /\ VmTake(x)
        \/ InBlocks /\ VmEvent(x)
        \/ InBlocks /\ VmEnd(x)

GameNext ==
    \/ InGame /\ Game!CloseWindow(c1)
    \/ InGame /\ Game!BridgeNext

RequestsNext == RpcNext \/ BlocksNext \/ GameNext

RequestsSpec ==
    RequestsInit /\ [][RequestsNext]_<<part, vars, bridgeVars, gameVars>> /\ Fairness

\* The type invariants of all three.
TypesOK == TypeOK /\ BridgeTypeOK /\ Game!BridgeTypeOK
=============================================================================
