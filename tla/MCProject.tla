----------------------------- MODULE MCProject -----------------------------
(* What a team does with a project: the shared branch, the merge of one     *)
(* text line by line, a shared debug session, and the assets of a launch.   *)
(* The branch comes twice, the debug session and the launch three times,    *)
(* with bounds of their own over the same variables.  A behaviour is one of *)
(* these; the others stay as they start.                                    *)
EXTENDS MCSharing, DebugMirror, AssetSync

VARIABLES part, history, text, stage, panel

UpTo(n, lines) == UNION {[1 .. k -> lines] : k \in 0 .. n}

\* Every text of up to three lines out of three, blank ones and repeats among them.
Short ==
    [base : {<<>>, <<1>>, <<1, 1>>, <<1, 2>>, <<1, 1, 2>>, <<1, 2, 1>>, <<1, 2, 2>>, <<1, 2, 3>>},
     ours : UpTo(3, 0 .. 2), theirs : UpTo(3, {1, 2, 4})]

\* Edits of <<1, 2, 3>> in place, at its ends and in every gap; 5 is what both add.
Edited(new) ==
    {a \o b \o c \o d :
        a \in {<<>>, <<1>>, <<new>>, <<new, 1>>, <<5>>}, b \in {<<>>, <<2>>, <<new + 1, 2>>},
        c \in {<<>>, <<3>>, <<new + 2>>}, d \in {<<>>, <<new + 3>>}}
Long == [base : {<<1, 2, 3>>}, ours : Edited(10), theirs : Edited(20)]

Lines == INSTANCE Diff3 WITH Histories <- Short \cup Long, disk <- text

\* One edit, deletions, and old commits to go back to.
Deletions == INSTANCE Sharing WITH MaxEdits <- 1, Worlds <- {Deleting}

IDs == [p \in Peers |-> IF p = "a" THEN 1 ELSE 2]

\* One peer starts a session, and the peers press two buttons ("buttons"); or one
\* button, in one of two sessions; or either peer starts one.
Restarts == INSTANCE DebugMirror WITH MaxClicks <- 1, MaxStarts <- 2
Rivals == INSTANCE DebugMirror WITH
    Hosts <- {"a", "b"}, MaxClicks <- 1, MaxStarts <- 2, MaxStops <- 0

\* An image, a sound and a source: changed twice between two launches ("changes"); or
\* launched three times, changed once, with one trouble; or with another sync.
Memories == INSTANCE AssetSync WITH MaxChanges <- 1, MaxLaunches <- 3, MaxTroubles <- 1
Together == INSTANCE AssetSync WITH MaxChanges <- 1, MaxOthers <- 1

ASSUME Lines!Diff3Assumption
ASSUME DebugMirrorAssumption /\ Restarts!DebugMirrorAssumption /\ Rivals!DebugMirrorAssumption
ASSUME AssetSyncAssumption /\ Memories!AssetSyncAssumption /\ Together!AssetSyncAssumption

lineVars == <<history, text, stage, panel>>

ProjectInit ==
    /\ \/ part = "lines" /\ Lines!Init
       \/ /\ part \in {"branch", "deletions", "buttons", "restarts", "rivals", "changes", "memories", "together"}
          /\ history = [base |-> <<>>, ours |-> <<>>, theirs |-> <<>>]
          /\ text = <<>> /\ stage = "apart" /\ panel = <<>>
    /\ IF part = "deletions" THEN Deletions!Init ELSE Init
    /\ DebugInit /\ AssetInit
    /\ part \in {"branch", "deletions"} \/ world = Calm

Sharings ==
    \/ part = "branch" /\ Next
    \/ part = "deletions" /\ Deletions!Next

Debugging ==
    \/ part = "buttons" /\ DebugNext
    \/ part = "restarts" /\ Restarts!DebugNext
    \/ part = "rivals" /\ Rivals!DebugNext

Launching ==
    \/ part = "changes" /\ AssetNext
    \/ part = "memories" /\ Memories!AssetNext
    \/ part = "together" /\ Together!AssetNext

ProjectNext ==
    \/ Sharings /\ UNCHANGED <<part, lineVars, debugVars, assetVars>>
    \/ part = "lines" /\ Lines!Next /\ UNCHANGED <<part, vars, debugVars, assetVars>>
    \/ Debugging /\ UNCHANGED <<part, vars, lineVars, assetVars>>
    \/ Launching /\ UNCHANGED <<part, vars, lineVars, debugVars>>

ProjectSpec == ProjectInit /\ [][ProjectNext]_<<part, vars, lineVars, debugVars, assetVars>>

\* The type invariants of all.
TypesOK == TypeOK /\ Lines!TypeOK /\ DebugTypeOK /\ AssetTypeOK

\* The properties of the merge by lines, as Diff3 states them.
MergeKeepsBothEdits == part = "lines" => Lines!MergeKeepsBothEdits
NoRegionNoMarker == part = "lines" => Lines!NoRegionNoMarker
=============================================================================
