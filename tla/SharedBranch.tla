---------------------------- MODULE SharedBranch ----------------------------
(***************************************************************************)
(* What source control promises its users: one line of versions; a version *)
(* is made only from the one before it, or goes back to an older one; and  *)
(* it takes nothing from a file that nobody discarded, spoilt files aside. *)
(***************************************************************************)
EXTENDS Integers, Sequences

CONSTANTS Users, Paths, Edits

VARIABLES
    texts,        \* the edits each file of each version contains
    seen,         \* the version each user's work stems from
    given,        \* edits given up on purpose
    spoilt        \* files the promise no longer covers

branchVars == <<texts, seen, given, spoilt>>

version == Len(texts)

Init ==
    /\ texts = <<[p \in Paths |-> {}]>>
    /\ seen = [u \in Users |-> 1]
    /\ given = {}
    /\ spoilt = {}

\* A version with the edits of version v and no fewer than nobody gave up.
Made(v) ==
    /\ \E text \in [Paths -> SUBSET Edits] : texts' = Append(texts, text)
    /\ given \subseteq given'
    /\ \A p \in Paths \ spoilt :
        (texts[v][p] \cup texts[version][p]) \ given' \subseteq texts'[version'][p]
    /\ UNCHANGED <<seen, spoilt>>

\* A user makes a version from the newest.
Publish(u) == seen[u] = version /\ Made(version)

\* A user goes back to version v, having seen the newest or not.
GoBack(v) == Made(v) /\ \A p \in Paths \ spoilt : texts[v][p] \subseteq texts'[version'][p]

\* A user's work comes to stem from a newer version.
Sync(u) ==
    /\ \E v \in seen[u] .. version : seen' = [seen EXCEPT ![u] = v]
    /\ UNCHANGED <<texts, given, spoilt>>

\* Edits are given up, files spoilt.
Discard ==
    /\ given \subseteq given' /\ spoilt \subseteq spoilt'
    /\ UNCHANGED <<texts, seen>>

Next == Discard \/ (\E v \in 1 .. version : GoBack(v)) \/ \E u \in Users : Publish(u) \/ Sync(u)

Spec == Init /\ [][Next]_branchVars
=============================================================================
