------------------------------ MODULE MCSharing ------------------------------
(* Users, paths and circumstances of the runs of Sharing. *)
EXTENDS Sharing, TLC

CONSTANTS ann, bob, main, png

\* A text and a binary, which may be deleted, and users who wait for a pull to end.
Calm == [paths |-> {main, png}, deletable |-> {png}, restless |-> FALSE, restoring |-> FALSE, failing |-> 0]

\* One text, users who never wait, and a network that fails once, at any point.
Rough == [paths |-> {main}, deletable |-> {main}, restless |-> TRUE, restoring |-> FALSE, failing |-> 1]

\* One text and users who never wait.
Restless == [Rough EXCEPT !.failing = 0]

\* One text, users who wait for a pull to end, and old commits to go back to.
Restoring == [paths |-> {main}, deletable |-> {}, restless |-> FALSE, restoring |-> TRUE, failing |-> 0]

\* The same, and the text may be deleted.
Deleting == [Restoring EXCEPT !.deletable = {main}]

EachInTurn == {Calm, Rough, Restoring}
OnlyRestless == {Restless}

\* The users may be exchanged with one another.
Symmetry == Permutations(Users)
=============================================================================
