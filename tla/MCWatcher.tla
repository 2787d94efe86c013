----------------------------- MODULE MCWatcher -----------------------------
(* Instances of Watcher for TLC. *)
EXTENDS Watcher, TLC

CONSTANTS p1, s1, s2, q1, q2, none, nobody

HomeP1 == [s \in Sessions |-> p1]

Events(c, m, f, i, d) == [e \in Event |-> CASE e = "change" -> c [] e = "move" -> m
                            [] e = "fault" -> f [] e = "index" -> i [] e = "delete" -> d]
\* A change, a move of the root and a fault; or a change and a client's index;
\* or a move and a deletion; or a deletion and an index.
AllBudgets == {Events(1, 1, 1, 0, 0), Events(1, 0, 0, 1, 0), Events(0, 1, 0, 0, 1), Events(0, 0, 0, 1, 1)}
=============================================================================
