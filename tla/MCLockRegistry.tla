--------------------------- MODULE MCLockRegistry ---------------------------
(* Instances of LockRegistry for TLC: process p has two threads, q has one.   *)
EXTENDS LockRegistry, TLC

CONSTANTS p, q, a, b, c

HomeDef == (a :> p) @@ (b :> p) @@ (c :> q)

\* Two acquisitions with a failure, with a crash or with two stops, or one with three
\* failures.
AllBudgets == {<<2, 1, 0, 0>>, <<2, 0, 1, 1>>, <<2, 0, 0, 2>>, <<1, 3, 1, 1>>}
=============================================================================
