-------------------------- MODULE MCVersionCohort --------------------------
(* Instances of VersionCohort for TLC: two threads in process p, one in q.    *)
EXTENDS VersionCohort, TLC

CONSTANTS p, q, a, b, c, v1, v2

HomeDef == (a :> p) @@ (b :> p) @@ (c :> q)

\* Three calls undisturbed, or two with a failure and a crash and late answers.
AllBudgets == {<<3, 0, 0, FALSE>>, <<2, 1, 1, TRUE>>}
=============================================================================
