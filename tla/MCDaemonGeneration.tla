------------------------- MODULE MCDaemonGeneration -------------------------
(* Bounds for the model checker: who takes part, and how many die.          *)
EXTENDS DaemonGeneration

CONSTANTS c1, c2, d1, d2, l1, a1, a2

Party(who, deaths) == [who |-> who, deaths |-> deaths]
AllCasts ==
    {Party({c1, c2, d1, d2}, 1), Party({c1, c2, d1, l1}, 0), Party({c1, c2, d1, a1}, 0),
     Party({c1, d1, d2, l1}, 1), Party({c1, d1, l1, a1}, 1), Party({c1, a1, a2, l1}, 1)}
=============================================================================
