--------------------------- MODULE MCProjectLock ---------------------------
(***************************************************************************)
(* Two threads of the daemon and a command-line process.  "Zeta" and       *)
(* "zeta" are one project to the file system; as spelled, "Zeta" comes     *)
(* before "app" and "zeta" after it.                                       *)
(***************************************************************************)
EXTENDS ProjectLock, TLC

CONSTANTS daemon, cli, d, e, c, app, zeta, Zeta, A, Z

HomeDef == [t \in Thread |-> IF t = c THEN cli ELSE daemon]
FoldDef == [n \in Name |-> IF n = app THEN A ELSE Z]
RankDef == [p \in Project |-> IF p = A THEN 1 ELSE 2]
RawDef  == [n \in Name |-> CASE n = Zeta -> 1 [] n = app -> 2 [] n = zeta -> 3]

Both == {app, Zeta, zeta}
Same == {app, zeta}
One  == {zeta}
All  == {Wild}
Operations == {Both, Same, One, All}

\* What the daemon's threads and the command line ask for.
Mix(first, second, line, faults, crashes, cancels) ==
    [asks |-> [t \in Thread |-> CASE t = d -> first [] t = e -> second [] t = c -> line],
     faults |-> faults, crashes |-> crashes, cancels |-> cancels]

AllBudgets ==
    {Mix({Both}, {One}, {Same}, 0, 0, 0), Mix({Both}, {}, {Same}, 0, 0, 2),
     Mix({One}, {One}, {All}, 0, 0, 0), Mix({Both}, {}, {All}, 0, 0, 1),
     Mix({All}, {One}, {Same}, 0, 0, 0), Mix({All}, {}, {Same}, 0, 0, 1),
     Mix({Both}, {}, {All}, 1, 0, 0), Mix({All}, {}, {Same}, 1, 0, 0),
     Mix({Both}, {}, {Same}, 0, 1, 0), Mix({All}, {}, {One}, 1, 1, 0)}
=============================================================================
