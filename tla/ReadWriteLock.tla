--------------------------- MODULE ReadWriteLock ---------------------------
(***************************************************************************)
(* What foundation/lock_registry.h promises its callers: a lock per key    *)
(* that many readers share or one writer owns, across every process that   *)
(* uses the same private directory.  How it is granted (queues, two native *)
(* file locks, retries) is not visible here.                               *)
(***************************************************************************)
EXTENDS FiniteSets

CONSTANTS Caller, Key

VARIABLE grants   \* the set of <<caller, key, mode>> in force

Mode == {"SH", "EX"}

Compatible(g, k, m) == \A h \in g : h[2] = k => m = "SH" /\ h[3] = "SH"

TypeOK == grants \subseteq Caller \X Key \X Mode

Init == grants = {}

Grant(c, k, m) ==
    /\ \A h \in grants : h[1] # c
    /\ Compatible(grants, k, m)
    /\ grants' = grants \cup {<<c, k, m>>}

\* A caller gives its grant back, or a crash takes those of several callers.
Return(C) ==
    /\ \E h \in grants : h[1] \in C
    /\ grants' = {h \in grants : h[1] \notin C}

Next ==
    \/ \E c \in Caller, k \in Key, m \in Mode : Grant(c, k, m)
    \/ \E C \in SUBSET Caller : Return(C)

Spec == Init /\ [][Next]_grants

\* A writer is alone on its key.
Exclusion ==
    \A g, h \in grants : g # h /\ g[2] = h[2] => g[3] = "SH" /\ h[3] = "SH"
=============================================================================
