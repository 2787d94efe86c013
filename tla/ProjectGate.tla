---------------------------- MODULE ProjectGate ----------------------------
(***************************************************************************)
(* What the daemon promises about a project's data: whoever writes it, an  *)
(* index worker or a mutation (delete, ADR store, cross-repository match), *)
(* writes it alone.  A mutation of every project conflicts with all.       *)
(***************************************************************************)
CONSTANTS Project, Wild

VARIABLES
    indexing,   \* projects whose index worker is alive
    mutating    \* keys whose mutation owns the project's lease

Conflict(k, l) == k = l \/ k = Wild \/ l = Wild

Init == indexing = {} /\ mutating = {}

StartWorker(p) ==
    /\ p \notin indexing
    /\ \A k \in mutating : ~Conflict(k, p)
    /\ indexing' = indexing \cup {p}
    /\ UNCHANGED mutating

EndWorker(p) == p \in indexing /\ indexing' = indexing \ {p} /\ UNCHANGED mutating

StartMutation(k) ==
    /\ \A l \in mutating \cup indexing : ~Conflict(k, l)
    /\ mutating' = mutating \cup {k}
    /\ UNCHANGED indexing

EndMutation(k) == k \in mutating /\ mutating' = mutating \ {k} /\ UNCHANGED indexing

Next ==
    \/ \E p \in Project : StartWorker(p) \/ EndWorker(p)
    \/ \E k \in Project \cup {Wild} : StartMutation(k) \/ EndMutation(k)

Spec == Init /\ [][Next]_<<indexing, mutating>>
=============================================================================
