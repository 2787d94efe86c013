---------------------------- MODULE Generation ----------------------------
(***************************************************************************)
(* What one generation of the daemon promises its clients: a member joins  *)
(* while it runs and nobody afterwards; it stops when it is told to, or    *)
(* when its last member leaves unless it was started to stay; and it exits *)
(* only when every member is gone.                                         *)
(***************************************************************************)
CONSTANT Client     \* identities of clients; each is used once

VARIABLES
    phase,      \* "running" | "stopping" | "exited"
    members,    \* clients that were admitted and have not left
    permanent,  \* started by "daemon start"
    asked       \* input: what is being asked, "now" or "if unused"

vars == <<phase, members, permanent, asked>>

Init ==
    /\ phase = "running" /\ members = {} /\ permanent \in BOOLEAN
    /\ asked \in SUBSET {"now", "if unused"}

Ask == asked' \subseteq {"now", "if unused"}

Join(c) ==
    /\ phase = "running" /\ c \notin members
    /\ members' = members \cup {c}
    /\ Ask /\ UNCHANGED <<phase, permanent>>

\* The last member takes the generation with it in one step: nobody joins in between.
Leave(c) ==
    /\ c \in members
    /\ members' = members \ {c}
    /\ phase' = IF members = {c} /\ ~permanent /\ phase = "running" THEN "stopping" ELSE phase
    /\ Ask /\ UNCHANGED permanent

\* A client that left before it became a member may have been the last one too.
Abandon ==
    /\ phase = "running" /\ members = {} /\ ~permanent
    /\ phase' = "stopping"
    /\ Ask /\ UNCHANGED <<members, permanent>>

\* A signal or an activation is obeyed at once, "daemon stop" only if nobody is a member.
Stop ==
    /\ phase = "running"
    /\ "now" \in asked \/ ("if unused" \in asked /\ members = {})
    /\ phase' = "stopping"
    /\ Ask /\ UNCHANGED <<members, permanent>>

Exit ==
    /\ phase = "stopping" /\ members = {}
    /\ phase' = "exited"
    /\ Ask /\ UNCHANGED <<members, permanent>>

Next == \/ \E c \in Client : Join(c) \/ Leave(c)
        \/ Abandon \/ Stop \/ Exit
        \/ Ask /\ UNCHANGED <<phase, members, permanent>>

Spec == Init /\ [][Next]_vars
=============================================================================
