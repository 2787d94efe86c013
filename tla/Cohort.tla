------------------------------- MODULE Cohort -------------------------------
(***************************************************************************)
(* What daemon/version_cohort.h promises, without its lock files: the      *)
(* participants alive at one time run one exact build, and whoever changes *)
(* the installed binary first closes admission, then sees every            *)
(* participant gone, and works alone until it ends.                        *)
(***************************************************************************)
CONSTANTS Caller, Build, None

VARIABLES
    joined,     \* the build each participant runs, None for the others
    barrier,    \* {}, or the one caller that has closed admission
    mutator     \* {}, or that caller once it may change the binary

cohortVars == <<joined, barrier, mutator>>

TypeOK ==
    /\ joined \in [Caller -> Build \cup {None}]
    /\ barrier \in {{}} \cup {{c} : c \in Caller}
    /\ mutator \in {{}, barrier}

Init ==
    /\ joined = [c \in Caller |-> None]
    /\ barrier = {}
    /\ mutator = {}

\* Admission: open, and no live participant of another build.
Join(c, b) ==
    /\ barrier = {} /\ joined[c] = None
    /\ \A d \in Caller : joined[d] \in {None, b}
    /\ joined' = [joined EXCEPT ![c] = b]
    /\ UNCHANGED <<barrier, mutator>>

Close(c) ==
    /\ barrier = {} /\ joined[c] = None
    /\ barrier' = {c}
    /\ UNCHANGED <<joined, mutator>>

Mutate(c) ==
    /\ barrier = {c} /\ mutator = {}
    /\ \A d \in Caller : joined[d] = None
    /\ mutator' = {c}
    /\ UNCHANGED <<joined, barrier>>

\* Callers finish, fail or die; a crash takes several at once.
Depart(C) ==
    /\ joined' = [c \in Caller |-> IF c \in C THEN None ELSE joined[c]]
    /\ barrier' = barrier \ C
    /\ mutator' = mutator \ C

Next ==
    \/ \E c \in Caller :
          \/ \E b \in Build : Join(c, b)
          \/ Close(c)
          \/ Mutate(c)
    \/ \E C \in SUBSET Caller : Depart(C)

Spec == Init /\ [][Next]_cohortVars
=============================================================================
