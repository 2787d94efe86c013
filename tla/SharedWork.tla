------------------------------ MODULE SharedWork ------------------------------
(***************************************************************************)
(* What the daemon's coordinator promises: members share physical work by   *)
(* key, work exists exactly while some member claims it, and a service that *)
(* lost its last member (unless it is permanent) admits nobody any more and *)
(* closes once all work is over.  Ids, subscription lists, callback batches *)
(* and the lease clock of daemon/daemon.c are not visible at this level.    *)
(***************************************************************************)
CONSTANTS Members, Keys

VARIABLES
  open,       \* new members and claims are accepted
  permanent,  \* losing the last member does not end the service
  members,    \* the connected members
  claims,     \* <<member, kind, key>>: the member wants this work
  work,       \* the state of the physical work of each kind and key
  closed      \* somebody knows that the service is over

workVars == <<open, permanent, members, claims, work, closed>>

Kinds == {"job", "watch"}

Claimed(cs, kind, key) == \E m \in Members : <<m, kind, key>> \in cs

\* The work that remains when only the claims cs are left: an unclaimed job
\* has to be ended by its supervisor, an unclaimed watch is over at once.
Remaining(cs) ==
  [kind \in Kinds |-> [key \in Keys |->
     IF work[kind][key] = "active" /\ ~Claimed(cs, kind, key)
     THEN IF kind = "job" THEN "ending" ELSE "idle"
     ELSE work[kind][key]]]

Init ==
  /\ open = TRUE
  /\ permanent = FALSE
  /\ members = {}
  /\ claims = {}
  /\ work = [kind \in Kinds |-> [key \in Keys |-> "idle"]]
  /\ closed = FALSE

MakePermanent ==
  /\ permanent' = TRUE
  /\ UNCHANGED <<open, members, claims, work, closed>>

Join(m) ==
  /\ open
  /\ m \notin members
  /\ members' = members \cup {m}
  /\ UNCHANGED <<open, permanent, claims, work, closed>>

Leave(gone) ==
  /\ gone # {}
  /\ gone \subseteq members
  /\ members' = members \ gone
  /\ claims' = {c \in claims : c[1] \notin gone}
  /\ work' = Remaining(claims')
  /\ open' = (open /\ (members' # {} \/ permanent))
  /\ UNCHANGED <<permanent, closed>>

Claim(m, kind, key) ==
  /\ open
  /\ m \in members
  /\ work[kind][key] # "ending"
  /\ claims' = claims \cup {<<m, kind, key>>}
  /\ work' = [work EXCEPT ![kind][key] = "active"]
  /\ UNCHANGED <<open, permanent, members, closed>>

Drop(m, kind, key) ==
  /\ <<m, kind, key>> \in claims
  /\ claims' = claims \ {<<m, kind, key>>}
  /\ work' = Remaining(claims')
  /\ UNCHANGED <<open, permanent, members, closed>>

EndJob(key) ==
  /\ work["job"][key] # "idle"
  /\ work' = [work EXCEPT !["job"][key] = "idle"]
  /\ claims' = {c \in claims : ~(c[2] = "job" /\ c[3] = key)}
  /\ UNCHANGED <<open, permanent, members, closed>>

Close ==
  /\ ~open
  /\ \A kind \in Kinds, key \in Keys : work[kind][key] = "idle"
  /\ closed' = TRUE
  /\ UNCHANGED <<open, permanent, members, claims, work>>

Next ==
  \/ MakePermanent
  \/ \E m \in Members : Join(m)
  \/ \E gone \in SUBSET Members : Leave(gone)
  \/ \E m \in Members, kind \in Kinds, key \in Keys :
       Claim(m, kind, key) \/ Drop(m, kind, key)
  \/ \E key \in Keys : EndJob(key)
  \/ Close

Spec == Init /\ [][Next]_workVars
=============================================================================
