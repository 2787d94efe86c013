------------------------ MODULE CoordinatorRefinement ------------------------
(***************************************************************************)
(* The coordinator of daemon/daemon.c implements SharedWork.                 *)
(***************************************************************************)
EXTENDS Coordinator

claimsBar == {<<subscription[s].client, resource[subscription[s].resource].kind,
                resource[subscription[s].resource].key>> :
                s \in {i \in SubscriptionId : subscription[i].resource # NoResource}}

workBar ==
  [kind \in {"job", "watch"} |-> [key \in Keys |->
     IF Listed(kind, key) = {} THEN "idle"
     ELSE IF \E r \in Listed(kind, key) :
               resource[r].status \in {"CANCEL_REQUESTED", "REAPING"}
     THEN "ending" ELSE "active"]]

Work == INSTANCE SharedWork WITH
  Members <- ClientId,
  open    <- state = "RUNNING",
  members <- live,
  claims  <- claimsBar,
  work    <- workBar,
  closed  <- exitReady

\* Every operation of the coordinator is one step of the abstract service or
\* invisible to it: departures withdraw all claims of the leaving clients and
\* nothing else, and the exit is only announced when all work is over.
ImplementsSharedWork == Work!Spec
=============================================================================
