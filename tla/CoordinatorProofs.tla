-------------------------- MODULE CoordinatorProofs --------------------------
(***************************************************************************)
(* The safety properties of Coordinator, for every number of clients, keys, *)
(* subscriptions, threads and every lease, and that it implements           *)
(* SharedWork.                                                              *)
(***************************************************************************)
EXTENDS CoordinatorRefinement, FiniteSetTheorems, TLAPS

-----------------------------------------------------------------------------
(* The inductive invariant.                                                  *)

\* TypeOK, except that callback_count is only known to be an integer: that it
\* never underflows follows from CallbacksAccounted.
Typed ==
  /\ state \in {"RUNNING", "STOPPING"}
  /\ permanent \in BOOLEAN
  /\ hooks \in BOOLEAN
  /\ lastClientId \in 0..MaxClientId
  /\ lastSubscriptionId \in 0..MaxSubscriptionId
  /\ live \in SUBSET ClientId
  /\ heartbeat \in [ClientId -> Time]
  /\ clock \in Time
  /\ subscription \in [SubscriptionId -> Subscription]
  /\ resource \in [SubscriptionId -> Resource]
  /\ batch \in [SubscriptionId -> Threads \cup {NoThread}]
  /\ calling \in [Threads -> SubscriptionId \cup {NoResource}]
  /\ callbackCount \in Int
  /\ exitReady \in BOOLEAN

\* The shape of one job or watch object: what its place, status and inflight
\* flag say about each other and about the batch that holds it.
ObjectShape(r) ==
  /\ r > lastSubscriptionId => resource[r].place = "none"
  /\ resource[r].place = "none" => /\ resource[r].kind = "none"
                                   /\ resource[r].status = "NONE"
                                   /\ batch[r] = NoThread
  /\ resource[r].place # "none" => /\ resource[r].kind \in {"job", "watch"}
                                   /\ resource[r].key \in Keys
  /\ resource[r].inflight => batch[r] # NoThread
  /\ batch[r] # NoThread => resource[r].place \in {"listed", "detached"}
  /\ resource[r].place = "detached" => batch[r] # NoThread
  /\ resource[r].kind = "job" => resource[r].status # "NONE"
  /\ resource[r].kind = "watch" => resource[r].status = "NONE"
  /\ resource[r].kind = "job" /\ batch[r] # NoThread =>
       resource[r].inflight /\ resource[r].status # "RUNNING"
  /\ resource[r].kind = "watch" /\ resource[r].place = "listed" =>
       batch[r] = NoThread

Shape == \A r \in SubscriptionId : ObjectShape(r)

\* An id above the last one issued has no owner; an id with an owner names a
\* connected client and a listed resource.
Owned ==
  \A s \in SubscriptionId :
    /\ s > lastSubscriptionId => subscription[s] = NoSubscription
    /\ subscription[s].resource = NoResource => subscription[s].client = Nobody
    /\ subscription[s].resource # NoResource =>
         /\ subscription[s].client \in live
         /\ resource[subscription[s].resource].place = "listed"

Wanted ==
  \A r \in SubscriptionId : resource[r].place = "listed" =>
    (Subscribers(r) = {} <=> resource[r].status \in {"CANCEL_REQUESTED", "REAPING"})

\* A thread only runs the hook of an object of its own batch.
Calls ==
  \A t \in Threads : calling[t] # NoResource =>
    batch[calling[t]] = t /\ resource[calling[t]].inflight

ClientIdsIssued == \A c \in live : c <= lastClientId

Stopped ==
  state = "STOPPING" =>
    /\ live = {}
    /\ \A r \in SubscriptionId : resource[r].place = "listed" =>
         resource[r].kind = "job" /\ resource[r].status # "RUNNING"

Exited == exitReady =>
  /\ state = "STOPPING"
  /\ callbackCount = 0
  /\ \A r \in SubscriptionId : resource[r].place # "listed"

IInv ==
  /\ Typed
  /\ Shape
  /\ Owned
  /\ Wanted
  /\ OnePhysicalResourcePerKey
  /\ Calls
  /\ ClientIdsIssued
  /\ Stopped
  /\ CallbacksAccounted
  /\ Exited

-----------------------------------------------------------------------------
LEMMA IdFacts ==
  /\ SubscriptionId \subseteq Nat /\ 0 \notin SubscriptionId
  /\ ClientId \subseteq Nat /\ 0 \notin ClientId
  /\ IsFiniteSet(SubscriptionId)
BY ConstantsAssumption, FS_Interval DEF SubscriptionId, ClientId

LEMMA DisjointCardinality ==
  ASSUME NEW S, NEW T, IsFiniteSet(S), IsFiniteSet(T), S \cap T = {}
  PROVE  Cardinality(S \cup T) = Cardinality(S) + Cardinality(T)
<1>1. Cardinality(S \cup T) = Cardinality(S) + Cardinality(T) - Cardinality(S \cap T)
  BY FS_Union
<1>2. Cardinality(S \cap T) = 0
  BY FS_EmptySet
<1>3. Cardinality(S) \in Nat /\ Cardinality(T) \in Nat
  BY FS_CardinalityType
<1> QED
  BY <1>1, <1>2, <1>3

LEMMA OutstandingFinite ==
  /\ IsFiniteSet(Outstanding)
  /\ Cardinality(Outstanding) \in Nat
<1>1. Outstanding \subseteq SubscriptionId
  BY DEF Outstanding
<1> QED
  BY <1>1, IdFacts, FS_Subset, FS_CardinalityType

LEMMA InitIInv == Init => IInv
<1> SUFFICES ASSUME Init PROVE IInv
  OBVIOUS
<1>1. resource \in [SubscriptionId -> Resource]
  BY DEF Init, Resource, Unallocated
<1>2. subscription \in [SubscriptionId -> Subscription]
  BY DEF Init, Subscription, NoSubscription, Nobody, NoResource
<1>3. Typed
  <2>1. /\ state \in {"RUNNING", "STOPPING"}
        /\ permanent \in BOOLEAN /\ hooks \in BOOLEAN /\ exitReady \in BOOLEAN
        /\ live \in SUBSET ClientId
        /\ batch \in [SubscriptionId -> Threads \cup {NoThread}]
        /\ calling \in [Threads -> SubscriptionId \cup {NoResource}]
    BY DEF Init, NoResource
  <2>2. /\ lastClientId \in 0..MaxClientId
        /\ lastSubscriptionId \in 0..MaxSubscriptionId
        /\ clock \in Time
        /\ callbackCount \in Int
        /\ heartbeat \in [ClientId -> Time]
    BY ConstantsAssumption DEF Init, Time
  <2> QED
    BY <1>1, <1>2, <2>1, <2>2 DEF Typed
<1>4. Shape /\ Owned /\ OnePhysicalResourcePerKey /\ Calls
  BY DEF Init, Shape, ObjectShape, Owned, OnePhysicalResourcePerKey, Calls,
     Unallocated, NoSubscription
<1>5. Wanted /\ ClientIdsIssued /\ Stopped /\ Exited
  BY DEF Init, Wanted, ClientIdsIssued, Stopped, Exited, Unallocated
<1>6. Outstanding = {}
  BY DEF Init, Outstanding, Unallocated
<1>7. CallbacksAccounted
  BY <1>6, FS_EmptySet DEF Init, CallbacksAccounted
<1> QED
  BY <1>3, <1>4, <1>5, <1>7 DEF IInv

-----------------------------------------------------------------------------
(* What the withdrawal of subscriptions does, whoever asks for it.           *)

LEMMA WithdrawFacts ==
  ASSUME IInv, NEW t \in Threads, Idle(t),
         NEW dropped \in SUBSET SubscriptionId,
         NEW examined \in SUBSET SubscriptionId,
         \A s \in dropped : subscription[s].resource # NoResource
                              => subscription[s].resource \in examined,
         Withdraw(t, dropped, examined),
         UNCHANGED <<hooks, lastSubscriptionId, calling>>
  PROVE  /\ subscription' \in [SubscriptionId -> Subscription]
         /\ resource' \in [SubscriptionId -> Resource]
         /\ batch' \in [SubscriptionId -> Threads \cup {NoThread}]
         /\ callbackCount' \in Int
         /\ Shape' /\ Wanted' /\ OnePhysicalResourcePerKey' /\ Calls'
         /\ CallbacksAccounted'
         /\ \A s \in SubscriptionId :
              subscription'[s] = IF s \in dropped THEN NoSubscription ELSE subscription[s]
         /\ \A s \in SubscriptionId \ dropped : subscription[s].resource # NoResource =>
              resource'[subscription[s].resource].place = "listed"
         /\ \A r \in SubscriptionId : resource'[r].place = "listed" =>
              /\ resource[r].place = "listed"
              /\ resource[r].kind = resource'[r].kind
              /\ resource'[r].status = "RUNNING" => resource[r].status = "RUNNING"
<1> USE IdFacts
<1> DEFINE jobs    == Abandoned(dropped, examined)
           watches == Unwatched(dropped, examined)
           queued  == watches \cup (IF hooks THEN jobs ELSE {})
<1>sub. \A s \in SubscriptionId :
          subscription'[s] = IF s \in dropped THEN NoSubscription ELSE subscription[s]
  BY DEF Withdraw
<1>res. \A r \in SubscriptionId :
          resource'[r] = IF r \in jobs THEN CancelRequested(r)
                         ELSE IF r \in watches THEN WatchDetached(r)
                         ELSE resource[r]
  BY DEF Withdraw
<1>bat. \A r \in SubscriptionId : batch'[r] = IF r \in queued THEN t ELSE batch[r]
  BY DEF Withdraw
<1>cnt. callbackCount' = callbackCount + IF hooks THEN Cardinality(queued) ELSE 0
  BY DEF Withdraw, NewCallbacks
<1>job. \A r \in jobs : /\ r \in SubscriptionId
                        /\ resource[r].place = "listed" /\ resource[r].kind = "job"
                        /\ resource[r].status = "RUNNING"
                        /\ Subscribers(r) \subseteq dropped
                        /\ r \notin watches
                        /\ batch[r] = NoThread /\ ~resource[r].inflight
  <2>1. \A r \in jobs : /\ r \in SubscriptionId
                        /\ resource[r].place = "listed" /\ resource[r].kind = "job"
                        /\ resource[r].status = "RUNNING"
                        /\ Subscribers(r) \subseteq dropped
                        /\ r \notin watches
    BY DEF Abandoned, Unwatched
  <2> QED
    BY <2>1 DEF IInv, Shape, ObjectShape
<1>wat. \A r \in watches : /\ r \in SubscriptionId
                           /\ resource[r].place = "listed" /\ resource[r].kind = "watch"
                           /\ Subscribers(r) \subseteq dropped
                           /\ r \notin jobs
                           /\ batch[r] = NoThread /\ ~resource[r].inflight
  <2>1. \A r \in watches : /\ r \in SubscriptionId
                           /\ resource[r].place = "listed" /\ resource[r].kind = "watch"
                           /\ Subscribers(r) \subseteq dropped
                           /\ r \notin jobs
    BY DEF Abandoned, Unwatched
  <2> QED
    BY <2>1 DEF IInv, Shape, ObjectShape
<1>typ. /\ subscription \in [SubscriptionId -> Subscription]
        /\ resource \in [SubscriptionId -> Resource]
        /\ batch \in [SubscriptionId -> Threads \cup {NoThread}]
        /\ hooks \in BOOLEAN
        /\ callbackCount \in Int
  BY DEF IInv, Typed
<1>rec. \A r \in SubscriptionId :
          /\ resource[r] \in Resource
          /\ resource'[r].kind = resource[r].kind
          /\ resource'[r].key = resource[r].key
          /\ resource'[r].place = IF r \in watches THEN "detached" ELSE resource[r].place
          /\ resource'[r].status = IF r \in jobs THEN "CANCEL_REQUESTED" ELSE resource[r].status
          /\ resource'[r].inflight = IF r \in jobs \cup watches THEN hooks
                                     ELSE resource[r].inflight
  <2> SUFFICES ASSUME NEW r \in SubscriptionId
               PROVE  /\ resource[r] \in Resource
                      /\ resource'[r].kind = resource[r].kind
                      /\ resource'[r].key = resource[r].key
                      /\ resource'[r].place = IF r \in watches THEN "detached" ELSE resource[r].place
                      /\ resource'[r].status = IF r \in jobs THEN "CANCEL_REQUESTED" ELSE resource[r].status
                      /\ resource'[r].inflight = IF r \in jobs \cup watches THEN hooks
                                                 ELSE resource[r].inflight
    OBVIOUS
  <2>1. resource[r] \in Resource
    BY <1>typ
  <2>2. CASE r \in jobs
    <3>1. resource'[r] = CancelRequested(r) /\ r \notin watches
      BY <2>2, <1>res, <1>job
    <3> QED
      BY <2>1, <2>2, <3>1 DEF CancelRequested, Resource
  <2>3. CASE r \in watches
    <3>1. resource'[r] = WatchDetached(r) /\ r \notin jobs
      BY <2>3, <1>res, <1>wat
    <3> QED
      BY <2>1, <2>3, <3>1 DEF WatchDetached, Resource
  <2>4. CASE r \notin jobs \cup watches
    <3>1. resource'[r] = resource[r]
      BY <2>4, <1>res
    <3> QED
      BY <2>1, <2>4, <3>1
  <2> QED
    BY <2>2, <2>3, <2>4
<1> HIDE DEF jobs, watches
<1>a. subscription' \in [SubscriptionId -> Subscription]
  BY <1>typ DEF Withdraw, Subscription, NoSubscription, Nobody, NoResource
<1>b. resource' \in [SubscriptionId -> Resource]
  <2>1. ASSUME NEW r \in SubscriptionId
        PROVE  CancelRequested(r) \in Resource /\ WatchDetached(r) \in Resource
    <3>1. resource[r] \in Resource
      BY <1>typ
    <3> QED
      BY <3>1, <1>typ DEF CancelRequested, WatchDetached, Resource
  <2> QED
    BY <2>1, <1>typ DEF Withdraw
<1>c. batch' \in [SubscriptionId -> Threads \cup {NoThread}]
  BY <1>typ DEF Withdraw
<1>fin. IsFiniteSet(queued) /\ Cardinality(queued) \in Nat
  <2>1. queued \subseteq SubscriptionId
    BY <1>job, <1>wat
  <2> QED
    BY <2>1, FS_Subset, FS_CardinalityType
<1>d. callbackCount' \in Int
  BY <1>cnt, <1>fin, <1>typ
<1>e. Shape'
  <2> SUFFICES ASSUME NEW r \in SubscriptionId PROVE ObjectShape(r)'
    BY DEF Shape
  <2>1. ObjectShape(r) /\ lastSubscriptionId' = lastSubscriptionId
    BY DEF IInv, Shape
  <2>2. /\ resource'[r].kind = resource[r].kind
        /\ resource'[r].key = resource[r].key
        /\ resource'[r].place = IF r \in watches THEN "detached" ELSE resource[r].place
        /\ resource'[r].status = IF r \in jobs THEN "CANCEL_REQUESTED" ELSE resource[r].status
        /\ resource'[r].inflight = IF r \in jobs \cup watches THEN hooks
                                   ELSE resource[r].inflight
        /\ batch'[r] = IF r \in queued THEN t ELSE batch[r]
    BY <1>rec, <1>bat
  <2>3. t # NoThread
    BY ConstantsAssumption
  <2>4. CASE r \in jobs
    BY <2>1, <2>2, <2>3, <2>4, <1>job DEF ObjectShape
  <2>5. CASE r \in watches
    BY <2>1, <2>2, <2>3, <2>5, <1>wat DEF ObjectShape
  <2>6. CASE r \notin jobs \cup watches
    BY <2>1, <2>2, <2>6 DEF ObjectShape
  <2> QED
    BY <2>4, <2>5, <2>6
<1>f. \A r \in SubscriptionId : Subscribers(r)' = Subscribers(r) \ dropped
  <2> SUFFICES ASSUME NEW r \in SubscriptionId
               PROVE  Subscribers(r)' = Subscribers(r) \ dropped
    OBVIOUS
  <2>1. \A s \in dropped : subscription'[s].resource = 0
    BY <1>sub DEF NoSubscription, NoResource
  <2>2. \A s \in SubscriptionId \ dropped : subscription'[s].resource = subscription[s].resource
    BY <1>sub
  <2>3. r # 0
    OBVIOUS
  <2> QED
    BY <2>1, <2>2, <2>3 DEF Subscribers
<1>g. Wanted'
  <2> SUFFICES ASSUME NEW r \in SubscriptionId, resource'[r].place = "listed"
               PROVE  Subscribers(r)' = {}
                        <=> resource'[r].status \in {"CANCEL_REQUESTED", "REAPING"}
    BY DEF Wanted
  <2>1. /\ resource[r].place = "listed" /\ r \notin watches
        /\ resource'[r].kind = resource[r].kind
        /\ resource'[r].status = IF r \in jobs THEN "CANCEL_REQUESTED" ELSE resource[r].status
    BY <1>rec
  <2>2. Subscribers(r) = {} <=> resource[r].status \in {"CANCEL_REQUESTED", "REAPING"}
    BY <2>1 DEF IInv, Wanted
  <2>3. CASE r \in jobs
    BY <2>1, <2>3, <1>job, <1>f
  <2>4. CASE r \notin jobs /\ Subscribers(r) \cap dropped = {}
    BY <2>1, <2>2, <2>4, <1>f
  <2>5. CASE r \notin jobs /\ Subscribers(r) \cap dropped # {}
    <3>1. r \in examined
      BY <2>5 DEF Subscribers, NoResource
    <3>2. resource[r].kind \in {"job", "watch"} /\ ObjectShape(r)
      BY <2>1 DEF IInv, Shape, ObjectShape
    <3>3. resource[r].status \notin {"CANCEL_REQUESTED", "REAPING"}
      BY <2>2, <2>5
    <3>4. resource[r].status \in {"RUNNING", "NONE"}
      BY <3>3, <1>rec DEF Resource
    <3>5. ~(Subscribers(r) \subseteq dropped)
      BY <2>1, <2>5, <3>1, <3>2, <3>4 DEF jobs, watches, Abandoned, Unwatched, ObjectShape
    <3> QED
      BY <2>1, <2>5, <3>3, <3>5, <1>f
  <2> QED
    BY <2>3, <2>4, <2>5
<1>h. OnePhysicalResourcePerKey'
  <2>1. \A r \in SubscriptionId :
          /\ resource'[r].place = "listed" => resource[r].place = "listed"
          /\ resource'[r].kind = resource[r].kind
          /\ resource'[r].key = resource[r].key
    BY <1>rec
  <2>2. OnePhysicalResourcePerKey
    BY DEF IInv
  <2> QED
    BY <2>1, <2>2 DEF OnePhysicalResourcePerKey
<1>i. Calls'
  <2> SUFFICES ASSUME NEW u \in Threads, calling[u] # NoResource
               PROVE  batch'[calling[u]] = u /\ resource'[calling[u]].inflight
    BY DEF Calls
  <2>1. calling[u] \in SubscriptionId /\ batch[calling[u]] = u /\ resource[calling[u]].inflight
    BY DEF IInv, Calls, Typed
  <2>2. calling[u] \notin jobs \cup watches
    BY <2>1, <1>job, <1>wat
  <2>3. calling[u] \notin queued
    BY <2>2
  <2> QED
    BY <2>1, <2>2, <2>3, <1>rec, <1>bat
<1>j. CallbacksAccounted'
  <2>1. CASE hooks
    <3>1. Outstanding' = Outstanding \cup queued
      BY <2>1, <1>rec, <1>bat, <1>job, <1>wat, ConstantsAssumption DEF Outstanding
    <3>2. Outstanding \cap queued = {}
      BY <1>job, <1>wat DEF Outstanding
    <3>3. Cardinality(Outstanding') = Cardinality(Outstanding) + Cardinality(queued)
      BY <3>1, <3>2, <1>fin, OutstandingFinite, DisjointCardinality
    <3> QED
      BY <2>1, <3>3, <1>cnt DEF IInv, CallbacksAccounted
  <2>2. CASE ~hooks
    <3>1. Outstanding' = Outstanding
      BY <2>2, <1>rec, <1>bat, <1>job, <1>wat, <1>typ DEF Outstanding
    <3> QED
      BY <2>2, <3>1, <1>cnt, <1>typ DEF IInv, CallbacksAccounted
  <2> QED
    BY <2>1, <2>2
<1>k. \A s \in SubscriptionId \ dropped : subscription[s].resource # NoResource =>
        resource'[subscription[s].resource].place = "listed"
  <2> SUFFICES ASSUME NEW s \in SubscriptionId \ dropped, subscription[s].resource # NoResource
               PROVE  resource'[subscription[s].resource].place = "listed"
    OBVIOUS
  <2>1. /\ subscription[s].resource \in SubscriptionId
        /\ resource[subscription[s].resource].place = "listed"
    BY <1>typ DEF IInv, Owned, Subscription
  <2>2. s \in Subscribers(subscription[s].resource)
    BY DEF Subscribers
  <2>3. subscription[s].resource \notin watches
    BY <2>2, <1>wat
  <2> QED
    BY <2>1, <2>3, <1>rec
<1>l. \A r \in SubscriptionId : resource'[r].place = "listed" =>
        /\ resource[r].place = "listed"
        /\ resource[r].kind = resource'[r].kind
        /\ resource'[r].status = "RUNNING" => resource[r].status = "RUNNING"
  BY <1>rec
<1> QED
  BY <1>a, <1>b, <1>c, <1>d, <1>e, <1>g, <1>h, <1>i, <1>j, <1>sub, <1>k, <1>l
LEMMA ReleaseStep ==
  ASSUME IInv, NEW t \in Threads, Idle(t), NEW gone \in SUBSET live, gone # {},
         ReleaseClients(t, gone),
         UNCHANGED <<permanent, hooks, idVars, heartbeat, clock, calling, exitReady>>
  PROVE  IInv'
<1> USE IdFacts
<1> DEFINE dropped == {s \in SubscriptionId : subscription[s].client \in gone}
<1>1. /\ Withdraw(t, dropped, SubscriptionId)
      /\ live' = live \ gone
      /\ state' = IF live' = {} /\ ~permanent THEN "STOPPING" ELSE state
  BY DEF ReleaseClients
<1>2. UNCHANGED <<hooks, lastSubscriptionId, calling>>
  BY DEF idVars
<1>3. /\ subscription' \in [SubscriptionId -> Subscription]
      /\ resource' \in [SubscriptionId -> Resource]
      /\ batch' \in [SubscriptionId -> Threads \cup {NoThread}]
      /\ callbackCount' \in Int
      /\ Shape' /\ Wanted' /\ OnePhysicalResourcePerKey' /\ Calls'
      /\ CallbacksAccounted'
      /\ \A s \in SubscriptionId :
           subscription'[s] = IF s \in dropped THEN NoSubscription ELSE subscription[s]
      /\ \A s \in SubscriptionId \ dropped : subscription[s].resource # NoResource =>
           resource'[subscription[s].resource].place = "listed"
  <2>1. \A s \in dropped : subscription[s].resource # NoResource
                             => subscription[s].resource \in SubscriptionId
    BY DEF IInv, Typed, Subscription
  <2>2. dropped \in SUBSET SubscriptionId
    OBVIOUS
  <2> HIDE DEF dropped
  <2> QED
    BY <1>1, <1>2, <2>1, <2>2, WithdrawFacts
<1>4. Typed'
  BY <1>1, <1>3 DEF IInv, Typed, idVars
<1>5. Owned'
  <2> SUFFICES ASSUME NEW s \in SubscriptionId
               PROVE  /\ s > lastSubscriptionId => subscription'[s] = NoSubscription
                      /\ subscription'[s].resource = NoResource
                           => subscription'[s].client = Nobody
                      /\ subscription'[s].resource # NoResource =>
                           /\ subscription'[s].client \in live'
                           /\ resource'[subscription'[s].resource].place = "listed"
    BY <1>2 DEF Owned
  <2>1. CASE s \in dropped
    BY <1>3, <2>1 DEF NoSubscription
  <2>2. CASE s \notin dropped
    BY <1>1, <1>3, <2>2 DEF IInv, Owned
  <2> QED
    BY <2>1, <2>2
<1>6. state # "STOPPING" /\ ~exitReady
  BY DEF IInv, Stopped, Exited
<1>7. ClientIdsIssued'
  BY <1>1 DEF IInv, ClientIdsIssued, idVars
<1>8. Stopped'
  <2> SUFFICES ASSUME state' = "STOPPING"
               PROVE  /\ live' = {}
                      /\ \A r \in SubscriptionId : resource'[r].place = "listed" =>
                           resource'[r].kind = "job" /\ resource'[r].status # "RUNNING"
    BY DEF Stopped
  <2>1. live' = {}
    BY <1>1, <1>6
  <2>2. \A r \in SubscriptionId : Subscribers(r)' = {}
    BY <1>5, <2>1 DEF Owned, Subscribers, NoResource
  <2>3. \A r \in SubscriptionId : resource'[r].place = "listed" =>
          resource'[r].status \in {"CANCEL_REQUESTED", "REAPING"}
    BY <1>3, <2>2 DEF Wanted
  <2> QED
    BY <1>3, <2>1, <2>3 DEF Shape, ObjectShape
<1>9. Exited'
  BY <1>6 DEF Exited
<1> QED
  BY <1>3, <1>4, <1>5, <1>7, <1>8, <1>9 DEF IInv

LEMMA UnsubscribeStep ==
  ASSUME IInv, NEW t \in Threads, NEW kind \in {"job", "watch"}, NEW c \in ClientId,
         NEW s \in SubscriptionId, Unsubscribe(t, kind, c, s)
  PROVE  IInv'
<1> USE IdFacts
<1> DEFINE res == subscription[s].resource
<1>1. /\ Idle(t) /\ c \in live /\ subscription[s].client = c
      /\ Withdraw(t, {s}, {res})
      /\ UNCHANGED <<state, permanent, hooks, lastClientId, lastSubscriptionId, live,
                     heartbeat, clock, calling, exitReady>>
  BY DEF Unsubscribe, idVars, clientVars
<1>2. res # NoResource /\ res \in SubscriptionId
  BY <1>1 DEF IInv, Typed, Owned, Subscription, Nobody, NoResource
<1>3. /\ subscription' \in [SubscriptionId -> Subscription]
      /\ resource' \in [SubscriptionId -> Resource]
      /\ batch' \in [SubscriptionId -> Threads \cup {NoThread}]
      /\ callbackCount' \in Int
      /\ Shape' /\ Wanted' /\ OnePhysicalResourcePerKey' /\ Calls'
      /\ CallbacksAccounted'
      /\ \A q \in SubscriptionId :
           subscription'[q] = IF q \in {s} THEN NoSubscription ELSE subscription[q]
      /\ \A q \in SubscriptionId \ {s} : subscription[q].resource # NoResource =>
           resource'[subscription[q].resource].place = "listed"
  <2>1. {s} \in SUBSET SubscriptionId /\ {res} \in SUBSET SubscriptionId
    BY <1>2
  <2>2. \A q \in {s} : subscription[q].resource # NoResource
                         => subscription[q].resource \in {res}
    OBVIOUS
  <2> HIDE DEF res
  <2> QED
    BY <1>1, <2>1, <2>2, WithdrawFacts
<1>4. Typed'
  BY <1>1, <1>3 DEF IInv, Typed
<1>5. Owned'
  <2> SUFFICES ASSUME NEW q \in SubscriptionId
               PROVE  /\ q > lastSubscriptionId => subscription'[q] = NoSubscription
                      /\ subscription'[q].resource = NoResource
                           => subscription'[q].client = Nobody
                      /\ subscription'[q].resource # NoResource =>
                           /\ subscription'[q].client \in live'
                           /\ resource'[subscription'[q].resource].place = "listed"
    BY <1>1 DEF Owned
  <2>1. CASE q = s
    BY <1>3, <2>1 DEF NoSubscription
  <2>2. CASE q # s
    BY <1>1, <1>3, <2>2 DEF IInv, Owned
  <2> QED
    BY <2>1, <2>2
<1>6. state # "STOPPING" /\ ~exitReady
  BY <1>1 DEF IInv, Stopped, Exited
<1>7. ClientIdsIssued' /\ Stopped' /\ Exited'
  BY <1>1, <1>6 DEF IInv, ClientIdsIssued, Stopped, Exited
<1> QED
  BY <1>3, <1>4, <1>5, <1>7 DEF IInv
-----------------------------------------------------------------------------
(* The operations that touch no object: clients, flags and the clock.        *)

LEMMA ObjectsUnchanged ==
  ASSUME IInv, UNCHANGED <<lastSubscriptionId, subscription, resource, batch,
                           calling, callbackCount>>
  PROVE  Shape' /\ Wanted' /\ OnePhysicalResourcePerKey' /\ Calls' /\ CallbacksAccounted'
<1>1. Shape' /\ OnePhysicalResourcePerKey' /\ Calls'
  BY DEF IInv, Shape, ObjectShape, OnePhysicalResourcePerKey, Calls
<1>2. Wanted' /\ CallbacksAccounted'
  BY DEF IInv, Wanted, Subscribers, CallbacksAccounted, Outstanding
<1> QED
  BY <1>1, <1>2

LEMMA ClientStep ==
  ASSUME IInv,
         \/ SetPermanent
         \/ SetHooks
         \/ Tick
         \/ \E now \in 0..clock : ClientConnected(now)
         \/ \E now \in 0..clock, c \in ClientId : ClientHeartbeat(c, now)
         \/ ObserveExit
  PROVE  IInv'
<1> USE IdFacts DEF idVars, clientVars, batchVars
<1>1. UNCHANGED <<lastSubscriptionId, subscription, resource, batch, calling,
                  callbackCount>>
  BY DEF SetPermanent, SetHooks, Tick, ClientConnected, ClientHeartbeat, ObserveExit
<1>2. Shape' /\ Wanted' /\ OnePhysicalResourcePerKey' /\ Calls' /\ CallbacksAccounted'
  BY <1>1, ObjectsUnchanged
<1>3. Typed /\ Owned /\ ClientIdsIssued /\ Stopped /\ Exited
  BY DEF IInv
<1>4. CASE SetPermanent \/ SetHooks
  <2>0. /\ UNCHANGED <<state, lastClientId, lastSubscriptionId, live, heartbeat, clock,
                       subscription, resource, batch, calling, callbackCount, exitReady>>
        /\ permanent' \in BOOLEAN /\ hooks' \in BOOLEAN
    BY <1>3, <1>4 DEF SetPermanent, SetHooks, Typed
  <2>1. Typed' /\ Owned' /\ ClientIdsIssued' /\ Stopped' /\ Exited'
    BY <1>3, <2>0 DEF Typed, Owned, ClientIdsIssued, Stopped, Exited
  <2> QED
    BY <2>1, <1>2 DEF IInv
<1>5. CASE Tick
  <2>1. clock' \in Time
    BY <1>3, <1>5, ConstantsAssumption DEF Tick, Typed, Time
  <2>2. Typed' /\ Owned' /\ ClientIdsIssued' /\ Stopped' /\ Exited'
    BY <1>3, <1>5, <2>1 DEF Tick, Typed, Owned, ClientIdsIssued, Stopped, Exited
  <2> QED
    BY <2>2, <1>2 DEF IInv
<1>6. ASSUME NEW now \in 0..clock, ClientConnected(now)
      PROVE  IInv'
  <2>1. /\ state = "RUNNING"
        /\ lastClientId < MaxClientId
        /\ lastClientId' = lastClientId + 1
        /\ live' = live \cup {lastClientId'}
        /\ heartbeat' = [heartbeat EXCEPT ![lastClientId'] = now]
        /\ UNCHANGED <<state, permanent, hooks, lastSubscriptionId, clock,
                       subscription, resource, batch, calling, callbackCount, exitReady>>
    BY <1>6 DEF ClientConnected, Admitting
  <2>2. lastClientId' \in ClientId /\ lastClientId' \in 0..MaxClientId /\ now \in Time
    BY <2>1, <1>3, ConstantsAssumption DEF Typed, ClientId, Time
  <2>3. Typed'
    BY <1>3, <2>1, <2>2 DEF Typed
  <2>4. Owned' /\ Stopped'
    BY <1>3, <2>1 DEF Owned, Stopped
  <2>5. ClientIdsIssued'
    BY <1>3, <2>1 DEF ClientIdsIssued, Typed
  <2>6. Exited'
    BY <1>3, <2>1 DEF Exited
  <2> QED
    BY <1>2, <2>3, <2>4, <2>5, <2>6 DEF IInv
<1>7. ASSUME NEW now \in 0..clock, NEW c \in ClientId, ClientHeartbeat(c, now)
      PROVE  IInv'
  <2>1. now \in Time
    BY <1>3, ConstantsAssumption DEF Typed, Time
  <2>2. Typed'
    BY <1>3, <1>7, <2>1 DEF ClientHeartbeat, Typed
  <2>3. Owned' /\ ClientIdsIssued' /\ Stopped' /\ Exited'
    BY <1>3, <1>7 DEF ClientHeartbeat, Owned, ClientIdsIssued, Stopped, Exited
  <2> QED
    BY <1>2, <2>2, <2>3 DEF IInv
<1>8. CASE ObserveExit
  <2>1. Typed' /\ Owned' /\ ClientIdsIssued' /\ Stopped'
    BY <1>3, <1>8 DEF ObserveExit, Typed, Owned, ClientIdsIssued, Stopped
  <2>2. ASSUME NEW r \in SubscriptionId PROVE resource[r].place # "listed"
    <3>1. /\ {q \in SubscriptionId : /\ resource[q].place = "listed"
                                     /\ resource[q].kind = "job"
                                     /\ resource[q].key = resource[r].key} = {}
             \/ resource[r].key \notin Keys
          /\ {q \in SubscriptionId : /\ resource[q].place = "listed"
                                     /\ resource[q].kind = "watch"
                                     /\ resource[q].key = resource[r].key} = {}
             \/ resource[r].key \notin Keys
      BY <1>8 DEF ObserveExit, ShouldExit, AllListed, Listed
    <3> QED
      BY <3>1 DEF IInv, Shape, ObjectShape
  <2>3. Exited'
    BY <1>8, <2>2 DEF ObserveExit, ShouldExit, Exited
  <2> QED
    BY <1>2, <2>1, <2>3 DEF IInv
<1> QED
  BY <1>4, <1>5, <1>6, <1>7, <1>8

-----------------------------------------------------------------------------
(* Operations on one object.                                                 *)

LEMMA OutstandingUnchanged ==
  ASSUME \A r \in SubscriptionId : /\ batch'[r] = batch[r]
                                   /\ resource'[r].inflight = resource[r].inflight
  PROVE  Outstanding' = Outstanding
BY DEF Outstanding

LEMMA SubscribeStep ==
  ASSUME IInv, NEW kind \in {"job", "watch"}, NEW c \in ClientId, NEW key \in Keys,
         Subscribe(kind, c, key)
  PROVE  IInv'
<1> USE IdFacts
<1> DEFINE id == lastSubscriptionId + 1
           j  == Joined(kind, key, id)
<1>1. /\ state = "RUNNING"
      /\ c \in live
      /\ Joinable(kind, key)
      /\ id <= MaxSubscriptionId
      /\ lastSubscriptionId' = id
      /\ subscription' = [subscription EXCEPT ![id] = [client |-> c, resource |-> j]]
      /\ resource' = IF Listed(kind, key) = {}
                     THEN [resource EXCEPT ![id] = Started(kind, key)]
                     ELSE resource
      /\ UNCHANGED <<state, permanent, hooks, lastClientId, live, heartbeat, clock,
                     batch, calling, callbackCount, exitReady>>
  BY DEF Subscribe, Admitting, Existing, clientVars, batchVars
<1>2. /\ Typed /\ Shape /\ Owned /\ Wanted /\ OnePhysicalResourcePerKey /\ Calls
      /\ ClientIdsIssued /\ Stopped /\ CallbacksAccounted /\ Exited
  BY DEF IInv
<1>3. id \in SubscriptionId /\ id > lastSubscriptionId /\ id \in Nat /\ id # 0
  BY <1>1, <1>2, ConstantsAssumption DEF Typed, SubscriptionId
<1>4. /\ resource[id].place = "none" /\ ~resource[id].inflight /\ batch[id] = NoThread
      /\ subscription[id] = NoSubscription
  BY <1>2, <1>3 DEF Shape, ObjectShape, Owned, Typed, Resource
<1>5. Subscribers(id) = {}
  BY <1>2, <1>3, <1>4 DEF Subscribers, Owned, NoResource
<1>6. \A r \in SubscriptionId : r # id => resource'[r] = resource[r]
  BY <1>1, <1>2 DEF Typed
<1>7. /\ Started(kind, key) \in Resource
      /\ Started(kind, key).place = "listed"
      /\ Started(kind, key).kind = kind
      /\ Started(kind, key).key = key
      /\ Started(kind, key).status = IF kind = "job" THEN "RUNNING" ELSE "NONE"
      /\ Started(kind, key).inflight = FALSE
  BY DEF Started, Resource
<1>8. /\ j \in SubscriptionId
      /\ resource'[j].place = "listed" /\ resource'[j].kind = kind /\ resource'[j].key = key
      /\ resource'[j].status \in {"RUNNING", "NONE"}
  <2>1. CASE Listed(kind, key) = {}
    <3>1. j = id
      BY <2>1 DEF Joined, Existing
    <3>2. resource'[id] = Started(kind, key)
      BY <1>1, <1>2, <1>3, <2>1 DEF Typed
    <3> QED
      BY <1>3, <1>7, <3>1, <3>2
  <2>2. CASE Listed(kind, key) # {}
    <3>1. j \in Listed(kind, key)
      BY <2>2 DEF Joined, Existing
    <3>2. /\ j \in SubscriptionId
          /\ resource[j].place = "listed" /\ resource[j].kind = kind /\ resource[j].key = key
      BY <3>1 DEF Listed
    <3>3. resource[j].status \in {"RUNNING", "NONE"}
      BY <1>1, <1>2, <3>1, <3>2 DEF Joinable, Existing, Shape, ObjectShape
    <3> QED
      BY <1>1, <2>2, <3>2, <3>3
  <2> QED
    BY <2>1, <2>2
<1>9. /\ resource'[id] = IF Listed(kind, key) = {} THEN Started(kind, key) ELSE resource[id]
      /\ resource'[id].inflight = resource[id].inflight
  <2>1. resource'[id] = IF Listed(kind, key) = {} THEN Started(kind, key) ELSE resource[id]
    BY <1>1, <1>2, <1>3 DEF Typed
  <2>2. resource[id] \in Resource
    BY <1>2, <1>3 DEF Typed
  <2>3. resource[id].inflight = FALSE
    BY <2>2, <1>4 DEF Resource
  <2> QED
    BY <2>1, <2>3, <1>7
<1> HIDE DEF id, j
<1>10. Typed'
  <2>1. subscription' \in [SubscriptionId -> Subscription]
    BY <1>1, <1>2, <1>3, <1>8 DEF Typed, Subscription
  <2>2. resource' \in [SubscriptionId -> Resource]
    BY <1>1, <1>2, <1>3, <1>7 DEF Typed
  <2>3. lastSubscriptionId' \in 0..MaxSubscriptionId
    BY <1>1, <1>3, ConstantsAssumption
  <2> QED
    BY <1>1, <1>2, <2>1, <2>2, <2>3 DEF Typed
<1>11. Shape'
  <2> SUFFICES ASSUME NEW r \in SubscriptionId PROVE ObjectShape(r)'
    BY DEF Shape
  <2>1. ObjectShape(r) /\ lastSubscriptionId \in Nat /\ r \in Nat
    BY <1>2, ConstantsAssumption DEF Shape, Typed
  <2>2. CASE r # id
    BY <1>1, <1>3, <1>6, <2>1, <2>2 DEF ObjectShape, id
  <2>3. CASE r = id
    BY <1>1, <1>3, <1>4, <1>7, <1>9, <2>1, <2>3 DEF ObjectShape
  <2> QED
    BY <2>2, <2>3
<1>12. Owned'
  <2> SUFFICES ASSUME NEW s \in SubscriptionId
               PROVE  /\ s > lastSubscriptionId' => subscription'[s] = NoSubscription
                      /\ subscription'[s].resource = NoResource
                           => subscription'[s].client = Nobody
                      /\ subscription'[s].resource # NoResource =>
                           /\ subscription'[s].client \in live'
                           /\ resource'[subscription'[s].resource].place = "listed"
    BY DEF Owned
  <2>1. CASE s = id
    BY <1>1, <1>2, <1>3, <1>8, <2>1 DEF Typed, NoResource
  <2>2. CASE s # id
    <3>1. /\ subscription'[s] = subscription[s]
          /\ s > lastSubscriptionId' => s > lastSubscriptionId
      BY <1>1, <1>2, <1>3, <2>2 DEF Typed, id
    <3>2. subscription[s].resource # NoResource => subscription[s].resource # id
      BY <1>2, <1>4 DEF Owned
    <3>3. subscription[s].resource \in SubscriptionId \cup {NoResource}
      BY <1>2 DEF Typed, Subscription
    <3> QED
      BY <1>1, <1>2, <1>6, <3>1, <3>2, <3>3 DEF Owned
  <2> QED
    BY <2>1, <2>2
<1>13. Wanted'
  <2> SUFFICES ASSUME NEW r \in SubscriptionId, resource'[r].place = "listed"
               PROVE  Subscribers(r)' = {}
                        <=> resource'[r].status \in {"CANCEL_REQUESTED", "REAPING"}
    BY DEF Wanted
  <2>1. \A s \in SubscriptionId :
          subscription'[s].resource = IF s = id THEN j ELSE subscription[s].resource
    BY <1>1, <1>2 DEF Typed
  <2>2. CASE r = j
    <3>1. id \in Subscribers(r)'
      BY <1>3, <2>1, <2>2 DEF Subscribers
    <3> QED
      BY <1>8, <2>2, <3>1
  <2>3. CASE r # j
    <3>1. Subscribers(r)' = Subscribers(r)
      BY <1>3, <1>4, <2>1, <2>3 DEF Subscribers, NoSubscription, NoResource
    <3>2. r # id
      <4>1. CASE Listed(kind, key) = {}
        BY <2>3, <4>1 DEF Joined, Existing, j
      <4>2. CASE Listed(kind, key) # {}
        BY <1>4, <1>9, <4>2
      <4> QED
        BY <4>1, <4>2
    <3> QED
      BY <1>2, <1>6, <3>1, <3>2 DEF Wanted
  <2> QED
    BY <2>2, <2>3
<1>14. OnePhysicalResourcePerKey'
  <2> SUFFICES ASSUME NEW q \in SubscriptionId, NEW r \in SubscriptionId,
                      resource'[q].place = "listed", resource'[r].place = "listed",
                      resource'[q].kind = resource'[r].kind,
                      resource'[q].key = resource'[r].key
               PROVE  q = r
    BY DEF OnePhysicalResourcePerKey
  <2>1. CASE Listed(kind, key) = {}
    <3>1. \A p \in SubscriptionId : p # id => resource[p].place # "listed"
                                              \/ resource[p].kind # kind
                                              \/ resource[p].key # key
      BY <2>1 DEF Listed
    <3>2. /\ resource'[id].kind = kind /\ resource'[id].key = key
      BY <1>7, <1>9, <2>1
    <3> QED
      BY <1>2, <1>6, <3>1, <3>2 DEF OnePhysicalResourcePerKey
  <2>2. CASE Listed(kind, key) # {}
    BY <1>1, <1>2, <2>2 DEF OnePhysicalResourcePerKey
  <2> QED
    BY <2>1, <2>2
<1>15. Calls'
  <2> SUFFICES ASSUME NEW u \in Threads, calling[u] # NoResource
               PROVE  batch'[calling[u]] = u /\ resource'[calling[u]].inflight
    BY <1>1 DEF Calls
  <2>1. /\ calling[u] \in SubscriptionId /\ batch[calling[u]] = u
        /\ resource[calling[u]].inflight
    BY <1>2 DEF Calls, Typed
  <2>2. calling[u] # id
    BY <1>4, <2>1
  <2> QED
    BY <1>1, <1>6, <2>1, <2>2
<1>16. CallbacksAccounted'
  <2>1. Outstanding' = Outstanding
    BY <1>1, <1>6, <1>9, OutstandingUnchanged
  <2> QED
    BY <1>1, <1>2, <2>1 DEF CallbacksAccounted
<1>17. ClientIdsIssued' /\ Stopped' /\ Exited'
  BY <1>1, <1>2 DEF ClientIdsIssued, Stopped, Exited
<1> QED
  BY <1>10, <1>11, <1>12, <1>13, <1>14, <1>15, <1>16, <1>17 DEF IInv

LEMMA ReapingStep ==
  ASSUME IInv, NEW key \in Keys, JobReaping(key)
  PROVE  IInv'
<1> USE IdFacts
<1>1. PICK r \in Listed("job", key) :
        /\ resource[r].status = "CANCEL_REQUESTED"
        /\ resource' = [resource EXCEPT ![r].status = "REAPING"]
        /\ UNCHANGED <<state, permanent, hooks, lastClientId, lastSubscriptionId, live,
                       heartbeat, clock, subscription, batch, calling, callbackCount,
                       exitReady>>
  BY DEF JobReaping, idVars, clientVars, batchVars
<1>2. /\ Typed /\ Shape /\ Owned /\ Wanted /\ OnePhysicalResourcePerKey /\ Calls
      /\ ClientIdsIssued /\ Stopped /\ CallbacksAccounted /\ Exited
  BY DEF IInv
<1>3. /\ r \in SubscriptionId /\ resource[r].place = "listed" /\ resource[r].kind = "job"
  BY DEF Listed
<1>4. \A q \in SubscriptionId :
        /\ resource'[q] \in Resource
        /\ resource'[q].kind = resource[q].kind
        /\ resource'[q].key = resource[q].key
        /\ resource'[q].place = resource[q].place
        /\ resource'[q].inflight = resource[q].inflight
        /\ resource'[q].status = IF q = r THEN "REAPING" ELSE resource[q].status
  BY <1>1, <1>2, <1>3 DEF Typed, Resource
<1>5. Typed'
  <2>1. resource' \in [SubscriptionId -> Resource]
    BY <1>1, <1>2, <1>4 DEF Typed
  <2> QED
    BY <1>1, <1>2, <2>1 DEF Typed
<1>6. Shape'
  BY <1>1, <1>2, <1>3, <1>4 DEF Shape, ObjectShape
<1>7. Owned'
  BY <1>1, <1>2, <1>4 DEF Owned, Typed, Subscription
<1>8. Wanted'
  BY <1>1, <1>2, <1>4 DEF Wanted, Subscribers
<1>9. OnePhysicalResourcePerKey'
  BY <1>2, <1>4 DEF OnePhysicalResourcePerKey
<1>10. Calls'
  BY <1>1, <1>2, <1>4 DEF Calls, Typed
<1>11. CallbacksAccounted'
  BY <1>1, <1>2, <1>4, OutstandingUnchanged DEF CallbacksAccounted
<1>12. ClientIdsIssued' /\ Stopped' /\ Exited'
  BY <1>1, <1>2, <1>4 DEF ClientIdsIssued, Stopped, Exited
<1> QED
  BY <1>5, <1>6, <1>7, <1>8, <1>9, <1>10, <1>11, <1>12 DEF IInv

LEMMA TerminalStep ==
  ASSUME IInv, NEW key \in Keys, NEW requireCancellation \in BOOLEAN,
         TerminalJob(key, requireCancellation)
  PROVE  IInv'
<1> USE IdFacts
<1>1. PICK r \in Listed("job", key) :
        /\ resource' = [resource EXCEPT ![r].place = TerminalPlace(r)]
        /\ subscription' = [s \in SubscriptionId |->
                              IF s \in Subscribers(r) THEN NoSubscription
                              ELSE subscription[s]]
        /\ UNCHANGED <<state, permanent, hooks, lastClientId, lastSubscriptionId, live,
                       heartbeat, clock, batch, calling, callbackCount, exitReady>>
  BY DEF TerminalJob, idVars, clientVars, batchVars
<1>2. /\ Typed /\ Shape /\ Owned /\ Wanted /\ OnePhysicalResourcePerKey /\ Calls
      /\ ClientIdsIssued /\ Stopped /\ CallbacksAccounted /\ Exited
  BY DEF IInv
<1>3. /\ r \in SubscriptionId /\ resource[r].place = "listed" /\ resource[r].kind = "job"
  BY DEF Listed
<1>4. \A q \in SubscriptionId :
        /\ resource'[q] \in Resource
        /\ resource'[q].kind = resource[q].kind
        /\ resource'[q].key = resource[q].key
        /\ resource'[q].status = resource[q].status
        /\ resource'[q].inflight = resource[q].inflight
        /\ resource'[q].place = IF q = r THEN TerminalPlace(r) ELSE resource[q].place
  BY <1>1, <1>2, <1>3 DEF Typed, Resource, TerminalPlace
<1>5. \A s \in SubscriptionId :
        subscription'[s] = IF s \in Subscribers(r) THEN NoSubscription ELSE subscription[s]
  BY <1>1
<1>6. Typed'
  <2>1. resource' \in [SubscriptionId -> Resource]
    BY <1>1, <1>2, <1>4 DEF Typed
  <2>2. subscription' \in [SubscriptionId -> Subscription]
    BY <1>1, <1>2 DEF Typed, Subscription, NoSubscription, Nobody, NoResource
  <2> QED
    BY <1>1, <1>2, <2>1, <2>2 DEF Typed
<1>7. Shape'
  <2> SUFFICES ASSUME NEW q \in SubscriptionId PROVE ObjectShape(q)'
    BY DEF Shape
  <2>1. ObjectShape(q)
    BY <1>2 DEF Shape
  <2>2. CASE q # r
    BY <1>1, <1>4, <2>1, <2>2 DEF ObjectShape
  <2>3. CASE q = r
    BY <1>1, <1>3, <1>4, <2>1, <2>3 DEF ObjectShape, TerminalPlace
  <2> QED
    BY <2>2, <2>3
<1>8. Owned'
  <2> SUFFICES ASSUME NEW s \in SubscriptionId
               PROVE  /\ s > lastSubscriptionId => subscription'[s] = NoSubscription
                      /\ subscription'[s].resource = NoResource
                           => subscription'[s].client = Nobody
                      /\ subscription'[s].resource # NoResource =>
                           /\ subscription'[s].client \in live
                           /\ resource'[subscription'[s].resource].place = "listed"
    BY <1>1 DEF Owned
  <2>1. CASE s \in Subscribers(r)
    BY <1>5, <2>1 DEF NoSubscription
  <2>2. CASE s \notin Subscribers(r)
    <3>1. subscription[s].resource # r
      BY <2>2 DEF Subscribers
    <3>2. subscription[s].resource \in SubscriptionId \cup {NoResource}
      BY <1>2 DEF Typed, Subscription
    <3>3. subscription'[s] = subscription[s]
      BY <1>5, <2>2
    <3>4. subscription[s].resource # NoResource =>
            resource'[subscription[s].resource].place = resource[subscription[s].resource].place
      BY <1>4, <3>1, <3>2
    <3>5. /\ s > lastSubscriptionId => subscription[s] = NoSubscription
          /\ subscription[s].resource = NoResource => subscription[s].client = Nobody
          /\ subscription[s].resource # NoResource =>
               /\ subscription[s].client \in live
               /\ resource[subscription[s].resource].place = "listed"
      BY <1>2 DEF Owned
    <3> QED
      BY <3>3, <3>4, <3>5
  <2> QED
    BY <2>1, <2>2
<1>9. Wanted'
  <2> SUFFICES ASSUME NEW q \in SubscriptionId, resource'[q].place = "listed"
               PROVE  Subscribers(q)' = {}
                        <=> resource'[q].status \in {"CANCEL_REQUESTED", "REAPING"}
    BY DEF Wanted
  <2>1. q # r /\ resource[q].place = "listed" /\ resource'[q].status = resource[q].status
    BY <1>4 DEF TerminalPlace
  <2>2. Subscribers(q)' = Subscribers(q)
    <3>1. \A s \in SubscriptionId :
            subscription'[s].resource = IF subscription[s].resource = r THEN 0
                                        ELSE subscription[s].resource
      BY <1>5 DEF Subscribers, NoSubscription, NoResource
    <3> QED
      BY <2>1, <3>1 DEF Subscribers
  <2> QED
    BY <1>2, <2>1, <2>2 DEF Wanted
<1>10. OnePhysicalResourcePerKey'
  <2>1. \A q \in SubscriptionId : resource'[q].place = "listed" => resource[q].place = "listed"
    BY <1>3, <1>4
  <2>2. OnePhysicalResourcePerKey
    BY <1>2
  <2> QED
    BY <1>4, <2>1, <2>2 DEF OnePhysicalResourcePerKey
<1>11. Calls'
  BY <1>1, <1>2, <1>4 DEF Calls, Typed
<1>12. CallbacksAccounted'
  BY <1>1, <1>2, <1>4, OutstandingUnchanged DEF CallbacksAccounted
<1>13. ClientIdsIssued' /\ Stopped' /\ Exited'
  BY <1>1, <1>2, <1>3, <1>4 DEF ClientIdsIssued, Stopped, Exited
<1> QED
  BY <1>6, <1>7, <1>8, <1>9, <1>10, <1>11, <1>12, <1>13 DEF IInv

-----------------------------------------------------------------------------
(* callback_batch_run.                                                       *)

LEMMA RunCallbackStep ==
  ASSUME IInv, NEW t \in Threads, NEW r \in SubscriptionId, RunCallback(t, r)
  PROVE  IInv'
<1>1. /\ batch[r] = t /\ resource[r].inflight
      /\ calling' = [calling EXCEPT ![t] = r]
      /\ UNCHANGED <<state, permanent, hooks, lastClientId, lastSubscriptionId, live,
                     heartbeat, clock, subscription, resource, batch, callbackCount,
                     exitReady>>
  BY DEF RunCallback, idVars, clientVars
<1>2. Typed' /\ Calls'
  BY <1>1 DEF IInv, Typed, Calls
<1>3. Shape' /\ OnePhysicalResourcePerKey' /\ Owned'
  BY <1>1 DEF IInv, Shape, ObjectShape, OnePhysicalResourcePerKey, Owned
<1>4. Wanted' /\ CallbacksAccounted'
  BY <1>1 DEF IInv, Wanted, Subscribers, CallbacksAccounted, Outstanding
<1>5. ClientIdsIssued' /\ Stopped' /\ Exited'
  BY <1>1 DEF IInv, ClientIdsIssued, Stopped, Exited
<1> QED
  BY <1>2, <1>3, <1>4, <1>5 DEF IInv

\* Thread t takes r out of its batch, after its hook or without one.
Settle(t, r) ==
  /\ batch[r] = t
  /\ resource' = [resource EXCEPT ![r].inflight = FALSE, ![r].place = SettledPlace(r)]
  /\ batch' = [batch EXCEPT ![r] = NoThread]
  /\ \/ /\ calling[t] = r
        /\ calling' = [calling EXCEPT ![t] = NoResource]
        /\ callbackCount' = callbackCount - 1
     \/ /\ calling[t] = NoResource
        /\ ~resource[r].inflight
        /\ UNCHANGED <<calling, callbackCount>>
  /\ UNCHANGED <<state, permanent, hooks, lastClientId, lastSubscriptionId, live,
                 heartbeat, clock, subscription, exitReady>>

LEMMA SettleStep ==
  ASSUME IInv, NEW t \in Threads, NEW r \in SubscriptionId, Settle(t, r)
  PROVE  IInv'
<1> USE IdFacts
<1>un. UNCHANGED <<state, permanent, hooks, lastClientId, lastSubscriptionId, live,
                   heartbeat, clock, subscription, exitReady>>
  BY DEF Settle
<1>cal. \/ /\ calling[t] = r
           /\ calling' = [calling EXCEPT ![t] = NoResource]
           /\ callbackCount' = callbackCount - 1
        \/ /\ calling[t] = NoResource
           /\ ~resource[r].inflight
           /\ UNCHANGED <<calling, callbackCount>>
  BY DEF Settle
<1>typ. /\ resource \in [SubscriptionId -> Resource]
        /\ batch \in [SubscriptionId -> Threads \cup {NoThread}]
        /\ calling \in [Threads -> SubscriptionId \cup {NoResource}]
        /\ subscription \in [SubscriptionId -> Subscription]
        /\ callbackCount \in Int
  BY DEF IInv, Typed
<1>1. t # NoThread /\ batch[r] = t
  BY ConstantsAssumption DEF Settle
<1>2. /\ Typed /\ Shape /\ Owned /\ Wanted /\ OnePhysicalResourcePerKey /\ Calls
      /\ ClientIdsIssued /\ Stopped /\ CallbacksAccounted /\ Exited
  BY DEF IInv
<1>3. \A q \in SubscriptionId :
        /\ resource'[q] \in Resource
        /\ resource'[q].kind = resource[q].kind
        /\ resource'[q].key = resource[q].key
        /\ resource'[q].status = resource[q].status
        /\ resource'[q].inflight = IF q = r THEN FALSE ELSE resource[q].inflight
        /\ resource'[q].place = IF q = r THEN SettledPlace(r) ELSE resource[q].place
        /\ batch'[q] = IF q = r THEN NoThread ELSE batch[q]
  <2> SUFFICES ASSUME NEW q \in SubscriptionId
               PROVE  /\ resource'[q] \in Resource
                      /\ resource'[q].kind = resource[q].kind
                      /\ resource'[q].key = resource[q].key
                      /\ resource'[q].status = resource[q].status
                      /\ resource'[q].inflight = IF q = r THEN FALSE ELSE resource[q].inflight
                      /\ resource'[q].place = IF q = r THEN SettledPlace(r) ELSE resource[q].place
                      /\ batch'[q] = IF q = r THEN NoThread ELSE batch[q]
    OBVIOUS
  <2>1. batch'[q] = IF q = r THEN NoThread ELSE batch[q]
    BY <1>typ DEF Settle
  <2>2. resource[q] \in Resource
    BY <1>typ
  <2>3. CASE q # r
    <3>1. resource'[q] = resource[q]
      BY <1>typ, <2>3 DEF Settle
    <3> QED
      BY <2>1, <2>2, <2>3, <3>1
  <2>4. CASE q = r
    <3>1. resource'[r] = [resource[r] EXCEPT !.inflight = FALSE, !.place = SettledPlace(r)]
      BY <1>typ DEF Settle
    <3>2. SettledPlace(r) \in {"none", "listed", "detached", "freed"}
      BY <2>2, <2>4 DEF Resource, SettledPlace
    <3> QED
      BY <2>1, <2>2, <2>4, <3>1, <3>2 DEF Resource
  <2> QED
    BY <2>3, <2>4
<1>4. /\ resource[r].place \in {"listed", "detached"}
      /\ resource[r].place = "detached" => SettledPlace(r) = "freed"
      /\ resource[r].place = "listed" => SettledPlace(r) = "listed"
  BY <1>1, <1>2 DEF Shape, ObjectShape, SettledPlace
<1>5. \A q \in SubscriptionId : resource'[q].place = "listed" <=> resource[q].place = "listed"
  BY <1>3, <1>4
<1>6. Typed'
  <2>1. resource' \in [SubscriptionId -> Resource]
    <3>1. resource' = [q \in SubscriptionId |-> resource'[q]]
      BY <1>typ DEF Settle
    <3> QED
      BY <3>1, <1>3
  <2>2. /\ batch' \in [SubscriptionId -> Threads \cup {NoThread}]
        /\ calling' \in [Threads -> SubscriptionId \cup {NoResource}]
        /\ callbackCount' \in Int
    BY <1>typ, <1>cal DEF Settle, NoResource
  <2> QED
    BY <1>2, <1>un, <2>1, <2>2 DEF Typed
<1>7. Shape'
  <2> SUFFICES ASSUME NEW q \in SubscriptionId PROVE ObjectShape(q)'
    BY DEF Shape
  <2>1. ObjectShape(q)
    BY <1>2 DEF Shape
  <2>2. CASE q # r
    <3>1. /\ resource'[q].kind = resource[q].kind
          /\ resource'[q].key = resource[q].key
          /\ resource'[q].status = resource[q].status
          /\ resource'[q].inflight = resource[q].inflight
          /\ resource'[q].place = resource[q].place
          /\ batch'[q] = batch[q]
      BY <1>3, <2>2
    <3>2. lastSubscriptionId' = lastSubscriptionId
      BY <1>un
    <3> QED
      BY <2>1, <3>1, <3>2 DEF ObjectShape
  <2>3. CASE q = r
    BY <1>un, <1>1, <1>3, <1>4, <2>1, <2>3 DEF ObjectShape
  <2> QED
    BY <2>2, <2>3
<1>8. Owned'
  <2> SUFFICES ASSUME NEW s \in SubscriptionId, subscription[s].resource # NoResource
               PROVE  resource'[subscription[s].resource].place = "listed"
    BY <1>2, <1>un DEF Owned
  <2>1. subscription[s].resource \in SubscriptionId
    BY <1>typ DEF Subscription
  <2> QED
    BY <1>2, <1>5, <2>1 DEF Owned
<1>9. Wanted'
  <2>1. \A q \in SubscriptionId : Subscribers(q)' = Subscribers(q)
    BY <1>un DEF Subscribers
  <2>2. Wanted
    BY <1>2
  <2> QED
    BY <1>3, <1>5, <2>1, <2>2 DEF Wanted
<1>10. OnePhysicalResourcePerKey'
  <2>1. OnePhysicalResourcePerKey
    BY <1>2
  <2>2. \A q \in SubscriptionId :
          /\ resource'[q].place = "listed" => resource[q].place = "listed"
          /\ resource'[q].kind = resource[q].kind
          /\ resource'[q].key = resource[q].key
    BY <1>3, <1>5
  <2> SUFFICES ASSUME NEW q1 \in SubscriptionId, NEW q2 \in SubscriptionId,
                      resource'[q1].place = "listed", resource'[q2].place = "listed",
                      resource'[q1].kind = resource'[q2].kind,
                      resource'[q1].key = resource'[q2].key
               PROVE  q1 = q2
    BY DEF OnePhysicalResourcePerKey
  <2>3. /\ resource[q1].place = "listed" /\ resource[q2].place = "listed"
        /\ resource[q1].kind = resource[q2].kind
        /\ resource[q1].key = resource[q2].key
    BY ONLY <2>2, q1 \in SubscriptionId, q2 \in SubscriptionId,
            resource'[q1].place = "listed", resource'[q2].place = "listed",
            resource'[q1].kind = resource'[q2].kind,
            resource'[q1].key = resource'[q2].key
  <2> QED
    BY ONLY <2>1, <2>3, q1 \in SubscriptionId, q2 \in SubscriptionId
       DEF OnePhysicalResourcePerKey
<1>11. Calls'
  <2> SUFFICES ASSUME NEW u \in Threads, calling'[u] # NoResource
               PROVE  batch'[calling'[u]] = u /\ resource'[calling'[u]].inflight
    BY DEF Calls
  <2>1. u # t
    BY <1>cal, <1>typ
  <2>2. calling'[u] = calling[u]
    BY <1>cal, <1>typ, <2>1
  <2>3. /\ calling[u] \in SubscriptionId /\ batch[calling[u]] = u
        /\ resource[calling[u]].inflight
    BY <1>2, <1>typ, <2>2 DEF Calls
  <2>4. calling[u] # r
    BY <1>1, <2>1, <2>3
  <2>5. /\ resource'[calling[u]].inflight = resource[calling[u]].inflight
        /\ batch'[calling[u]] = batch[calling[u]]
    BY <1>3, <2>3, <2>4
  <2> QED
    BY ONLY <2>2, <2>3, <2>5
<1>12. CallbacksAccounted'
  <2>1. CASE calling[t] = r
    <3>1. resource[r].inflight /\ callbackCount' = callbackCount - 1
      BY <1>2, <1>cal, <2>1 DEF Calls, NoResource
    <3>2. r \in Outstanding /\ Outstanding' = Outstanding \ {r}
      <4>1. \A q \in SubscriptionId :
              q \in Outstanding' <=> q \in Outstanding /\ q # r
        BY <1>3 DEF Outstanding
      <4>2. Outstanding \subseteq SubscriptionId /\ Outstanding' \subseteq SubscriptionId
        BY DEF Outstanding
      <4> QED
        BY <1>1, <3>1, <4>1, <4>2 DEF Outstanding
    <3>3. Cardinality(Outstanding \ {r}) = Cardinality(Outstanding) - 1
      BY <3>2, OutstandingFinite, FS_RemoveElement
    <3> QED
      BY <1>2, <3>1, <3>2, <3>3 DEF CallbacksAccounted
  <2>2. CASE calling[t] = NoResource
    <3>1. ~resource[r].inflight /\ callbackCount' = callbackCount
      BY <1>cal, <2>2 DEF NoResource
    <3>2. Outstanding' = Outstanding
      <4>1. \A q \in SubscriptionId : q \in Outstanding' <=> q \in Outstanding
        BY <1>3, <3>1 DEF Outstanding
      <4>2. Outstanding \subseteq SubscriptionId /\ Outstanding' \subseteq SubscriptionId
        BY DEF Outstanding
      <4> QED
        BY <4>1, <4>2
    <3> QED
      BY <1>2, <3>1, <3>2 DEF CallbacksAccounted
  <2> QED
    BY <1>cal, <2>1, <2>2
<1>13. ClientIdsIssued' /\ Stopped'
  BY <1>2, <1>un, <1>3, <1>5 DEF ClientIdsIssued, Stopped
<1>14. Exited'
  <2> SUFFICES ASSUME exitReady
               PROVE  callbackCount' = 0
    BY <1>2, <1>un, <1>5 DEF Exited
  <2>1. Outstanding = {}
    BY <1>2, OutstandingFinite, FS_EmptySet DEF Exited, CallbacksAccounted
  <2>2. ~resource[r].inflight
    BY <1>1, <2>1 DEF Outstanding
  <2>3. calling[t] # r
    BY <1>2, <2>2 DEF Calls, NoResource
  <2> QED
    BY <1>2, <1>cal, <2>3 DEF Exited
<1> QED
  BY <1>6, <1>7, <1>8, <1>9, <1>10, <1>11, <1>12, <1>13, <1>14 DEF IInv

LEMMA BatchStep ==
  ASSUME IInv, NEW t \in Threads, Batch(t)
  PROVE  IInv'
<1>1. ASSUME NEW r \in SubscriptionId, RunCallback(t, r) PROVE IInv'
  BY <1>1, RunCallbackStep
<1>2. ASSUME NEW r \in SubscriptionId, FreeWatch(t, r) PROVE IInv'
  <2>1. /\ batch[r] = t /\ t # NoThread /\ resource[r].kind = "watch"
        /\ ~resource[r].inflight /\ calling[t] = NoResource
        /\ resource \in [SubscriptionId -> Resource]
    BY <1>2, ConstantsAssumption DEF FreeWatch, IInv, Typed
  <2>2. resource[r].place = "detached" /\ SettledPlace(r) = "freed"
    BY <2>1 DEF IInv, Shape, ObjectShape, SettledPlace
  <2>3. [resource EXCEPT ![r].place = "freed"]
          = [resource EXCEPT ![r].inflight = FALSE, ![r].place = SettledPlace(r)]
    <3>1. resource[r] \in Resource
      BY <2>1
    <3>2. [resource[r] EXCEPT !.place = "freed"]
            = [resource[r] EXCEPT !.inflight = FALSE, !.place = "freed"]
      BY <2>1, <3>1 DEF Resource
    <3> QED
      BY <2>1, <2>2, <3>2
  <2>4. /\ resource' = [resource EXCEPT ![r].inflight = FALSE, ![r].place = SettledPlace(r)]
        /\ batch' = [batch EXCEPT ![r] = NoThread]
        /\ UNCHANGED <<calling, callbackCount>>
        /\ UNCHANGED <<state, permanent, hooks, lastClientId, lastSubscriptionId, live,
                       heartbeat, clock, subscription, exitReady>>
    BY <1>2, <2>3 DEF FreeWatch, idVars, clientVars
  <2>5. Settle(t, r)
    BY <2>1, <2>4 DEF Settle
  <2> QED
    BY <2>5, SettleStep
<1>3. CASE FinishCallback(t)
  <2> DEFINE r == calling[t]
  <2>1. r \in SubscriptionId /\ batch[r] = t /\ resource[r].inflight
    BY <1>3 DEF FinishCallback, IInv, Typed, Calls
  <2>2. /\ resource' = [resource EXCEPT ![r].inflight = FALSE, ![r].place = SettledPlace(r)]
        /\ batch' = [batch EXCEPT ![r] = NoThread]
        /\ calling' = [calling EXCEPT ![t] = NoResource]
        /\ callbackCount' = callbackCount - 1
        /\ UNCHANGED <<state, permanent, hooks, lastClientId, lastSubscriptionId, live,
                       heartbeat, clock, subscription, exitReady>>
    BY <1>3 DEF FinishCallback, idVars, clientVars
  <2>3. Settle(t, r)
    BY <2>1, <2>2 DEF Settle
  <2> HIDE DEF r
  <2> QED
    BY <2>1, <2>3, SettleStep
<1> QED
  BY <1>1, <1>2, <1>3 DEF Batch

-----------------------------------------------------------------------------

LEMMA NextIInv == IInv /\ [Next]_vars => IInv'
<1> SUFFICES ASSUME IInv, [Next]_vars PROVE IInv'
  OBVIOUS
<1>1. CASE \/ SetPermanent
           \/ SetHooks
           \/ Tick
           \/ \E now \in 0..clock : ClientConnected(now)
           \/ \E now \in 0..clock, c \in ClientId : ClientHeartbeat(c, now)
           \/ ObserveExit
  BY <1>1, ClientStep
<1>2. ASSUME NEW t \in Threads, NEW c \in ClientId, ClientDisconnected(t, c)
      PROVE  IInv'
  <2>1. {c} \in SUBSET live /\ {c} # {} /\ Idle(t) /\ ReleaseClients(t, {c})
    BY <1>2 DEF ClientDisconnected
  <2>2. UNCHANGED <<permanent, hooks, idVars, heartbeat, clock, calling, exitReady>>
    BY <1>2 DEF ClientDisconnected
  <2> QED
    BY <2>1, <2>2, ReleaseStep
<1>3. ASSUME NEW t \in Threads, NEW now \in 0..clock, ExpireLeases(t, now)
      PROVE  IInv'
  <2>1. /\ Expired(now) \in SUBSET live /\ Expired(now) # {}
        /\ Idle(t) /\ ReleaseClients(t, Expired(now))
    BY <1>3 DEF ExpireLeases, Expired
  <2>2. UNCHANGED <<permanent, hooks, idVars, heartbeat, clock, calling, exitReady>>
    BY <1>3 DEF ExpireLeases
  <2> QED
    BY <2>1, <2>2, ReleaseStep
<1>4. ASSUME NEW kind \in {"job", "watch"}, NEW c \in ClientId, NEW key \in Keys,
             Subscribe(kind, c, key)
      PROVE  IInv'
  BY <1>4, SubscribeStep
<1>5. ASSUME NEW t \in Threads, NEW kind \in {"job", "watch"}, NEW c \in ClientId,
             NEW s \in SubscriptionId, Unsubscribe(t, kind, c, s)
      PROVE  IInv'
  BY <1>5, UnsubscribeStep
<1>6. ASSUME NEW key \in Keys, JobReaping(key) \/ JobReaped(key) \/ JobCompleted(key)
      PROVE  IInv'
  BY <1>6, ReapingStep, TerminalStep DEF JobReaped, JobCompleted
<1>7. ASSUME NEW t \in Threads, Batch(t)
      PROVE  IInv'
  BY <1>7, BatchStep
<1>8. CASE UNCHANGED vars
  <2>1. UNCHANGED <<lastSubscriptionId, subscription, resource, batch, calling,
                    callbackCount>>
    BY <1>8 DEF vars
  <2>2. Shape' /\ Wanted' /\ OnePhysicalResourcePerKey' /\ Calls' /\ CallbacksAccounted'
    BY <2>1, ObjectsUnchanged
  <2>3. Typed' /\ Owned' /\ ClientIdsIssued' /\ Stopped' /\ Exited'
    BY <1>8 DEF vars, IInv, Typed, Owned, ClientIdsIssued, Stopped, Exited
  <2> QED
    BY <2>2, <2>3 DEF IInv
<1> QED
  BY <1>1, <1>2, <1>3, <1>4, <1>5, <1>6, <1>7, <1>8 DEF Next

LEMMA Inductive == Spec => []IInv
BY InitIInv, NextIInv, PTL DEF Spec

-----------------------------------------------------------------------------
(* The properties.                                                           *)

\* The state always has the types of the C structures; in particular
\* callback_count, a size_t, never underflows.
THEOREM TypeCorrect == Spec => []TypeOK
<1>1. IInv => TypeOK
  BY OutstandingFinite DEF IInv, Typed, CallbacksAccounted, TypeOK
<1> QED
  BY <1>1, Inductive, PTL

\* Whatever connects, expires, cancels and completes, a project key has at most
\* one physical job and one physical watch.
THEOREM Coalescing == Spec => []OnePhysicalResourcePerKey
<1>1. IInv => OnePhysicalResourcePerKey
  BY DEF IInv
<1> QED
  BY <1>1, Inductive, PTL

\* Each key has one job and one watch, and they live exactly as long as a
\* connected client subscribes to them.
THEOREM WorkFollowsDemand == Spec => []WorkMatchesDemand
<1>1. IInv => WorkIsWanted
  BY DEF IInv, Wanted, Owned, WorkIsWanted
<1>2. IInv => OnePhysicalResourcePerKey
  BY DEF IInv
<1> QED
  BY <1>1, <1>2, Inductive, PTL DEF WorkMatchesDemand

\* callback_count is the number of hooks queued or running.
THEOREM CallbackAccounting == Spec => []CallbacksAccounted
<1>1. IInv => CallbacksAccounted
  BY DEF IInv
<1> QED
  BY <1>1, Inductive, PTL

\* No batch holds freed memory, and nothing detached is forgotten.
THEOREM NoUseAfterFree == Spec => []ObjectsFreedOnce
<1>1. IInv => ObjectsFreedOnce
  BY DEF IInv, Shape, ObjectShape, ObjectsFreedOnce
<1> QED
  BY <1>1, Inductive, PTL

\* Both: the hooks that run outside the mutex work on live objects, and each is
\* counted until it has returned.
THEOREM CallbackSafety == Spec => []CallbacksSafe
BY NoUseAfterFree, CallbackAccounting, PTL DEF CallbacksSafe

\* A stopping coordinator owns no client, no watch and no running job.
THEOREM StoppingReleasesAll == Spec => []StoppingOwnsNothing
<1>1. IInv => StoppingOwnsNothing
  BY DEF IInv, Stopped, StoppingOwnsNothing, AllListed, Listed
<1> QED
  BY <1>1, Inductive, PTL

\* The answer TRUE of should_exit is final, and no hook is running then.
THEOREM ExitAnswerFinal == Spec => []ExitIsFinal
<1>1. IInv => ExitIsFinal
  <2> SUFFICES ASSUME IInv, exitReady
               PROVE  ShouldExit /\ \A t \in Threads : calling[t] = NoResource
    BY DEF ExitIsFinal
  <2>1. /\ state = "STOPPING" /\ live = {} /\ callbackCount = 0
        /\ \A r \in SubscriptionId : resource[r].place # "listed"
    BY DEF IInv, Exited, Stopped
  <2>2. ShouldExit
    BY <2>1 DEF ShouldExit, AllListed, Listed
  <2>3. Outstanding = {}
    BY <2>1, OutstandingFinite, FS_EmptySet DEF IInv, CallbacksAccounted
  <2>4. \A t \in Threads : calling[t] = NoResource
    BY <2>3, ConstantsAssumption DEF IInv, Calls, Typed, Outstanding
  <2> QED
    BY <2>2, <2>4
<1> QED
  BY <1>1, Inductive, PTL

-----------------------------------------------------------------------------
(***************************************************************************)
(* That the coordinator implements SharedWork, and that no expiry takes a   *)
(* client whose lease is still running, for all values of the constants.    *)
(***************************************************************************)

Kind == {"job", "watch"}

\* What the subscription s claims.
ClaimOf(s) == <<subscription[s].client, resource[subscription[s].resource].kind,
                resource[subscription[s].resource].key>>

Active == {s \in SubscriptionId : subscription[s].resource # NoResource}

\* Somebody subscribes to the object of this key.
Wants(k, y) == \E s \in Active : /\ resource[subscription[s].resource].kind = k
                                 /\ resource[subscription[s].resource].key = y

\* What the abstract work is in a state that satisfies the invariant.
WorkShape ==
  /\ DOMAIN workBar = Kind
  /\ \A k \in Kind : DOMAIN workBar[k] = Keys
  /\ \A k \in Kind, y \in Keys :
       /\ workBar[k][y] = IF Listed(k, y) = {} THEN "idle"
                          ELSE IF Wants(k, y) THEN "active" ELSE "ending"
       /\ Work!Claimed(claimsBar, k, y) <=> Wants(k, y)

LEMMA Sharing == IInv => WorkShape
<1> SUFFICES ASSUME IInv PROVE WorkShape
  OBVIOUS
<1> USE IdFacts
<1>1. DOMAIN workBar = Kind /\ \A k \in Kind : DOMAIN workBar[k] = Keys
  BY DEF workBar, Kind
<1>2. ASSUME NEW k \in Kind, NEW y \in Keys
      PROVE  workBar[k][y] = IF Listed(k, y) = {} THEN "idle"
                             ELSE IF Wants(k, y) THEN "active" ELSE "ending"
  <2>1. workBar[k][y] = IF Listed(k, y) = {} THEN "idle"
                        ELSE IF \E r \in Listed(k, y) :
                                  resource[r].status \in {"CANCEL_REQUESTED", "REAPING"}
                        THEN "ending" ELSE "active"
    BY DEF workBar, Kind
  <2>2. \A q, r \in Listed(k, y) : q = r
    BY DEF IInv, OnePhysicalResourcePerKey, Listed
  <2>3. ASSUME NEW r \in Listed(k, y)
        PROVE  Wants(k, y) <=> resource[r].status \notin {"CANCEL_REQUESTED", "REAPING"}
    <3>1. /\ r \in SubscriptionId /\ resource[r].place = "listed"
          /\ resource[r].kind = k /\ resource[r].key = y
      BY DEF Listed
    <3>2. Subscribers(r) = {} <=> resource[r].status \in {"CANCEL_REQUESTED", "REAPING"}
      BY <3>1 DEF IInv, Wanted
    <3>3. ASSUME NEW s \in Active, resource[subscription[s].resource].kind = k,
                 resource[subscription[s].resource].key = y
          PROVE  s \in Subscribers(r)
      <4>1. subscription[s].resource \in Listed(k, y)
        BY <3>3 DEF Active, IInv, Owned, Typed, Subscription, NoResource, Listed
      <4> QED
        BY <4>1, <2>2 DEF Subscribers, Active
    <3>4. \A s \in Subscribers(r) : s \in Active /\ subscription[s].resource = r
      BY <3>1 DEF Subscribers, Active, NoResource
    <3> QED
      BY <3>1, <3>2, <3>3, <3>4 DEF Wants
  <2> QED
    BY <2>1, <2>2, <2>3
<1>3. ASSUME NEW k \in Kind, NEW y \in Keys
      PROVE  Work!Claimed(claimsBar, k, y) <=> Wants(k, y)
  <2>1. claimsBar = {ClaimOf(s) : s \in Active}
    BY DEF claimsBar, ClaimOf, Active
  <2>2. \A s \in Active : subscription[s].client \in ClientId
    BY DEF Active, IInv, Owned, Typed
  <2>3. ASSUME Wants(k, y) PROVE Work!Claimed(claimsBar, k, y)
    <3>1. PICK s \in Active : /\ resource[subscription[s].resource].kind = k
                              /\ resource[subscription[s].resource].key = y
      BY <2>3 DEF Wants
    <3>2. <<subscription[s].client, k, y>> \in claimsBar
      BY <2>1, <3>1 DEF ClaimOf
    <3> QED
      BY <2>2, <3>2 DEF Work!Claimed
  <2>4. ASSUME Work!Claimed(claimsBar, k, y) PROVE Wants(k, y)
    <3>1. PICK m \in ClientId : <<m, k, y>> \in claimsBar
      BY <2>4 DEF Work!Claimed
    <3>2. PICK s \in Active : <<m, k, y>> = ClaimOf(s)
      BY <3>1, <2>1
    <3> QED
      BY <3>2 DEF ClaimOf, Wants
  <2> QED
    BY <2>3, <2>4
<1> QED
  BY <1>1, <1>2, <1>3 DEF WorkShape

LEMMA SharingNext == IInv' => WorkShape'
BY Sharing, PTL

\* A step that neither lists nor unlists anything, nor touches a subscription, is
\* not seen.
LEMMA Unseen ==
  ASSUME IInv, IInv', subscription' = subscription,
         \A r \in SubscriptionId :
           /\ resource'[r].place = "listed" <=> resource[r].place = "listed"
           /\ resource'[r].kind = resource[r].kind
           /\ resource'[r].key = resource[r].key
  PROVE  claimsBar' = claimsBar /\ workBar' = workBar
<1> USE IdFacts
<1>1. \A s \in Active : subscription[s].resource \in SubscriptionId
  BY DEF Active, IInv, Typed, Subscription, NoResource
<1>2. Active' = Active /\ \A s \in Active : ClaimOf(s)' = ClaimOf(s)
  BY <1>1 DEF Active, ClaimOf
<1>3. claimsBar = {ClaimOf(s) : s \in Active} /\ claimsBar' = {ClaimOf(s)' : s \in Active'}
  BY DEF claimsBar, ClaimOf, Active
<1>4. claimsBar' = claimsBar
  BY <1>2, <1>3
<1>5. \A k \in Kind, y \in Keys : /\ Listed(k, y)' = Listed(k, y)
                                  /\ Wants(k, y)' = Wants(k, y)
  BY <1>1, <1>2 DEF Listed, Wants
<1>6. WorkShape /\ WorkShape'
  BY Sharing, SharingNext
<1>7. workBar' = workBar
  BY <1>5, <1>6 DEF WorkShape, workBar, Kind
<1> QED
  BY <1>4, <1>7

-----------------------------------------------------------------------------
(* Withdrawals.                                                              *)

LEMMA WithdrawSeen ==
  ASSUME IInv, IInv', NEW t \in Threads,
         NEW dropped \in SUBSET SubscriptionId,
         NEW examined \in SUBSET SubscriptionId,
         \A s \in dropped : subscription[s].resource # NoResource
                              => subscription[s].resource \in examined,
         Withdraw(t, dropped, examined)
  PROVE  /\ claimsBar' = {ClaimOf(s) : s \in Active \ dropped}
         /\ workBar' = Work!Remaining(claimsBar')
<1> USE IdFacts
<1> DEFINE jobs    == Abandoned(dropped, examined)
           watches == Unwatched(dropped, examined)
<1>typ. /\ subscription \in [SubscriptionId -> Subscription]
        /\ resource \in [SubscriptionId -> Resource]
  BY DEF IInv, Typed
<1>1. \A s \in SubscriptionId :
        subscription'[s] = IF s \in dropped THEN NoSubscription ELSE subscription[s]
  BY DEF Withdraw
<1>2. \A r \in SubscriptionId :
        /\ resource'[r].kind = resource[r].kind
        /\ resource'[r].key = resource[r].key
        /\ resource'[r].place = IF r \in watches THEN "detached" ELSE resource[r].place
  <2> SUFFICES ASSUME NEW r \in SubscriptionId
               PROVE  /\ resource'[r].kind = resource[r].kind
                      /\ resource'[r].key = resource[r].key
                      /\ resource'[r].place = IF r \in watches THEN "detached"
                                              ELSE resource[r].place
    OBVIOUS
  <2>1. resource'[r] = IF r \in jobs THEN CancelRequested(r)
                       ELSE IF r \in watches THEN WatchDetached(r) ELSE resource[r]
    BY DEF Withdraw
  <2>2. r \in jobs => r \notin watches
    BY DEF Abandoned, Unwatched
  <2>3. resource[r] \in Resource
    BY <1>typ
  <2> QED
    BY <2>1, <2>2, <2>3 DEF CancelRequested, WatchDetached, Resource
<1>3. Active' = Active \ dropped
  <2>1. \A s \in SubscriptionId : subscription'[s].resource # NoResource
                                <=> s \notin dropped /\ subscription[s].resource # NoResource
    BY <1>1 DEF NoSubscription
  <2>2. Active' = {s \in SubscriptionId : subscription'[s].resource # NoResource}
    BY DEF Active, NoResource
  <2> QED
    BY <2>1, <2>2 DEF Active
<1>4. \A s \in Active \ dropped :
        /\ subscription[s].resource \in SubscriptionId
        /\ subscription'[s] = subscription[s]
        /\ ClaimOf(s)' = ClaimOf(s)
  <2>1. \A s \in Active : s \in SubscriptionId /\ subscription[s].resource \in SubscriptionId
    BY <1>typ DEF Active, Subscription, NoResource
  <2> QED
    BY <2>1, <1>1, <1>2 DEF ClaimOf
<1>5. claimsBar' = {ClaimOf(s) : s \in Active \ dropped}
  <2>1. claimsBar' = {ClaimOf(s)' : s \in Active'}
    BY DEF claimsBar, ClaimOf, Active
  <2> QED
    BY <2>1, <1>3, <1>4
<1>6. WorkShape /\ WorkShape'
  BY Sharing, SharingNext
<1>7. ASSUME NEW k \in Kind, NEW y \in Keys
      PROVE  workBar'[k][y] = IF workBar[k][y] = "active" /\ ~Wants(k, y)'
                              THEN IF k = "job" THEN "ending" ELSE "idle"
                              ELSE workBar[k][y]
  <2>1. Listed(k, y)' \subseteq Listed(k, y)
    BY <1>2 DEF Listed
  <2>2. Wants(k, y)' => Wants(k, y) /\ Listed(k, y)' # {}
    <3> SUFFICES ASSUME Wants(k, y)' PROVE Wants(k, y) /\ Listed(k, y)' # {}
      OBVIOUS
    <3>1. PICK s \in Active' : /\ resource'[subscription'[s].resource].kind = k
                               /\ resource'[subscription'[s].resource].key = y
      BY DEF Wants
    <3>2. s \in Active \ dropped /\ subscription'[s].resource = subscription[s].resource
      BY <3>1, <1>3, <1>4
    <3>3. Wants(k, y)
      <4>1. s \in Active /\ subscription[s].resource \in SubscriptionId
        BY <3>2, <1>4
      <4>2. /\ resource[subscription[s].resource].kind = k
            /\ resource[subscription[s].resource].key = y
        BY <3>1, <3>2, <4>1, <1>2
      <4>3. QED
        BY ONLY <4>1, <4>2 DEF Wants
    <3>4. resource'[subscription'[s].resource].place = "listed"
      BY <3>1, <3>2 DEF IInv, Owned, Active
    <3>5. subscription'[s].resource \in Listed(k, y)'
      BY <3>1, <3>2, <3>4, <1>4 DEF Listed
    <3> QED
      BY <3>3, <3>5
  <2>3. k = "job" /\ Listed(k, y) # {} => Listed(k, y)' # {}
    BY <1>2 DEF Listed, Unwatched
  <2>4. k = "watch" /\ Listed(k, y) # {} /\ ~Wants(k, y)' => Listed(k, y)' = {}
    <3> SUFFICES ASSUME k = "watch", ~Wants(k, y)', NEW r \in Listed(k, y)'
                 PROVE  FALSE
      OBVIOUS
    <3>1. /\ r \in SubscriptionId /\ resource'[r].place = "listed"
          /\ resource'[r].kind = "watch" /\ resource'[r].key = y
      BY DEF Listed
    <3>2. resource'[r].status = "NONE"
      BY <3>1 DEF IInv, Shape, ObjectShape
    <3>3. Subscribers(r)' # {}
      BY <3>1, <3>2 DEF IInv, Wanted
    <3> QED
      BY <3>1, <3>3 DEF Subscribers, Wants, Active, NoResource
  <2>5. k = "watch" /\ Listed(k, y) # {} => Wants(k, y)
    <3> SUFFICES ASSUME k = "watch", NEW r \in Listed(k, y) PROVE Wants(k, y)
      OBVIOUS
    <3>1. /\ r \in SubscriptionId /\ resource[r].place = "listed"
          /\ resource[r].kind = "watch" /\ resource[r].key = y
      BY DEF Listed
    <3>2. Subscribers(r) # {}
      BY <3>1 DEF IInv, Wanted, Shape, ObjectShape
    <3> QED
      BY <3>1, <3>2 DEF Subscribers, Wants, Active, NoResource
  <2>6. /\ workBar[k][y] = IF Listed(k, y) = {} THEN "idle"
                           ELSE IF Wants(k, y) THEN "active" ELSE "ending"
        /\ workBar'[k][y] = IF Listed(k, y)' = {} THEN "idle"
                            ELSE IF Wants(k, y)' THEN "active" ELSE "ending"
    BY <1>6 DEF WorkShape
  <2> QED
    BY <2>1, <2>2, <2>3, <2>4, <2>5, <2>6 DEF Kind
<1>8. \A k \in Kind, y \in Keys : Work!Claimed(claimsBar', k, y) <=> Wants(k, y)'
  <2>1. \A k \in Kind, y \in Keys : Work!Claimed(claimsBar, k, y)' <=> Wants(k, y)'
    BY <1>6 DEF WorkShape
  <2> QED
    BY <2>1 DEF Work!Claimed
<1>9. workBar' = Work!Remaining(claimsBar')
  BY <1>7, <1>8 DEF workBar, Work!Remaining, Work!Kinds, Kind
<1> QED
  BY <1>5, <1>9

\* Clients that leave or expire: all they claim goes with them.
LEMMA LeaveSeen ==
  ASSUME IInv, IInv', NEW t \in Threads, NEW gone \in SUBSET live, gone # {},
         ReleaseClients(t, gone), UNCHANGED <<permanent, exitReady>>
  PROVE  Work!Leave(gone)
<1> USE IdFacts
<1> DEFINE dropped == {s \in SubscriptionId : subscription[s].client \in gone}
<1>1. /\ Withdraw(t, dropped, SubscriptionId)
      /\ live' = live \ gone
      /\ state' = IF live' = {} /\ ~permanent THEN "STOPPING" ELSE state
  BY DEF ReleaseClients
<1>2. \A s \in Active : s \in SubscriptionId /\ subscription[s].resource \in SubscriptionId
  BY DEF Active, IInv, Typed, Subscription, NoResource
<1>3. /\ claimsBar' = {ClaimOf(s) : s \in Active \ dropped}
      /\ workBar' = Work!Remaining(claimsBar')
  <2>1. /\ dropped \in SUBSET SubscriptionId
        /\ \A s \in dropped : subscription[s].resource # NoResource
                              => subscription[s].resource \in SubscriptionId
    BY <1>2 DEF Active
  <2> QED
    BY <1>1, <2>1, WithdrawSeen
<1>4. claimsBar' = {c \in claimsBar : c[1] \notin gone}
  <2>1. claimsBar = {ClaimOf(s) : s \in Active}
    BY DEF claimsBar, ClaimOf, Active
  <2>2. \A s \in Active : s \in dropped <=> ClaimOf(s)[1] \in gone
    BY <1>2 DEF ClaimOf
  <2> QED
    BY <1>3, <2>1, <2>2
<1>5. state \in {"RUNNING", "STOPPING"} /\ gone \subseteq live
  BY DEF IInv, Typed
<1>6. (state' = "RUNNING") = ((state = "RUNNING") /\ (live' # {} \/ permanent))
  BY <1>1, <1>5
<1> QED
  BY <1>1, <1>3, <1>4, <1>5, <1>6 DEF Work!Leave

\* One subscription: its claim goes unless the client has another one.
LEMMA UnsubscribeSeen ==
  ASSUME IInv, IInv', NEW t \in Threads, NEW kind \in Kind, NEW c \in ClientId,
         NEW s \in SubscriptionId, Unsubscribe(t, kind, c, s)
  PROVE  \/ \E y \in Keys : Work!Drop(c, kind, y)
         \/ UNCHANGED Work!workVars
<1> USE IdFacts
<1> DEFINE r == subscription[s].resource
           y == resource[r].key
<1>1. /\ subscription[s].client = c /\ resource[r].kind = kind
      /\ Withdraw(t, {s}, {r})
      /\ UNCHANGED <<state, permanent, live, exitReady>>
  BY DEF Unsubscribe, clientVars
<1>2. s \in Active /\ r \in SubscriptionId /\ resource[r].place = "listed"
  BY <1>1 DEF Active, IInv, Typed, Owned, Subscription, Nobody, NoResource
<1>3. y \in Keys
  BY <1>2 DEF IInv, Shape, ObjectShape
<1>4. /\ claimsBar' = {ClaimOf(q) : q \in Active \ {s}}
      /\ workBar' = Work!Remaining(claimsBar')
  <2>1. /\ {s} \in SUBSET SubscriptionId /\ {r} \in SUBSET SubscriptionId
        /\ \A q \in {s} : subscription[q].resource # NoResource
                            => subscription[q].resource \in {r}
    BY <1>2
  <2>2. /\ claimsBar' = {ClaimOf(q) : q \in Active \ {s}}
        /\ workBar' = Work!Remaining(claimsBar')
    BY <1>1, <2>1, WithdrawSeen
  <2> QED
    BY <2>2
<1>5. claimsBar = {ClaimOf(q) : q \in Active} /\ ClaimOf(s) = <<c, kind, y>>
  BY <1>1 DEF claimsBar, ClaimOf, Active
<1>6. CASE \E q \in Active \ {s} : ClaimOf(q) = ClaimOf(s)
  <2>1. claimsBar' = claimsBar
    BY <1>4, <1>5, <1>6
  <2>2. WorkShape
    BY Sharing
  <2>3. ASSUME NEW k \in Kind, NEW z \in Keys
        PROVE  Work!Remaining(claimsBar)[k][z] = workBar[k][z]
    <3>1. Work!Remaining(claimsBar)[k][z] =
            IF workBar[k][z] = "active" /\ ~Work!Claimed(claimsBar, k, z)
            THEN IF k = "job" THEN "ending" ELSE "idle" ELSE workBar[k][z]
      BY DEF Work!Remaining, Work!Kinds, Kind
    <3> QED
      BY <3>1, <2>2 DEF WorkShape
  <2>4. Work!Remaining(claimsBar) = workBar
    BY <2>3 DEF Work!Remaining, Work!Kinds, workBar, Kind
  <2> QED
    BY <1>1, <1>4, <2>1, <2>4 DEF Work!workVars
<1>7. CASE \A q \in Active \ {s} : ClaimOf(q) # ClaimOf(s)
  <2>1. <<c, kind, y>> \in claimsBar /\ claimsBar' = claimsBar \ {<<c, kind, y>>}
    BY <1>2, <1>4, <1>5, <1>7
  <2> QED
    BY <1>1, <1>3, <1>4, <2>1 DEF Work!Drop
<1> QED
  BY <1>6, <1>7

-----------------------------------------------------------------------------
(* Claims, and work that ends.                                               *)

LEMMA SubscribeSeen ==
  ASSUME IInv, IInv', NEW kind \in Kind, NEW c \in ClientId, NEW key \in Keys,
         Subscribe(kind, c, key)
  PROVE  Work!Claim(c, kind, key)
<1> USE IdFacts
<1>0. lastSubscriptionId + 1 \in SubscriptionId /\ lastSubscriptionId \in Nat
  BY ConstantsAssumption DEF Subscribe, SubscriptionId, IInv, Typed
<1>id. PICK id \in SubscriptionId : id = lastSubscriptionId + 1
  BY <1>0
<1>j. PICK j : j = Joined(kind, key, id)
  OBVIOUS
<1>1. /\ state = "RUNNING" /\ c \in live /\ Joinable(kind, key)
      /\ subscription' = [subscription EXCEPT ![id] = [client |-> c, resource |-> j]]
      /\ resource' = IF Listed(kind, key) = {}
                     THEN [resource EXCEPT ![id] = Started(kind, key)] ELSE resource
      /\ UNCHANGED <<state, permanent, live, exitReady>>
  BY <1>id, <1>j DEF Subscribe, Admitting, Existing, clientVars
<1>2. id \in SubscriptionId /\ lastSubscriptionId < id
  BY <1>0, <1>id
<1>typ. /\ subscription \in [SubscriptionId -> Subscription]
        /\ resource \in [SubscriptionId -> Resource]
  BY DEF IInv, Typed
<1>3. subscription[id] = NoSubscription /\ resource[id].place = "none"
  BY <1>2 DEF IInv, Owned, Shape, ObjectShape
<1>4. /\ j \in SubscriptionId /\ resource'[j].place = "listed"
      /\ resource'[j].kind = kind /\ resource'[j].key = key
      /\ Listed(kind, key) # {} => j \in Listed(kind, key)
      /\ Listed(kind, key) = {} => j = id
  <2>1. CASE Listed(kind, key) = {}
    BY <2>1, <1>1, <1>2, <1>j, <1>typ DEF Joined, Existing, Started
  <2>2. CASE Listed(kind, key) # {}
    <3>1. j \in Listed(kind, key)
      BY <2>2, <1>j DEF Joined, Existing
    <3> QED
      BY <2>2, <3>1, <1>1 DEF Listed
  <2> QED
    BY <2>1, <2>2
<1>5. \A r \in SubscriptionId : r # id => resource'[r] = resource[r]
  BY <1>1
<1>6. \A s \in Active : /\ s \in SubscriptionId /\ s # id
                        /\ subscription[s].resource \in SubscriptionId \ {id}
                        /\ subscription'[s] = subscription[s]
                        /\ ClaimOf(s)' = ClaimOf(s)
  <2>1. \A s \in Active : /\ s \in SubscriptionId /\ s # id
                          /\ resource[subscription[s].resource].place = "listed"
                          /\ subscription[s].resource \in SubscriptionId
    BY <1>3, <1>typ DEF Active, NoSubscription, IInv, Owned, Subscription, NoResource
  <2>2. \A s \in Active : subscription[s].resource # id /\ subscription'[s] = subscription[s]
    BY <2>1, <1>1, <1>3
  <2> QED
    BY <2>1, <2>2, <1>5 DEF ClaimOf
<1>7. /\ Active' = Active \cup {id} /\ subscription'[id].resource = j
      /\ ClaimOf(id)' = <<c, kind, key>>
  <2>1. subscription'[id] = [client |-> c, resource |-> j]
    BY <1>1, <1>2, <1>typ
  <2>2. \A s \in SubscriptionId : s # id => subscription'[s] = subscription[s]
    BY <1>1, <1>typ
  <2>3. Active' = {s \in SubscriptionId : subscription'[s].resource # NoResource}
    BY DEF Active, NoResource
  <2> QED
    <3>1. subscription'[id].client = c /\ subscription'[id].resource = j
      BY <2>1
    <3>2. j # NoResource
      BY <1>4 DEF NoResource
    <3>3. Active' = Active \cup {id}
      BY <2>2, <2>3, <3>1, <3>2, <1>2 DEF Active
    <3>4. ClaimOf(id)' = <<subscription'[id].client, resource'[subscription'[id].resource].kind,
                           resource'[subscription'[id].resource].key>>
      BY DEF ClaimOf
    <3> QED
      BY <3>1, <3>3, <3>4, <1>4
<1>8. claimsBar' = claimsBar \cup {<<c, kind, key>>}
  <2>1. /\ claimsBar = {ClaimOf(s) : s \in Active}
        /\ claimsBar' = {ClaimOf(s)' : s \in Active'}
    BY DEF claimsBar, ClaimOf, Active
  <2> QED
    <3>1. \A x : x \in claimsBar' <=> \E s \in Active \cup {id} : x = ClaimOf(s)'
      BY <2>1, <1>7
    <3>2. \A x : x \in claimsBar <=> \E s \in Active : x = ClaimOf(s)
      BY <2>1
    <3>3. \A x : x \in claimsBar' <=> x \in claimsBar \/ x = <<c, kind, key>>
      BY <3>1, <3>2, <1>6, <1>7
    <3> QED
      BY <3>3
<1>9. WorkShape /\ WorkShape'
  BY Sharing, SharingNext
<1>10. workBar[kind][key] # "ending"
  <2>1. CASE Listed(kind, key) = {}
    BY <2>1, <1>9 DEF WorkShape
  <2>2. CASE Listed(kind, key) # {}
    <3>1. /\ j \in SubscriptionId /\ resource[j].place = "listed"
          /\ resource[j].kind = kind /\ resource[j].key = key
      BY <2>2, <1>4 DEF Listed
    <3>2. resource[j].status \notin {"CANCEL_REQUESTED", "REAPING"}
      BY <2>2, <3>1, <1>1, <1>4 DEF Joinable, Existing, Kind, IInv, Shape, ObjectShape
    <3>3. Subscribers(j) # {}
      BY <3>1, <3>2 DEF IInv, Wanted
    <3>4. Wants(kind, key)
      BY <3>1, <3>3 DEF Subscribers, Wants, Active, NoResource
    <3> QED
      BY <2>2, <3>4, <1>9 DEF WorkShape
  <2> QED
    BY <2>1, <2>2
<1>11. ASSUME NEW k \in Kind, NEW y \in Keys
       PROVE  workBar'[k][y] = IF k = kind /\ y = key THEN "active" ELSE workBar[k][y]
  <2>1. CASE k = kind /\ y = key
    <3>1. Listed(kind, key)' # {}
      BY <1>4 DEF Listed
    <3>2. Wants(kind, key)'
      BY <1>4, <1>7 DEF Wants
    <3> QED
      BY <2>1, <3>1, <3>2, <1>9 DEF WorkShape
  <2>2. CASE ~(k = kind /\ y = key)
    <3>1. \A r \in SubscriptionId : r \in Listed(k, y)' <=> r \in Listed(k, y)
      <4> SUFFICES ASSUME NEW r \in SubscriptionId
                   PROVE  r \in Listed(k, y)' <=> r \in Listed(k, y)
        OBVIOUS
      <4>1. CASE r = id
        <5>1. r \notin Listed(k, y)
          BY <4>1, <1>3 DEF Listed
        <5>2. r \notin Listed(k, y)'
          BY <4>1, <2>2, <1>1, <1>3, <1>4 DEF Listed
        <5> QED
          BY <5>1, <5>2
      <4>2. CASE r # id
        BY <4>2, <1>5 DEF Listed
      <4> QED
        BY <4>1, <4>2
    <3>2. Wants(k, y)' <=> Wants(k, y)
      <4>1. /\ resource'[subscription'[id].resource].kind = kind
            /\ resource'[subscription'[id].resource].key = key
        BY <1>4, <1>7
      <4>2. \A t \in Active : /\ resource'[subscription'[t].resource].kind
                                   = resource[subscription[t].resource].kind
                              /\ resource'[subscription'[t].resource].key
                                   = resource[subscription[t].resource].key
        BY <1>4, <1>5, <1>6, <1>7
      <4> QED
        BY <2>2, <1>7, <4>1, <4>2 DEF Wants
    <3>3. Listed(k, y)' = {} <=> Listed(k, y) = {}
      BY <3>1 DEF Listed
    <3> QED
      BY <2>2, <3>2, <3>3, <1>9 DEF WorkShape
  <2> QED
    BY <2>1, <2>2
<1>12. workBar' = [workBar EXCEPT ![kind][key] = "active"]
  <2>1. /\ workBar = [k \in Kind |-> [y \in Keys |-> workBar[k][y]]]
        /\ workBar' = [k \in Kind |-> [y \in Keys |-> workBar'[k][y]]]
    BY DEF workBar, Kind
  <2>2. [workBar EXCEPT ![kind][key] = "active"] =
          [k \in Kind |-> [y \in Keys |->
             IF k = kind /\ y = key THEN "active" ELSE workBar[k][y]]]
    BY <2>1
  <2> QED
    BY <1>11, <2>1, <2>2
<1> QED
  BY <1>1, <1>8, <1>10, <1>12 DEF Work!Claim

LEMMA TerminalSeen ==
  ASSUME IInv, IInv', NEW key \in Keys, NEW requireCancellation \in BOOLEAN,
         TerminalJob(key, requireCancellation)
  PROVE  Work!EndJob(key)
<1> USE IdFacts
<1>typ. /\ subscription \in [SubscriptionId -> Subscription]
        /\ resource \in [SubscriptionId -> Resource]
  BY DEF IInv, Typed
<1>1. PICK r \in Listed("job", key) :
        /\ resource' = [resource EXCEPT ![r].place = TerminalPlace(r)]
        /\ subscription' = [s \in SubscriptionId |->
                              IF s \in Subscribers(r) THEN NoSubscription
                              ELSE subscription[s]]
        /\ UNCHANGED <<state, permanent, live, exitReady>>
  BY DEF TerminalJob, clientVars
<1>2. /\ r \in SubscriptionId /\ resource[r].place = "listed"
      /\ resource[r].kind = "job" /\ resource[r].key = key
  BY <1>1 DEF Listed
<1>3. \A q \in SubscriptionId :
        /\ resource'[q].kind = resource[q].kind
        /\ resource'[q].key = resource[q].key
        /\ resource'[q].place = "listed" <=> q # r /\ resource[q].place = "listed"
  <2> SUFFICES ASSUME NEW q \in SubscriptionId
               PROVE  /\ resource'[q].kind = resource[q].kind
                      /\ resource'[q].key = resource[q].key
                      /\ resource'[q].place = "listed" <=> q # r /\ resource[q].place = "listed"
    OBVIOUS
  <2>1. resource[q] \in Resource
    BY <1>typ
  <2> QED
    BY <2>1, <1>1, <1>2, <1>typ DEF TerminalPlace, Resource
<1>4. \A q \in SubscriptionId : /\ resource[q].place = "listed"
                                 /\ resource[q].kind = "job" /\ resource[q].key = key
                                 => q = r
  BY <1>2 DEF IInv, OnePhysicalResourcePerKey
<1>5. \A s \in Active : /\ s \in SubscriptionId
                        /\ subscription[s].resource \in SubscriptionId
                        /\ resource[subscription[s].resource].place = "listed"
                        /\ s \in Subscribers(r) <=> subscription[s].resource = r
  BY <1>typ DEF Active, Subscribers, IInv, Owned, Subscription, NoResource
<1>6. Active' = Active \ Subscribers(r)
  <2>1. \A s \in SubscriptionId : subscription'[s] =
          IF s \in Subscribers(r) THEN NoSubscription ELSE subscription[s]
    BY <1>1
  <2>2. NoSubscription.resource = NoResource
    BY DEF NoSubscription
  <2>3. Active' = {s \in SubscriptionId : subscription'[s].resource # NoResource}
    BY DEF Active, NoResource
  <2> QED
    BY <2>1, <2>2, <2>3 DEF Active
<1>7. \A s \in Active \ Subscribers(r) :
        ClaimOf(s)' = ClaimOf(s) /\ subscription'[s] = subscription[s]
  BY <1>1, <1>3, <1>5 DEF ClaimOf
<1>8. \A s \in Active :
        s \in Subscribers(r) <=> ClaimOf(s)[2] = "job" /\ ClaimOf(s)[3] = key
  BY <1>2, <1>4, <1>5 DEF ClaimOf
<1>9. claimsBar' = {c \in claimsBar : ~(c[2] = "job" /\ c[3] = key)}
  <2>1. /\ claimsBar = {ClaimOf(s) : s \in Active}
        /\ claimsBar' = {ClaimOf(s)' : s \in Active'}
    BY DEF claimsBar, ClaimOf, Active
  <2>2. claimsBar' = {ClaimOf(s) : s \in Active \ Subscribers(r)}
    BY <2>1, <1>6, <1>7
  <2> QED
    BY <2>1, <2>2, <1>8
<1>10. WorkShape /\ WorkShape'
  BY Sharing, SharingNext
<1>11. workBar["job"][key] # "idle"
  BY <1>1, <1>10 DEF WorkShape, Kind
<1>12. ASSUME NEW k \in Kind, NEW y \in Keys
       PROVE  workBar'[k][y] = IF k = "job" /\ y = key THEN "idle" ELSE workBar[k][y]
  <2>1. CASE k = "job" /\ y = key
    <3>1. Listed(k, y)' = {}
      BY <2>1, <1>3, <1>4 DEF Listed
    <3> QED
      BY <2>1, <3>1, <1>10 DEF WorkShape
  <2>2. CASE ~(k = "job" /\ y = key)
    <3>1. Listed(k, y)' = Listed(k, y)
      BY <2>2, <1>2, <1>3 DEF Listed
    <3>2. Wants(k, y)' => Wants(k, y)
      BY ZenonT(30), <1>3, <1>5, <1>6, <1>7 DEF Wants
    <3>3. ASSUME Wants(k, y) PROVE Wants(k, y)'
      <4>1. PICK s \in Active : /\ resource[subscription[s].resource].kind = k
                                /\ resource[subscription[s].resource].key = y
        BY <3>3 DEF Wants
      <4>2. s \notin Subscribers(r)
        BY <4>1, <2>2, <1>2, <1>5
      <4> QED
        BY <4>1, <4>2, <1>3, <1>5, <1>6, <1>7 DEF Wants
    <3> QED
      BY <2>2, <3>1, <3>2, <3>3, <1>10 DEF WorkShape
  <2> QED
    BY <2>1, <2>2
<1>13. workBar' = [workBar EXCEPT !["job"][key] = "idle"]
  <2>1. /\ workBar = [k \in Kind |-> [y \in Keys |-> workBar[k][y]]]
        /\ workBar' = [k \in Kind |-> [y \in Keys |-> workBar'[k][y]]]
    BY DEF workBar, Kind
  <2>2. [workBar EXCEPT !["job"][key] = "idle"] =
          [k \in Kind |-> [y \in Keys |->
             IF k = "job" /\ y = key THEN "idle" ELSE workBar[k][y]]]
    BY <2>1 DEF Kind
  <2> QED
    BY <1>12, <2>1, <2>2
<1> QED
  BY <1>1, <1>9, <1>11, <1>13 DEF Work!EndJob

LEMMA ExitSeen == ASSUME IInv, ObserveExit PROVE Work!Close
<1>1. \A k \in Kind, y \in Keys : workBar[k][y] = "idle"
  BY DEF ObserveExit, ShouldExit, AllListed, workBar, Kind
<1>2. UNCHANGED <<claimsBar, workBar>>
  BY DEF ObserveExit, claimsBar, workBar, Listed
<1> QED
  BY <1>1, <1>2 DEF ObserveExit, ShouldExit, clientVars, Work!Close, Work!Kinds, Kind

-----------------------------------------------------------------------------
(* What the abstract service does not see.                                   *)

\* Hooks, readings of the clock, and the progress of what is ending already.
LEMMA InvisibleStep ==
  ASSUME IInv, IInv',
         \/ SetHooks \/ Tick
         \/ \E now \in 0..clock, c \in ClientId : ClientHeartbeat(c, now)
         \/ \E key \in Keys : JobReaping(key)
         \/ \E t \in Threads : Batch(t)
         \/ UNCHANGED vars
  PROVE  UNCHANGED Work!workVars
<1> USE IdFacts
<1> DEFINE SameObjects == \A r \in SubscriptionId :
             /\ resource'[r].place = "listed" <=> resource[r].place = "listed"
             /\ resource'[r].kind = resource[r].kind
             /\ resource'[r].key = resource[r].key
<1>typ. /\ resource \in [SubscriptionId -> Resource]
        /\ batch \in [SubscriptionId -> Threads \cup {NoThread}]
        /\ calling \in [Threads -> SubscriptionId \cup {NoResource}]
        /\ \A r \in SubscriptionId : resource[r] \in Resource
  BY DEF IInv, Typed
<1>1. UNCHANGED <<state, permanent, live, exitReady, subscription>>
  BY DEF SetHooks, Tick, ClientHeartbeat, JobReaping, Batch, RunCallback, FinishCallback,
         FreeWatch, vars, clientVars
<1>2. SameObjects
  <2>1. CASE UNCHANGED resource
    BY <2>1
  <2>2. ASSUME NEW key \in Keys, JobReaping(key) PROVE SameObjects
    BY <2>2, <1>typ DEF JobReaping, Listed, Resource
  <2>3. ASSUME NEW t \in Threads, FinishCallback(t) PROVE SameObjects
    BY <2>3, <1>typ DEF FinishCallback, SettledPlace, Resource
  <2>4. ASSUME NEW t \in Threads, NEW q \in SubscriptionId, FreeWatch(t, q) PROVE SameObjects
    <3>1. batch[q] = t /\ t # NoThread /\ resource[q].kind = "watch"
      BY <2>4, ConstantsAssumption DEF FreeWatch
    <3>2. resource[q].place # "listed"
      BY <3>1 DEF IInv, Shape, ObjectShape
    <3> QED
      BY <2>4, <3>2, <1>typ DEF FreeWatch, Resource
  <2> QED
    BY <2>1, <2>2, <2>3, <2>4
    DEF SetHooks, Tick, ClientHeartbeat, Batch, RunCallback, vars
<1>3. claimsBar' = claimsBar /\ workBar' = workBar
  BY <1>1, <1>2, Unseen
<1> QED
  BY <1>1, <1>3 DEF Work!workVars

LEMMA NextRefines == IInv /\ IInv' /\ [Next]_vars => [Work!Next]_(Work!workVars)
<1> SUFFICES ASSUME IInv, IInv', [Next]_vars PROVE Work!Next \/ UNCHANGED Work!workVars
  OBVIOUS
<1>1. CASE SetPermanent
  <2>1. UNCHANGED <<claimsBar, workBar>>
    BY <1>1 DEF SetPermanent, claimsBar, workBar, Listed
  <2>2. Work!MakePermanent
    BY <1>1, <2>1 DEF SetPermanent, clientVars, Work!MakePermanent
  <2> QED
    BY <2>2 DEF Work!Next
<1>2. ASSUME NEW now \in 0..clock, ClientConnected(now) PROVE Work!Next
  <2>1. UNCHANGED <<claimsBar, workBar>>
    BY <1>2 DEF ClientConnected, claimsBar, workBar, Listed
  <2>2. lastClientId + 1 \in ClientId /\ lastClientId + 1 \notin live
    BY <1>2, ConstantsAssumption DEF ClientConnected, ClientId, IInv, Typed, ClientIdsIssued
  <2>3. Work!Join(lastClientId + 1)
    BY <1>2, <2>1, <2>2 DEF ClientConnected, Admitting, Work!Join
  <2> QED
    BY <2>2, <2>3 DEF Work!Next
<1>3. ASSUME NEW t \in Threads, NEW gone \in SUBSET live, gone # {}, ReleaseClients(t, gone),
             UNCHANGED <<permanent, exitReady>>
      PROVE  Work!Next
  BY <1>3, LeaveSeen DEF Work!Next, IInv, Typed
<1>4. ASSUME NEW t \in Threads, NEW c \in ClientId, ClientDisconnected(t, c) PROVE Work!Next
  <2>1. {c} \in SUBSET live
    BY <1>4 DEF ClientDisconnected
  <2> QED
    BY <1>3, <1>4, <2>1 DEF ClientDisconnected
<1>5. ASSUME NEW t \in Threads, NEW now \in 0..clock, ExpireLeases(t, now) PROVE Work!Next
  <2>1. Expired(now) \in SUBSET live
    BY DEF Expired
  <2> QED
    BY <1>3, <1>5, <2>1 DEF ExpireLeases
<1>6. ASSUME NEW kind \in {"job", "watch"}, NEW c \in ClientId, NEW key \in Keys,
             Subscribe(kind, c, key)
      PROVE  Work!Next
  BY <1>6, SubscribeSeen DEF Work!Next, Work!Kinds, Kind
<1>7. ASSUME NEW t \in Threads, NEW kind \in {"job", "watch"}, NEW c \in ClientId,
             NEW s \in SubscriptionId, Unsubscribe(t, kind, c, s)
      PROVE  Work!Next \/ UNCHANGED Work!workVars
  BY <1>7, UnsubscribeSeen DEF Work!Next, Work!Kinds, Kind
<1>8. ASSUME NEW key \in Keys, JobReaped(key) \/ JobCompleted(key) PROVE Work!Next
  BY <1>8, TerminalSeen DEF JobReaped, JobCompleted, Work!Next
<1>9. CASE ObserveExit
  BY <1>9, ExitSeen DEF Work!Next
<1> QED
  BY <1>1, <1>2, <1>4, <1>5, <1>6, <1>7, <1>8, <1>9, InvisibleStep DEF Next

-----------------------------------------------------------------------------
(* The theorems.                                                             *)

\* Whatever the ids, lists and callback batches of daemon.c do, its clients see
\* members that claim work by key: each departure withdraws all claims of who left
\* and nothing else, work ends when the last claim does, and the exit is only
\* announced when all work is over.
THEOREM SharesWork == Spec => ImplementsSharedWork
<1>1. Init => Work!Init
  <2> SUFFICES ASSUME Init PROVE Work!Init
    OBVIOUS
  <2>1. claimsBar = {}
    BY DEF Init, claimsBar, NoSubscription
  <2>2. workBar = [k \in Kind |-> [y \in Keys |-> "idle"]]
    BY DEF Init, workBar, Listed, Unallocated, Kind
  <2> QED
    BY <2>1, <2>2 DEF Init, Work!Init, Work!Kinds, Kind
<1> QED
  BY <1>1, NextRefines, Inductive, PTL DEF Spec, ImplementsSharedWork, Work!Spec

\* An expiry that works with an old reading of the clock takes only clients whose
\* lease is over by the clock itself.
THEOREM LeasesHonoured == Spec => LeaseHonoured
<1> DEFINE Honoured == \A t \in Threads, now \in 0..clock : ExpireLeases(t, now) =>
                         \A c \in live \ live' : clock - heartbeat[c] >= LeaseTimeout
<1>1. IInv => Honoured
  <2> SUFFICES ASSUME IInv, NEW t \in Threads, NEW now \in 0..clock, ExpireLeases(t, now),
                      NEW c \in live \ live'
               PROVE  clock - heartbeat[c] >= LeaseTimeout
    OBVIOUS
  <2>1. c \in Expired(now)
    BY DEF ExpireLeases, ReleaseClients
  <2>2. clock \in Nat /\ heartbeat[c] \in Nat /\ now \in Nat /\ now <= clock
    BY ConstantsAssumption DEF IInv, Typed, Time
  <2> QED
    BY <2>1, <2>2, ConstantsAssumption DEF Expired, LeaseExpired
<1> HIDE DEF Honoured
<1>2. Spec => [][Honoured]_vars
  BY <1>1, Inductive, PTL
<1> QED
  BY <1>2 DEF Honoured, LeaseHonoured
=============================================================================
