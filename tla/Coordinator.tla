----------------------------- MODULE Coordinator -----------------------------
(***************************************************************************)
(* The process-local coordinator of the session daemon, daemon/daemon.c.    *)
(*                                                                          *)
(* It binds clients to transport connections, coalesces index jobs and      *)
(* watches per project key, and defines the terminal shutdown transition.   *)
(* Every operation below is one critical section of coordinator->mutex.     *)
(* The two hooks (cancel_job, release_watch) run after the mutex has been   *)
(* released, one after the other, by the thread whose operation queued      *)
(* them: a batch is therefore interleaved with every other operation.       *)
(*                                                                          *)
(* A job or watch object is named by the subscription that started it:      *)
(* subscription ids are never recycled, so the name identifies one          *)
(* allocation.  The counters client_count, job_count, watch_count and       *)
(* subscription_count move together with their lists in the code and are    *)
(* the sizes of sets here; callback_count is kept, it is decremented long   *)
(* after it was incremented.  A failed allocation rejects the operation and *)
(* changes nothing, so it is a stuttering step.                             *)
(***************************************************************************)
EXTENDS Integers, FiniteSets

CONSTANTS
  Keys,               \* project keys
  Threads,            \* threads that call the coordinator
  NoThread,           \* no thread holds the object in a batch
  NoKey,              \* key of an object that was never allocated
  MaxClientId,        \* the last client id, UINT64_MAX in the code
  MaxSubscriptionId,  \* the last subscription id, UINT64_MAX in the code
  MaxTime,            \* bound of the monotonic clock
  LeaseTimeout        \* lease_timeout_ms

ASSUME ConstantsAssumption ==
  /\ NoThread \notin Threads
  /\ NoKey \notin Keys
  /\ MaxClientId \in Nat
  /\ MaxSubscriptionId \in Nat
  /\ MaxTime \in Nat
  /\ LeaseTimeout \in Nat

VARIABLES
  state,              \* RUNNING or STOPPING
  permanent,          \* the generation of an explicit daemon start
  hooks,              \* the two callbacks are installed
  lastClientId,       \* last_client_id
  lastSubscriptionId, \* last_subscription_id
  live,               \* the clients of the list
  heartbeat,          \* last_heartbeat_ms of each client
  clock,              \* the monotonic clock the callers read
  subscription,       \* the subscription lists: owner and resource of each id
  resource,           \* the job and watch objects
  batch,              \* the thread whose callback batch holds an object
  calling,            \* the object whose hook a thread has called
  callbackCount,      \* callback_count
  exitReady           \* some caller has been told that it may exit

vars == <<state, permanent, hooks, lastClientId, lastSubscriptionId, live,
          heartbeat, clock, subscription, resource, batch, calling,
          callbackCount, exitReady>>

idVars    == <<lastClientId, lastSubscriptionId>>
clientVars == <<live, heartbeat>>
batchVars == <<batch, calling, callbackCount>>

ClientId       == 1..MaxClientId
SubscriptionId == 1..MaxSubscriptionId
Time           == 0..MaxTime
Nobody         == 0   \* CBM_DAEMON_CLIENT_ID_INVALID
NoResource     == 0   \* CBM_DAEMON_SUBSCRIPTION_ID_INVALID

Resource == [kind     : {"none", "job", "watch"},
             key      : Keys \cup {NoKey},
             place    : {"none", "listed", "detached", "freed"},
             status   : {"NONE", "RUNNING", "CANCEL_REQUESTED", "REAPING"},
             inflight : BOOLEAN]

Unallocated == [kind |-> "none", key |-> NoKey, place |-> "none",
                status |-> "NONE", inflight |-> FALSE]

Subscription   == [client : ClientId \cup {Nobody},
                   resource : SubscriptionId \cup {NoResource}]
NoSubscription == [client |-> Nobody, resource |-> NoResource]

-----------------------------------------------------------------------------

Subscribers(r) == {s \in SubscriptionId : subscription[s].resource = r}

Listed(kind, key) == {r \in SubscriptionId : /\ resource[r].place = "listed"
                                             /\ resource[r].kind = kind
                                             /\ resource[r].key = key}

AllListed(kind) == UNION {Listed(kind, k) : k \in Keys}

\* The objects whose hook is still to be called or has not been accounted for.
Outstanding == {r \in SubscriptionId : batch[r] # NoThread /\ resource[r].inflight}

\* A thread that is not inside callback_batch_run.
Idle(t) == /\ calling[t] = NoResource
           /\ \A r \in SubscriptionId : batch[r] # t

Init ==
  /\ state = "RUNNING"
  /\ permanent = FALSE
  /\ hooks = FALSE
  /\ lastClientId = 0
  /\ lastSubscriptionId = 0
  /\ live = {}
  /\ heartbeat = [c \in ClientId |-> 0]
  /\ clock = 0
  /\ subscription = [s \in SubscriptionId |-> NoSubscription]
  /\ resource = [r \in SubscriptionId |-> Unallocated]
  /\ batch = [r \in SubscriptionId |-> NoThread]
  /\ calling = [t \in Threads |-> NoResource]
  /\ callbackCount = 0
  /\ exitReady = FALSE

\* The daemon makes its coordinator permanent before any client connects.
SetPermanent ==
  /\ lastClientId = 0
  /\ permanent' = TRUE
  /\ UNCHANGED <<state, hooks, idVars, clientVars, clock, subscription,
                 resource, batchVars, exitReady>>

SetHooks ==
  /\ hooks' = TRUE
  /\ UNCHANGED <<state, permanent, idVars, clientVars, clock, subscription,
                 resource, batchVars, exitReady>>

Tick ==
  /\ clock < MaxTime
  /\ clock' = clock + 1
  /\ UNCHANGED <<state, permanent, hooks, idVars, clientVars, subscription,
                 resource, batchVars, exitReady>>

-----------------------------------------------------------------------------
(* Clients.  A caller reads the clock before it takes the mutex, so the time *)
(* an operation uses may be any earlier reading.                             *)

Admitting == state = "RUNNING"

ClientConnected(now) ==
  /\ Admitting
  /\ lastClientId < MaxClientId
  /\ lastClientId' = lastClientId + 1
  /\ live' = live \cup {lastClientId'}
  /\ heartbeat' = [heartbeat EXCEPT ![lastClientId'] = now]
  /\ UNCHANGED <<state, permanent, hooks, lastSubscriptionId, clock,
                 subscription, resource, batchVars, exitReady>>

ClientHeartbeat(c, now) ==
  /\ c \in live
  /\ now > heartbeat[c]
  /\ heartbeat' = [heartbeat EXCEPT ![c] = now]
  /\ UNCHANGED <<state, permanent, hooks, idVars, live, clock, subscription,
                 resource, batchVars, exitReady>>

\* request_job_cancel_locked: the jobs among the examined ones that lose their
\* last subscriber when the given subscriptions are dropped.
Abandoned(dropped, examined) ==
  {r \in examined : /\ resource[r].place = "listed"
                    /\ resource[r].kind = "job"
                    /\ resource[r].status = "RUNNING"
                    /\ Subscribers(r) \subseteq dropped}

\* The watches among the examined ones that lose their last subscriber.
Unwatched(dropped, examined) ==
  {r \in examined : /\ resource[r].place = "listed"
                    /\ resource[r].kind = "watch"
                    /\ Subscribers(r) \subseteq dropped}

CancelRequested(r) ==
  [resource[r] EXCEPT !.status = "CANCEL_REQUESTED", !.inflight = hooks]

WatchDetached(r) ==
  [resource[r] EXCEPT !.place = "detached", !.inflight = hooks]

\* Mutants: one callback is counted for a whole batch; a callback is counted
\* for an unlinked watch although no hook is installed.
NewCallbacksPerBatch(queued) == IF hooks /\ queued # {} THEN 1 ELSE 0
NewCallbacksUnhooked(queued) == Cardinality(queued)

NewCallbacks(queued) == IF hooks THEN Cardinality(queued) ELSE 0

\* Drops subscriptions, requests the cancellation of the jobs nobody wants any
\* more, unlinks the watches nobody wants any more, and queues their callbacks
\* in the batch of thread t.  An unlinked watch is in the batch even when no
\* hook is installed: the batch frees it.
Withdraw(t, dropped, examined) ==
  LET jobs    == Abandoned(dropped, examined)
      watches == Unwatched(dropped, examined)
      queued  == watches \cup (IF hooks THEN jobs ELSE {})
  IN  /\ subscription' = [s \in SubscriptionId |->
                            IF s \in dropped THEN NoSubscription ELSE subscription[s]]
      /\ resource' = [r \in SubscriptionId |->
                        IF r \in jobs THEN CancelRequested(r)
                        ELSE IF r \in watches THEN WatchDetached(r)
                        ELSE resource[r]]
      /\ batch' = [r \in SubscriptionId |-> IF r \in queued THEN t ELSE batch[r]]
      /\ callbackCount' = callbackCount + NewCallbacks(queued)

\* Mutants: the subscriptions of the clients stay behind; the permanent flag
\* is ignored when the last client leaves.
ReleaseClientsOnly(t, gone) ==
  /\ Withdraw(t, {}, SubscriptionId)
  /\ live' = live \ gone
  /\ state' = IF live' = {} /\ ~permanent THEN "STOPPING" ELSE state
ReleaseClientsStopping(t, gone) ==
  /\ Withdraw(t, {s \in SubscriptionId : subscription[s].client \in gone},
              SubscriptionId)
  /\ live' = live \ gone
  /\ state' = IF live' = {} THEN "STOPPING" ELSE state

\* release_client_locked for every client of a set.
ReleaseClients(t, gone) ==
  /\ Withdraw(t, {s \in SubscriptionId : subscription[s].client \in gone},
              SubscriptionId)
  /\ live' = live \ gone
  /\ state' = IF live' = {} /\ ~permanent THEN "STOPPING" ELSE state

ClientDisconnected(t, c) ==
  /\ Idle(t)
  /\ c \in live
  /\ ReleaseClients(t, {c})
  /\ UNCHANGED <<permanent, hooks, idVars, heartbeat, clock, calling, exitReady>>

\* Mutant: the subtraction is not guarded and wraps (MaxTime + 1 stands for 2^64).
LeaseExpiredWrapped(now, last) == (now - last) % (MaxTime + 1) >= LeaseTimeout

\* Unsigned 64-bit subtraction, guarded against a heartbeat later than now.
LeaseExpired(now, last) == now >= last /\ now - last >= LeaseTimeout

Expired(now) == {c \in live : LeaseExpired(now, heartbeat[c])}

ExpireLeases(t, now) ==
  /\ Idle(t)
  /\ Expired(now) # {}
  /\ ReleaseClients(t, Expired(now))
  /\ UNCHANGED <<permanent, hooks, idVars, heartbeat, clock, calling, exitReady>>

-----------------------------------------------------------------------------
(* Subscriptions.                                                            *)

\* find_job_locked, find_watch_locked.
Existing(kind, key) == Listed(kind, key)

\* The resource a subscription to this key joins: the listed one, or the new
\* object that the subscription starts.
Joined(kind, key, id) ==
  IF Existing(kind, key) = {} THEN id ELSE CHOOSE r \in Existing(kind, key) : TRUE

\* A job that is being cancelled accepts no subscriber; a watch always does.
Joinable(kind, key) ==
  \A r \in Existing(kind, key) : kind = "job" => resource[r].status = "RUNNING"

Started(kind, key) ==
  [kind |-> kind, key |-> key, place |-> "listed",
   status |-> IF kind = "job" THEN "RUNNING" ELSE "NONE", inflight |-> FALSE]

Subscribe(kind, c, key) ==
  LET id == lastSubscriptionId + 1 IN
  /\ Admitting
  /\ c \in live
  /\ Joinable(kind, key)
  /\ id <= MaxSubscriptionId
  /\ lastSubscriptionId' = id
  /\ subscription' = [subscription EXCEPT ![id] =
                        [client |-> c, resource |-> Joined(kind, key, id)]]
  /\ resource' = IF Existing(kind, key) = {}
                 THEN [resource EXCEPT ![id] = Started(kind, key)]
                 ELSE resource
  /\ UNCHANGED <<state, permanent, hooks, lastClientId, clientVars, clock,
                 batchVars, exitReady>>

Unsubscribe(t, kind, c, s) ==
  /\ Idle(t)
  /\ c \in live
  /\ subscription[s].client = c
  /\ resource[subscription[s].resource].kind = kind
  /\ Withdraw(t, {s}, {subscription[s].resource})
  /\ UNCHANGED <<state, permanent, hooks, idVars, clientVars, clock, calling,
                 exitReady>>

-----------------------------------------------------------------------------
(* The supervisor of a physical job reports its progress by project key.     *)

JobReaping(key) ==
  \E r \in Listed("job", key) :
    /\ resource[r].status = "CANCEL_REQUESTED"
    /\ resource' = [resource EXCEPT ![r].status = "REAPING"]
    /\ UNCHANGED <<state, permanent, hooks, idVars, clientVars, clock,
                   subscription, batchVars, exitReady>>

\* Mutant: the job is freed although a batch still holds it.
TerminalPlaceFreed(r) == IF resource[r].place = "listed" THEN "freed" ELSE "detached"

Reapable(r, requireCancellation) ==
  requireCancellation => resource[r].status # "RUNNING"

\* An object still in a batch is only detached: that batch frees it.
TerminalPlace(r) == IF resource[r].inflight THEN "detached" ELSE "freed"

TerminalJob(key, requireCancellation) ==
  \E r \in Listed("job", key) :
    /\ Reapable(r, requireCancellation)
    /\ resource' = [resource EXCEPT ![r].place = TerminalPlace(r)]
    /\ subscription' = [s \in SubscriptionId |->
                          IF s \in Subscribers(r) THEN NoSubscription
                          ELSE subscription[s]]
    /\ UNCHANGED <<state, permanent, hooks, idVars, clientVars, clock,
                   batchVars, exitReady>>

JobReaped(key)    == TerminalJob(key, TRUE)
JobCompleted(key) == TerminalJob(key, FALSE)

-----------------------------------------------------------------------------
(* callback_batch_run, outside the mutex: jobs first, then watches.          *)

\* The hook of r is invoked.
RunCallback(t, r) ==
  /\ calling[t] = NoResource
  /\ batch[r] = t
  /\ resource[r].inflight
  /\ resource[r].kind = "watch" =>
       \A q \in SubscriptionId : batch[q] = t => resource[q].kind = "watch"
  /\ calling' = [calling EXCEPT ![t] = r]
  /\ UNCHANGED <<state, permanent, hooks, idVars, clientVars, clock,
                 subscription, resource, batch, callbackCount, exitReady>>

\* A job is freed by its batch when it was detached meanwhile, a watch always.
SettledPlace(r) ==
  IF resource[r].place = "detached" THEN "freed" ELSE resource[r].place

FinishCallback(t) ==
  LET r == calling[t] IN
  /\ r # NoResource
  /\ callbackCount' = callbackCount - 1
  /\ resource' = [resource EXCEPT ![r].inflight = FALSE, ![r].place = SettledPlace(r)]
  /\ batch' = [batch EXCEPT ![r] = NoThread]
  /\ calling' = [calling EXCEPT ![t] = NoResource]
  /\ UNCHANGED <<state, permanent, hooks, idVars, clientVars, clock,
                 subscription, exitReady>>

\* A watch queued while no hook was installed is freed without a callback.
FreeWatch(t, r) ==
  /\ calling[t] = NoResource
  /\ batch[r] = t
  /\ ~resource[r].inflight
  /\ \A q \in SubscriptionId : batch[q] = t => resource[q].kind = "watch"
  /\ resource' = [resource EXCEPT ![r].place = "freed"]
  /\ batch' = [batch EXCEPT ![r] = NoThread]
  /\ UNCHANGED <<state, permanent, hooks, idVars, clientVars, clock,
                 subscription, calling, callbackCount, exitReady>>

ShouldExit ==
  /\ state = "STOPPING"
  /\ live = {}
  /\ AllListed("job") = {}
  /\ AllListed("watch") = {}
  /\ callbackCount = 0

\* cbm_daemon_should_exit answers TRUE.
ObserveExit ==
  /\ ShouldExit
  /\ exitReady' = TRUE
  /\ UNCHANGED <<state, permanent, hooks, idVars, clientVars, clock,
                 subscription, resource, batchVars>>

-----------------------------------------------------------------------------

Batch(t) == \/ \E r \in SubscriptionId : RunCallback(t, r) \/ FreeWatch(t, r)
            \/ FinishCallback(t)

Next ==
  \/ SetPermanent
  \/ SetHooks
  \/ Tick
  \/ \E now \in 0..clock : ClientConnected(now)
  \/ \E now \in 0..clock, c \in ClientId : ClientHeartbeat(c, now)
  \/ \E t \in Threads, c \in ClientId : ClientDisconnected(t, c)
  \/ \E t \in Threads, now \in 0..clock : ExpireLeases(t, now)
  \/ \E kind \in {"job", "watch"}, c \in ClientId, key \in Keys :
       Subscribe(kind, c, key)
  \/ \E t \in Threads, kind \in {"job", "watch"}, c \in ClientId,
        s \in SubscriptionId : Unsubscribe(t, kind, c, s)
  \/ \E key \in Keys : JobReaping(key) \/ JobReaped(key) \/ JobCompleted(key)
  \/ \E t \in Threads : Batch(t)
  \/ ObserveExit

Spec == Init /\ [][Next]_vars

\* A thread inside callback_batch_run runs to its end, the supervisor reaps
\* every job it was told to cancel, and the daemon's main loop polls should_exit.
Fairness ==
  /\ \A t \in Threads : WF_vars(Batch(t))
  /\ \A key \in Keys : WF_vars(JobReaped(key))
  /\ WF_vars(ObserveExit)

FairSpec == Spec /\ Fairness

-----------------------------------------------------------------------------
(* Properties.                                                               *)

TypeOK ==
  /\ state \in {"RUNNING", "STOPPING"}
  /\ permanent \in BOOLEAN
  /\ hooks \in BOOLEAN
  /\ lastClientId \in 0..MaxClientId
  /\ lastSubscriptionId \in 0..MaxSubscriptionId
  /\ live \in SUBSET ClientId
  /\ heartbeat \in [ClientId -> Time]
  /\ clock \in Time
  /\ subscription \in [SubscriptionId -> Subscription]
  /\ resource \in [SubscriptionId -> Resource]
  /\ batch \in [SubscriptionId -> Threads \cup {NoThread}]
  /\ calling \in [Threads -> SubscriptionId \cup {NoResource}]
  /\ callbackCount \in Nat
  /\ exitReady \in BOOLEAN

\* Work is coalesced: a project key never has two physical jobs, nor two
\* physical watches, on the coordinator's lists (find_job_locked under the
\* mutex that also links the new object).
OnePhysicalResourcePerKey ==
  \A q, r \in SubscriptionId :
    (/\ resource[q].place = "listed" /\ resource[r].place = "listed"
     /\ resource[q].kind = resource[r].kind
     /\ resource[q].key = resource[r].key) => q = r

\* Physical work exists exactly as long as somebody wants it: a running job and
\* a listed watch have a subscriber, a job under cancellation has none, and
\* every subscription belongs to a connected client and to a listed resource.
WorkIsWanted ==
  /\ \A r \in SubscriptionId : resource[r].place = "listed" =>
       (Subscribers(r) = {} <=> resource[r].status \in {"CANCEL_REQUESTED", "REAPING"})
  /\ \A s \in SubscriptionId : subscription[s].resource # NoResource =>
       /\ subscription[s].client \in live
       /\ resource[subscription[s].resource].place = "listed"

\* Both, of the jobs and watches that coordinator.c shares between clients.
WorkMatchesDemand == OnePhysicalResourcePerKey /\ WorkIsWanted

\* Nothing survives the terminal transition: a stopping coordinator has no
\* client, no watch and no job other than the ones it is cancelling.
StoppingOwnsNothing ==
  state = "STOPPING" =>
    /\ live = {}
    /\ AllListed("watch") = {}
    /\ \A r \in AllListed("job") : resource[r].status # "RUNNING"

\* The object a batch still holds is allocated (callback_batch_run reads its
\* project_key), it is held by exactly the batch that will free it when it is
\* detached, and an object that is in no batch and on no list has been freed.
ObjectsFreedOnce ==
  \A r \in SubscriptionId :
    /\ batch[r] # NoThread => resource[r].place \in {"listed", "detached"}
    /\ resource[r].place = "detached" => batch[r] # NoThread

\* callback_count is the number of hooks queued or running, over all batches.
CallbacksAccounted == callbackCount = Cardinality(Outstanding)

\* Hooks run outside the mutex on objects that outlive them, and each is counted
\* until it has returned (callback_batch_run).
CallbacksSafe == ObjectsFreedOnce /\ CallbacksAccounted

\* Once a caller of should_exit has been told that it may exit, that stays true
\* for ever: no client comes back, no job starts, and no thread is in a hook.
ExitIsFinal ==
  exitReady => ShouldExit /\ \A t \in Threads : calling[t] = NoResource

\* A client whose heartbeat is younger than the lease never expires, even when
\* expire_leases works with a time read before that heartbeat arrived.
LeaseHonoured ==
  [][\A t \in Threads, now \in 0..clock : ExpireLeases(t, now) =>
       \A c \in live \ live' : clock - heartbeat[c] >= LeaseTimeout]_vars

\* A stopping coordinator drains: its jobs are reaped, its callbacks finish and
\* should_exit becomes TRUE.
StoppingDrains == (state = "STOPPING") ~> exitReady

=============================================================================
