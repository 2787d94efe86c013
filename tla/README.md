# A TLA+ development of the codebase-memory-mcp daemon

codebase-memory-mcp indexes source trees into graph databases and answers an
agent's questions about them. One daemon per user does the work for every agent
session; the command line, an installer that replaces the binary, the file
watcher and a UI server want the same databases at the same time. The logic that
decides **who may do what when** is spread over threads, processes and file
locks, and that is what these modules specify, model-check and prove.

Paths below are relative to the repository, line numbers are those of this
commit.

## 1. The system

| Part | Source | State it keeps | Operations | What makes it correct |
|---|---|---|---|---|
| Coordinator | `src/daemon/daemon.c` | clients with leases, jobs and watches with their subscribers, queued hooks | connect, heartbeat, disconnect, expire, subscribe, unsubscribe, reap, complete, should_exit | one physical job and watch for a key; work exists while somebody claims it; hooks run after the unlock and are accounted for; the exit answer is final |
| Lock registry | `src/foundation/lock_registry.c` | per key: a queue of waiters, readers and writer, two native handles (turn, rw) of each lease | acquire with deadline and cancel token, release with retry, free | a reader-writer lock across threads and processes, whatever fails |
| Private file locks | `src/foundation/private_file_lock.c` | one open descriptor for each lock | try_acquire, release, read and write a payload | `flock` semantics; external to the models |
| Version cohort | `src/daemon/version_cohort.c` | the files maintenance, admission, lifetime, daemon; the identity record | acquire, reserve for mutation, observe, claim, release | processes alive together run one build; a mutation of the binary works alone |
| Application | `src/daemon/application.c` | sessions, jobs, watch subscriptions, mutations | requests, cancel, disconnect, auto-index, background index, mutations, shutdown | a project has one writer; work is owned; cancellations are exact; shutdown drains |
| Project locks | `src/daemon/project_lock.c` | a lease on the project set and one on the project | acquire, try, release with retry | a mutation of all projects excludes each single one, across processes; nobody waits for ever |
| Watcher | `src/watcher/watcher.c` | watched projects: git baseline, dirty signature, back-off, missing-root streak | watch, unwatch, poll, prune, stop | a change is never lost; nothing is done for a project nobody watches |
| Runtime service | `src/daemon/runtime.c` | connections, provisional and committed clients, running or stopping | accept, HELLO, request, cancel, stop, drain | the generation lives exactly while committed clients do (or it is permanent) |
| Host, bootstrap, frontend, IPC | `src/daemon/{host,bootstrap,frontend,ipc}.c` | startup and lifetime locks, the claim, the names of the socket | probe, launch, take over, clean up, shut down, observe maintenance | a name leads to the daemon that serves; a drained activation is alone; nobody waits for each other |
| Activation transaction | `src/cli/activation_transaction.c` | the target, its backup and the staged candidate in one directory; which of them the transaction owns | prepare, stage, commit, roll back, finalize, close | the binary is never missing or half replaced; an answer is so on the disk; a transaction can be ended |
| Index worker | `src/mcp/index_supervisor.c`, `src/foundation/subprocess.c` | a process tree | start, poll, kill | external: it starts, ends, crashes, hangs until killed |
| The rest | MCP tools, pipeline, store, Cypher, extractors, command line, UI | | | sequential code over data; listed with reasons in `PROJECT.json` |

**How they interact.** A connection thread of the runtime service admits a
client to the coordinator and a session to the application. A request runs on a
thread of its own and may admit an index job, which has a thread, which starts a
worker process; the thread also takes a project lock, that is two leases of the
lock registry, that is four `flock`s. The watcher and the UI call the application
from their threads, and the application calls the watcher back when it registers
or prunes a project: the lock order is watcher coordination, application,
watcher projects. Hooks of the coordinator run without its mutex. Every process
holds a version cohort lease while it lives; an installer closes the cohort,
asks the daemon to stop, waits until all leases are gone, and replaces the binary
in an activation transaction.

**What is hard.** Two critical sections with a cancellation in between; a finished
object that somebody still points to; a failed unlock; a process that dies with
a lock or between truncating and writing a record; deadlines that race a grant;
the last owner that leaves while another arrives; an edit while its project is indexed;
a rename whose directory is not on the disk yet; shutdown during all of it.
`PROJECT.json` lists these hazards by line under `hazards`, with the property
that guards each, or the reason why there is none yet.

## 2. The modules

| Module | What it is |
|---|---|
| `Coordinator` | `daemon.c`: an action for each function, `RunCallback`/`FinishCallback` for the hooks that run after the unlock |
| `SharedWork` | what the coordinator promises: members, claims, work |
| `CoordinatorRefinement` | the mapping from the first to the second |
| `LockRegistry` | `lock_registry.c`: a thread's acquisition and release, step by step, over processes that share native locks |
| `ReadWriteLock` | what the registry promises: a set of grants |
| `VersionCohort` | `version_cohort.c`: calls of several processes over four lock files and the record |
| `Cohort` | what it promises: participants of one build, a barrier, a mutator |
| `IndexJobs` | `application.c`: sessions, jobs, mutations, watches, shutdown |
| `ProjectGate` | what both promise about a project's data: workers and mutations exclude each other |
| `ProjectLock` | `project_lock.c` and the mutations of the daemon, of command lines and of the cross-repository match that take its leases |
| `Watcher` | `watcher.c`: the poll thread, with the sessions, jobs, mutations and deletions that share its projects |
| `RuntimeService` | `runtime.c`: connections, their workers and request threads, the accept loop, the host, and the clients' side |
| `Generation` | what the service promises: members, and an end when the last one leaves or a stop is asked for |
| `Activation` | `activation_transaction.c`: a directory, what of it is on the disk, and the calls of one transaction |
| `DaemonGeneration` | `host.c`, `bootstrap.c`, `ipc.c`, and what `main.c`, `frontend.c` and `cli.c` do to them: who starts, serves, works beside, and replaces a daemon |
| `*Proofs` | theorems of the detailed modules |
| `MC*` | small instances for TLC |

### Coordinator

`live`, `heartbeat` and `lastClientId` are the client list, `subscription` the
subscription lists (who, of which object), `resource` the job and watch objects
with the list they are on (`place`), `batch` and `calling` the callback batches
that threads carry out of the mutex, `callbackCount` the counter of the same
name. An action is one critical section, except for `callback_batch_run`, which
takes a thread through its hooks one by one; other threads act in between, also
on the objects of its batch. `ClientDisconnected` and `ExpireLeases` release all
that a client owned in the same action (`ReleaseClients`, `Withdraw`), as
`release_client_locked` does. The clock is a number that `Tick` moves;
`ExpireLeases` may use an old reading of it.

### LockRegistry

A thread walks through `phase`: queued, the attempt on `turn`, the attempt on
`rw`, the drop of `turn`, activation, held, and the ways back. `turn` and `rw`
are the native handles of each lease (`"shut"`: unlocked, but closing failed).
A reader takes `turn` exclusively, `rw` shared and drops `turn`; a writer takes
`turn` shared and `rw` exclusively. Native attempts happen without the registry's mutex,
bookkeeping with it, so native ownership and bookkeeping disagree for a while:
that window is in the model. `stop` says that a deadline or the token has
fired for a thread; storing the token and the broadcast are two actions.
Every native operation and every condition wait may fail; a process may die
(`Crash`), which closes its descriptors. Left out: children after `fork` and a
failing fork guard, memory exhaustion, switches for tests.

### VersionCohort

The protocol is two tables: `Wanted` says which file a caller locks in which
phase and how, `Passed` which handles it gives back on its way, and `Take`,
`Pass`, `Refused`, `TakeFails`, `PassFails` interpret them. `record` is the
identity record; `Truncate` and `Write` are two steps with a crash possible in
between (`Torn`). `Unwind` takes a lease apart in the code's order, and each of
its releases may fail and be retried. A caller's `late` says that its deadline
has passed. Left out: `daemon_presence` and `presence_under_transition`, which
need the locks of `ipc.c` (`DaemonGeneration` has the second, and so the observer of the
claim); the order in which the kernel closes the descriptors
of a dying process (they go at once); the jitter of the retries.

### IndexJobs

Everything in `application.c` is under one mutex, and an action is one critical
section. A session has two threads, its connection (`CancelRequest`,
`CancelSession`, `Join`, `CloseSession`) and its current request, whose place is
`pc`; a job's thread is the job's `phase`; the watcher and the UI are `Callers`.
What a request holds between critical sections is `at` (a pointer to a job) and
`todo` (keys it still has to reserve). The publication of a result revisits, in
the same critical section, every session whose auto-index found no room: `retry`
is the rest of that loop, and nothing else moves until it is empty.

Decisions: the reap that follows a critical section is folded into it, since it
only frees what nobody refers to; setting the context is part of `Open`; the
order in which a publication visits sessions is left open (in the code it is
that of a list); two keys are equal exactly if they are the same lock file.
Left out: update checks (no build ships a provider), memory exhaustion, the
forced exit after a cleanup deadline, restricted tool profiles and hooks, the
file limit of auto-index, two roots with one project name, a failing
registration with the watcher. A worker whose supervision failed ends as `"unsafe"`: it is
not retried and not run again without the isolated files. `asked`, `answer` and `shutdown` are history.

### ProjectLock

A lease of a project is two leases of the lock registry, the project set shared
and then the project exclusively; a lease of "*" is the set exclusively. `set`
and `proj` say what each thread owns of them for each key, in the terms of
`ReadWriteLock` plus what failures leave behind: the turn of a writer that still waits
for readers, natives that could not be unlocked, a handle that could not be
closed. A thread goes through the lease keys of its operation (`LeaseKeys`:
case-folded, without doubles, sorted as `mcp.c` does), reserves each in the
daemon if it is one of its threads, takes the two locks in attempts of 100
milliseconds, and gives everything back last first (`end`), or undoes an attempt
(`undo`). A release may fail at the unlock, at the close or after it and is
repeated; five seconds of failures end the process (`FailStop`), and the kernel
closes its handles one by one. What the daemon's own gate adds for index jobs is
in `IndexJobs`; here are the daemon's mutations and those of other processes.
An attempt that times out with nothing to give back and is made again changes
nothing (`Again`). Left out: the manager's life, the queue that the registry
keeps inside a process (whoever waits may be next), the cancel token (no caller
passes one), two leases of one name in one process, which the reservation and the command line exclude.

### Watcher

The poll thread's place is `pc`; `snap` is what it has still to visit of the
snapshot it took under the lock, `cur` the state it works on, `seen` what git
showed it (`pending_head`, `pending_dirty_sig`). `table` and `st` are the hash
table of projects and the storage of their states, with a life of its own for
each: what is unwatched is deferred, and the next poll frees it. A work tree is a
HEAD, a dirty signature and a root that is present, missing or unreadable; `rev`
counts its changes and `db` is the revision its database was built from. Every
git command may succeed, fail, or be given up, each for its reasons. A job is
what its readers and writers see of it: it begins, reads the tree, writes, ends or
fails (`IndexJobs` has the rest), and `application->mutex` is shown where it
spans two steps (`application_refresh_watch`). The model has both registers of a
watch: the application's logical one with its sessions and the watcher's
physical one, and the four ways to end it: the last session leaves, the
database has gone, a prune, a deletion through the UI server. A deletion removes the physical
watch only (`ui/http_server.c:1284`), `cut` remembers that, and while a session
holds the logical one the project is not watched again although its next index
brings the database back: `WatchesAgree` says that this is the only way in which
the two can stay apart. Left out: `cbm_watcher_touch` (nobody calls it),
`cbm_watcher_free` after the thread's end, memory exhaustion.

### RuntimeService

A slot (`Workers`) has a worker thread at `worker[w].pc`, the thread of its
current request (`app`), a connection with what is under way in both directions
(`conn`), and the process at its other end (`client`). `service` and
`coordinator` are the two sets of books that have to agree: a client is admitted in
the coordinator, opens a session in the application and is then committed in the
service, unless it stops in between; it leaves in the order service,
coordinator, application. A worker that has still something to say is
protected (`final`) from the interruption that a stopping service sends to all
others. An activation or a `daemon stop` is acknowledged after the drain; the
requester holds the gate (`inflight`) meanwhile. The accept loop's turn and the
worker's disconnect are split where another critical section may come between.
Folded: what an exit decision reads of flags that only ever grow worse. Left out:
heartbeats and the subscriptions of the protocol (no production client sends
them; `Coordinator` has their effect), status reports, identity checks, codecs,
and the host's own deadline.

### Activation

`dir` binds three names to inodes, as the kernel shows it; `disk` is the set of
directories that a power loss may leave, which grows with each change and
shrinks to one at each sync. `tx` is the transaction object and `pc` the next
step of the call in progress; what the caller calls next is free. An action is
one change or sync together with the examination right before it; where the code
examines, does something else and then changes, there are two actions, and
another program may act in between (`Rival`). A system call fails for its
reasons, or for none as long as the budget allows. Left out: the Windows
branches, modes, owners and ACLs, the identity of the directory itself, staging
from a file, and what an installer does after a power loss (a directory that has the
target under two names is refused by the next `prepare`, and a person has to
remove the backup).

### DaemonGeneration

The other modules look at one component each; this one is the composition of the
processes that share an account's daemon. A process is at `phase`, which is also
what it has read and not yet used. `held` has the locks with one holder: the
cohort's barrier (maintenance and admission, taken by an activation), `startup`
(startup-v2), `claim` (the daemon's marker) and `lifetime`. `cohort` are the
processes with a lease of `VersionCohort`; since all run one build, a lease is
refused only by the barrier. `socket` is what the stable name leads to: a daemon's
listener, a dead one's (`Stale`), or nothing, with an anchor left beside it
(`Remnant`). For a client, `stage` is how far its bootstrap loop is (`open`,
`locked`: it has startup-v2, `watching` its child), `heard` what its connection
got between the two halves of a probe, `on` its daemon.

An action is one system call on what is shared, with the decision that follows.
A client's probe is five of them: it takes the claim to see that it is free and
gives it back (`Look`, `Looked`), asks for the lifetime lock (`Lifetime`), and if
somebody is there connects and, when that fails, asks again (`Connect`). The probe
of the claim owns it for a moment, so observers see each other; that of the
lifetime lock is an `F_GETLK` and owns nothing. A daemon comes up through
`Admit`, `Claim`, `ReserveLifetime`, `Bind`, `PublishSocket`, each of which may turn it away, and
goes down through `Stop`, `Unlink` and `Release`, in the reverse order. A local
command takes startup-v2, cleans up where no generation lives (`Seal`, `Cleanup`),
weighs claim and lifetime, gives startup-v2 back and works. An activation asks
the daemon to stop, closes the cohort, asks again, waits until the cohort is
empty, and only then takes startup-v2 and probes the names (`EagerRequest` to
`Probe`). `Cleanup` unlinks what the records name and cannot see whether a listener
lives: that it does not is `ListenerNamed`. `Die` is the kernel's part: locks,
leases and connections go, names stay. `Evict` is a local command's monitor, which
exits wherever the command is. A client's process takes one lease for its life and its
bootstrap a second; they are one membership, since the second is given back first.

`disturbed` is history: an observer was taken for a child, a parent gave up its
child at the deadline, or a process died. Left out: the claims on the file of older builds; the
records by which a cleanup tells one listener's names from another's; failing
system calls, except the fork; permanent daemons; Windows.

## 3. The runs

Each run asks one question of one instance; every property of a passing run has
a mutant, a plausible bug in a definition of the model, which the run detects.
Properties that belong together and hold in the same run are the named parts of
one conjunction.

| Run | Properties | What it shows |
|---|---|---|
| `coordinator` | `TypeOK`, `WorkMatchesDemand`, `CallbacksSafe`, `ImplementsSharedWork`, `LeaseHonoured`, `StoppingDrains` | coalescing, demand, hook accounting, refinement, expiry with stale readings of a clock, the way to the exit; two clients, two threads with batches, two keys, two subscriptions |
| `lock_registry` | `TypeOK`, `LeasesSound`, `ImplementsReadWriteLock`, `WaitsEnd` | two processes, three threads; two acquisitions with a failure, a crash and a stop, or two stops; or one with three failures |
| `version_cohort` | `TypeOK`, `CohortSound`, `ConflictIsReal`, `ImplementsCohort`, `EveryCallEnds` | three undisturbed calls from two processes of two builds, or two with a failure, a crash and deadlines |
| `index_jobs_sessions` | `JobsSound`, `WatchersOwn` | two sessions with the watcher: index requests with two options, auto-index and a cancellation or disconnect, or auto-index with two of them, or with the UI too; shutdown |
| `index_jobs_ends` | `TypeOK`, `CancelledRightly`, `ImplementsGate`, `RequestsEnd`, `PartingEnds` | two sessions, two projects, one slot, mutations of several keys and of all, a thread that does not start; or a session with two requests, or with the UI, recovery after crashes, workers that hang, shutdown anywhere |
| `project_lock` | `TypeOK`, `LeasesWhole`, `ImplementsGate`, `OperationsEnd` | two daemon threads and a command line; three spellings of two projects, single names, several and "*", with cancellations, failing locks and releases, a crash and a restart, in ten mixes |
| `watcher` | `WatchesSound`, `OwnIndexIsCommitted`, `ChangesAreIndexed`, `GoneIsPruned` | a session, the poll thread, and an edit or commit, a root that moves, a fault, an index, a deletion in four mixes |
| `watcher_coalesced` | `CommittedIsIndexed` (violated) | first finding |
| `runtime_service` | `ConnectionsSound`, `AckMeansDraining`, `ImplementsGeneration`, `EveryoneIsReleased` | sessions, requests, cancels, closes, an activation, a stop, a signal, deaths, on two slots in eight mixes |
| `activation` | `OutcomesTrue`, `RivalKept`, `CloseSucceedsOrWedged` | replacement and removal over a present and an absent target, with and without a rename that does not replace; three failing calls, or two and another program twice; a power loss anywhere |
| `activation_wedged` | `CloseSucceeds` (violated) | second finding |
| `daemon_generation` | `GenerationSound`, `RefusedOnlyIfDisturbed`, `EveryoneEnds` | two clients and two daemons with a death; two clients and a daemon beside a local command or an activation; both daemons, a local command and a client, or one of each kind, or two activations, with a death |

The conjunctions: `WorkMatchesDemand` is `OnePhysicalResourcePerKey` and
`WorkIsWanted`; `CallbacksSafe` is `ObjectsFreedOnce` and `CallbacksAccounted`;
`LeasesSound` is `WriterAlone`, `CountersMatch`, `NativeOwned`,
`BookkeepingExclusive` and `NoLostWakeup`; `CohortSound` is `RecordIsCohorts`, `MutationAlone`,
`GuardsNested` and `ManagerOutlasts`; `JobsSound` is `SubsCounted`, `CancelledOwnsNothing`,
`DemandDriven`, `PendingHasWaker` and `WriterAlone`; `CancelledRightly` is `CancelIsExact` and
`DemandDriven`; `ConnectionsSound` is `CountsMatch`, `SessionsOwned`,
`NothingOutlives`, `AnswersMatch` and the types; `LeasesWhole` is `MutationsOwn`,
`NothingForgotten`, `SetOutlasts`, `ReservationOutlasts` and `OrderKept`;
`WatchesSound` is `StatesAlive`, `WatchesAgree` and the types; `OutcomesTrue` is
`TargetKept`, `AnswersTrue` and the types; `GenerationSound` is `ListenerNamed`, `OwnersKnown`,
`DrainedAlone` and the types; and of the promises, `WaitsEnd` is `StopIsHeard`
and `EveryCallEnds`, `PartingEnds` is `DisconnectsEnd` and `ShutdownDrains`, whose
second half is `DrainedForGood`.

**The findings.**

1. `watcher.h:24` says that only a successful index commits the watcher's baselines
   and that a change is "never silently lost". The index that the watcher asks for
   may join a running job of the project (`application.c:1592`) which has read the tree
   before the watcher did; its success commits the newer observation.
   `watcher_coalesced` shows the edit between the two readings, after which
   the database is older than the baseline and no poll will notice. For indexes
   that did read the tree afterwards, `OwnIndexIsCommitted` holds.
2. `activation_transaction.h:79` says that after a failed cleanup the caller keeps
   the object "so paths and rollback can be retried". When `finalize` has unlinked
   the backup and the sync after it fails (2259), it is still COMMITTED, each
   `close` tries to roll back a target it no longer has, and all of them answer
   ROLLBACK_FAILED. The binary is the new one and safe; only the object cannot be
   disposed of. `activation_wedged` shows it, `CloseSucceedsOrWedged` states
   exactly when closing again works, and that nothing helps afterwards is proved
   (`NoWayOut`).

**Bounds.** They are constants of the modules, appear only in guards, and are
named: `MaxClientId`, `MaxSubscriptionId`, `MaxTime` (`Coordinator`);
`Mixes` (`IndexJobs`), `Casts` (`DaemonGeneration`) and `Budgets` (the others), a set of mixes of what may happen, of which a behaviour
uses one: a single large budget would mostly combine events that have nothing to do with each other.
Why they are enough to meet the interesting cases:

- Two clients and two subscriptions make a key shared, shared twice by one client,
  and left by one of two; two threads hold batches with the same object; two
  keys let one job end while another drains.
- Two processes with two and one threads make both kinds of contention, local
  and native; two acquisitions of three threads put a waiter behind a holder of
  either kind; three failures let a release and its retry fail; one crash is enough,
  since a crash only removes what one process has; a deadline or a token for each of two
  waiters, or for one beside a crash.
- Two builds and three callers make a member, one that disagrees, and a mutation
  meet.
- In `IndexJobs` a limit of one job makes one project's job keep another's
  waiting; two sessions in one project share a job, an auto-index and a
  watch; two projects and plans of one and two keys and "*" make every order of
  reservations; two interruptions let both owners of a job leave, or one cancel
  and then disconnect; two requests let a late cancellation meet the next
  request; two restarts reach all branches of recovery.
- In `ProjectLock` two daemon threads meet at the reservation, the command line meets
  them at the native locks, and "*" meets both; two names of two projects in two orders of
  spelling are a cycle if anything is; one failure and one crash reach each
  step of taking and giving back.
- In `Watcher` two states are one that is deferred and one that replaces it; two
  misses in a row prune, with the grace period, as three do in the code
  (`MISSING_ROOT_DELETE_AFTER` is a constant of the module); one change is
  enough, since a change is what is newer than what was read.
- In `RuntimeService` two slots are a client and the one that ends it; a third
  session reuses a slot. The mixes are those of one party that stops the service
  and one or two others.
- In `Activation` three failures are one in a commit, one in its rollback and one in the
  close after them.
- In `DaemonGeneration` two clients are two starters, or one that starts and one that
  observes; two daemons are a predecessor and a successor, or two launched at once; a
  death at any point leaves any of the names and locks behind; two activations meet at
  the barrier. A cast leaves out who is not needed for a question, not what they do.

What is proved (section 5) does not depend on any of them.

`CHECK_DEADLOCK FALSE` stands in the runs of `Coordinator`, `IndexJobs` and
`Watcher`: they really stop, when the daemon has drained or the poll thread has
ended. The others never do: a finished activation, a quiet service, mutations that are
all done are a stutter step of their own (`Over`, `Rest`; `Rest` of `DaemonGeneration` is everybody gone) that is guarded by the states in which there is
nothing to do, so every other halt is an error.

**Fairness.** Weak fairness of each thread's own next step stands for the
scheduler, and nothing else is assumed of strangers. In `Coordinator`: a thread
that carries a batch finishes it, the supervisor reaps jobs it was told to
cancel (`application.c` waits for every worker it kills), the host polls
`should_exit`. In `LockRegistry`: a thread's steps and the broadcast after the
token was stored; `StopIsHeard` needs nothing of the holders, `EveryCallEnds`
states its condition itself, that holders release. In `VersionCohort`: callers
proceed, and a participant leaves when it sees maintenance requested
(`frontend.c:98`, which kills the process if need be); starvation by unlucky
retries is excluded by that assumption, in the code by jitter. In `IndexJobs`
(`FairSpec`): request threads, job threads and disconnects proceed, mutations
end, a worker that is being killed ends; in mixes without `hangs` a worker also
ends by itself, since the supervisor kills one that is silent too long.
`PartingEnds` holds in the others too, and `RequestsEnd` is stated for these
only. In `ProjectLock`: threads run, operations end, the kernel closes what dead
processes had, and a lock that is free again and again is found free in the end
(strong fairness of the two lockings): it is polled every millisecond. The gap
that an expired attempt of a "*" mutation leaves is short, so this is a statement
about chances, not about each run. In `Watcher`: the poll thread, time, jobs and deletions go
on, strongly fair since they queue for a mutex that others take and give back;
nobody has to edit, connect, or stop. In `RuntimeService`: threads run, deadlines
pass, the application returns from a request whose session or token it was told to
cancel, and a client reads what it is sent; a request that nobody cancels may run
for ever. In `Activation`: a call ends, and a caller that has to close
closes again and again (the command line gives up at the first failure and
reports it). In `DaemonGeneration`: a process on its way takes its next step, a
launched daemon too; a client's loop ends at its deadline (strong fairness of `Expire`,
since the code compares the clock in each round); an unattended daemon stops
(`host.c:858`), a session and a local command end when their monitor sees maintenance. A session, a daemon with a client and a command's work may
otherwise last for ever, nobody has to begin, and `DrainExpires` is not assumed: an activation would get
through without its deadline. Clients, the host, the UI and the watcher's clock owe nothing.

## 4. Reading the properties

The deepest ones, with what would break them:

- `ObjectsFreedOnce`, `CallbacksAccounted`: a hook is queued under the mutex and
  runs after it, while the supervisor ends the same job. Whoever comes last
  frees the object, and the counter that keeps the daemon alive agrees with the
  hooks of all batches.
- `BookkeepingExclusive`: a lease's natives are gone before its bookkeeping is, so
  the next local attempt may own both native locks while the old holder is still
  listed; it must not become active before.
- `CountersMatch`: three counters decremented on different failure paths gate
  admission and the free of the registry.
- `GuardsNested`: on every path, failing ones included, a lease that is half taken
  apart lets no second transition in. `RecordIsCohorts` and `MutationAlone` rest
  on it.
- `ConflictIsReal`: a cohort that ended between two looks is replaced, not
  reported as a conflict.
- `SubsCounted`: five kinds of references hold a job between critical sections;
  its count is their number, so it is freed neither early nor never.
- `WatchersOwn`: who owns a job through the watcher is decided when the watcher is lent
  it, and again by every session that comes or goes while the watcher waits. A step that leaves
  somebody watching leaves exactly the watching sessions as its owners.
- `CancelIsExact`: an answer says "cancelled" exactly if that request was, however
  the cancellation races its completion and the next request.
- `PendingHasWaker`: whoever found no room is waiting for a publication that is
  still to come. It is stated as long as no thread failed to start: after such a
  failure the session waits for the next publication or its own next
  request.

- `OwnIndexIsCommitted`, `ChangesAreIndexed`: the observation that an index
  commits was made before it, under another lock, by another thread, and survives
  unwatching, refusals, cancellation and a root that vanishes.
- `GoneIsPruned`: the streak of misses is counted per state, the prune needs the
  project's mutation, and both can be lost to whoever else wants the project.
- `SessionsOwned`, `CountsMatch`: three books of the same clients, kept by three
  components that are told one after the other.
- `AckMeansDraining`: an installer acts on the acknowledgement; nothing may be
  answered after it, although answers are sent by threads of their own.
- `LeasesWhole`: two locks, a reservation and a list of keys are taken and given
  back on a dozen paths, each of which may fail half way; what remains must be
  accounted for, nested, and covered by the reservation.
- `OperationsEnd`: a mutation of "*" that waits for readers stops new ones, also
  the second lease of a mutation that has its first. Each waits for the
  other, and only the deadline of the attempts gets them out. With keys sorted by spelling
  instead of by lock two matches would meet in opposite orders.
- `TargetKept`, `AnswersTrue`: over every prefix of the directory's changes that a
  power loss may leave, and every step that can fail in commit, rollback and close.
- `GenerationSound`: the cleanup of names has no way to see a living listener, the
  drain does not look at startup-v2, the claim and the lifetime lock are two locks with
  different observers. Six roles in any number interleave with deaths.
- `RefusedOnlyIfDisturbed`: two starters, each of which probed before it had
  startup-v2, launch one daemon; whoever is refused nevertheless owes it to one of
  three named circumstances.

## 5. What is proved

The prover checks every theorem for all values of the constants: any number of
clients, keys, threads, processes, builds, sessions, projects and jobs, and any
bounds. The only assumptions are the named ASSUMEs of the modules (constants are
what their names say, distinguished values are distinct), which TLC evaluates in
each run.

- **`CoordinatorProofs`**: `TypeCorrect`, `Coalescing`, `WorkFollowsDemand`
  (`WorkMatchesDemand`), `CallbackAccounting`, `NoUseAfterFree`, `CallbackSafety`
  (`CallbacksSafe`), `StoppingReleasesAll`, `ExitAnswerFinal`. `TypeOK` is not inductive: that the counter is natural
  follows from its being the cardinality of the queued and running hooks. The
  invariant `IInv` adds the shape of each object (`ObjectShape`: what its place,
  status and batch say about each other), that identifiers above the last one
  issued are unused, that owners are connected and own listed objects, and that
  a thread calls hooks of its own batch only. One lemma follows `Withdraw`, the
  common part of leaving, expiring and unsubscribing.
  Its second part proves `SharesWork` (`ImplementsSharedWork`) and
  `LeasesHonoured` (`LeaseHonoured`). In a state of the invariant the work of a
  key is idle if no object of the key is listed, active if its object is wanted,
  and ending otherwise. A step is therefore seen from outside only through which
  objects are listed and which subscriptions claim them; everything else (hooks,
  the clock, reaping, batches) is a stutter. Expiry drops only
  clients whose heartbeat lies the timeout behind the time its thread read, and the
  clock has only grown since.
- **`LockRegistryProofs`**: `MutualExclusion`, `HandlesOwned`, `Refinement`
  (the registry implements `ReadWriteLock`). The phase of a thread determines its
  handles up to failures (`PhaseHandles`), the kernel grants compatible locks
  only (`NativeCompatible`), and a thread that holds a lease therefore holds `rw`
  in its mode. Exclusion follows from `rw` alone, and failures only make
  handles weaker.
  Its second part proves `BooksRight` (`LeasesSound`, the bookkeeping included)
  and `TypeCorrect` (`TypeOK`). A counter is right if it is the cardinality
  of the set of threads that count for it: those on the line (`Lined`), those with a lease or a
  native operation under way (`Leased`, `Owing`), the readers (`Reading`). A
  thread stands on one line exactly where its phase says, and a step changes only
  what its own thread counts for, so each counter moves with its set. Somebody
  becomes a writer only when the counters say that nobody else is active, and by
  the counting nobody is. A crash empties the sets of a process with its counters.
  Its third part proves `WakeupsKept` (`NoLostWakeup`, a part of `LeasesSound`): nobody sleeps on the condition
  variable while nothing keeps him from going on. What lets somebody go on is a lease or an attempt that ends, a
  waiter that leaves the head of its line, a failure that is settled, or a token; each of them broadcasts in the same
  critical section, except for the token, which is stored before the broadcast (its thread is in `cancelling` until
  then). The invariant `WInv` adds that the attempt of an entry stands at the head of its line (`Attempts`) and that
  nobody waits in a registry that is freed (`Open`). A step that wakes nobody leaves the guard of every sleeper as it was (`Passed`).
- **`VersionCohortProofs`**: `Nesting`, `RecordSafe`, `MutationExclusive`,
  `CohortSafe` (`CohortSound`, all of them), `Refinement` (implements `Cohort`),
  `ConflictsReal` (`ConflictIsReal`), `TypeCorrect` (`TypeOK`), `ManagersOutlast`
  (`ManagerOutlasts`). The phase of a caller determines its four
  handles (`LeaseShape`), the kernel's promise holds (`NativeCompatible`), and the
  record stands still while somebody has lifetime shared (`RecordStands`), since
  it is written under lifetime and admission exclusively. Admission closes
  because a barrier holds admission exclusively. A reported conflict is real because
  whoever shares lifetime is of the record's build or still has admission, and
  whoever has found another build keeps admission, so that the record is the same
  when it looks again (`Mine`). `lease_count` is the cardinality of the callers of a process that are
  in a call or have a lease (`Counted`); the set is finite because it starts empty and grows by one,
  so the count never goes below zero, and a manager whose count is zero has nobody left.
- **`IndexJobsProofs`**: first the writers: `Invariance`, `WritersAlone`, `Refinement` (implements
  `ProjectGate`). Most steps cannot matter: they keep all phases, or only free
  finished jobs (`Kept`, `Calm`). What is left is a job that passes the gate and a
  thread that reserves a key. For these, active jobs belong to different
  projects and a thread in `lock` has a reservation for the head of `todo`
  (`ThreadsInv`).

  Then the books: `WholeInvariance`, and from it `JobsAreSound` (`JobsSound`),
  `CancellationsAreRight` (`CancelledRightly`) and `TypeCorrect` (`TypeOK`). A job is freed when it has ended and
  its two counts are zero, so the counts have to be those of its holders, and the
  argument for that is in three layers. *Counting functions*: of the holders
  of a job some are firm (a request, an auto-index owner, a thread that was admitted or a caller of the
  UI), some loose (a disconnect that joins it, a session that
  watches it: they do not keep it from being cancelled), and the watcher waits. `Tally` says for any three functions
  that they agree with the fields of the jobs: the counts are their sums, a job
  that is cancelled has no firm holder unless the daemon stops, one that is not
  has some holder, a free one has none. *Operations*: each operation on jobs (`Drop`, `Reap`, `Subscribe`,
  `CancelAll`, a step of the job's thread) is one lemma from `Tally` to `Tally` for
  all functions, which says how the functions move. *Critical sections*: `Firm`,
  `Loose` and the wait of the watcher are cardinalities of sets of holders, and each action moves
  the sets as its operations move the functions. For that, `Books` needs to know where references can be: `Places`
  (which phase of a thread holds a job, and that it is not free), `OInv` (a session that is gone
  holds nothing, the owners are sessions and jobs), `TInv` (a
  request in time has no answer yet, and its cancellation is remembered by its number), `Modest` (counters
  within the bounds) and `Waker` (a session that waits for room and is not being revisited has a job alive). The sets are finite because there are finitely many
  sessions and callers (`FinitenessAssumption`: the daemon accepts finitely many connections).

  Last the watcher's owners: `WatchInvariance` and `WatchersAreOwners` (`WatchersOwn`). By `Books` a job has
  waiters exactly while the watcher waits for it (`BooksWaits`), so nobody owns another job through the watcher
  (`Pinned`) and the job that it is lent starts with no such owners. A waited job is never freed or given away
  (`Endures`), hence keeps its project; and each critical section changes who watches and who owns
  together (`NextRetied`): by one case for each of them, most of which touch neither (`Blind`).
  Two facts about sessions are needed: one that has not begun watches nothing (`Begun`), since only open
  sessions become owners, and an auto-index job is of its owner's project (`AutoHome`), since its publication
  refreshes the watches of that project for all its owners at once.

  And what a shutdown leaves: `ShutdownIsFinal` (`DrainedForGood`). A stopping daemon admits nobody, so outside the
  jobs' own threads its jobs are only counted down, cancelled and freed (`Kept`); with no job active there is no such thread,
  and without a reservation a mutation's thread only gives up.
- **`ProjectLockProofs`**: `Refinement` (implements `ProjectGate`). It looks only
  at who owns "locked" handles: the set has one writer or readers
  (`SetExclusive`), a project one owner under all its spellings
  (`ProjectExclusive`). A handle becomes "locked" only under the guard of its lock,
  on the failing paths as well; every other step loosens one handle or none (`Tame`), which
  ends at most one lease, and a lease that begins conflicts with no other.
  Its second part proves `LeasesAreWhole` (`LeasesWhole`) and `TypeCorrect` (`TypeOK`). What a thread has
  taken and what it has still to take are its plan, in order (`PlanShape`); what it owns of a key follows from where
  it is in its attempt, and what it owns of any other key is a whole lease (`HandleShape`, `PhaseShape`). That a plan
  covers every project of the request once and goes up in the order of the locks is a lemma about `Sorted` and
  `Chosen`: the place of an element in the sorted sequence is one more than the number of smaller ones, which is
  one-to-one and hence onto, and among the spellings of a name one is the least. Every attempt that fails goes
  through `undo` with the handles of the key at hand only, which is why nothing is forgotten.
- **`ActivationProofs`** speaks of what an activation relies on and of what it does, so it extends
  `DaemonGeneration` and `Activation` (whose names are therefore distinct: `GenerationInit`, `phase` beside
  `Init`, `pc`). The first part is `Soundness` (`GenerationSound`), for any number of
  clients, daemons, local commands and activations and any number of deaths. The invariant `GInv` says for each
  role that its phase says exactly which of the barrier, the claim, the lifetime lock and a
  lease it has (`Books`); startup-v2 may outlive the phases that need it, on the way out, but not its
  holder's lease or reservation (`StartupSound`); a daemon has its name exactly between `PublishSocket` and `Unlink`
  (`SocketSound`); a drained cohort stays empty (`DrainSound`), since the barrier is closed, and then
  `Books` leaves nobody who could hold anything. That no local command sees a foreign daemon
  (`NoneForeign`) follows when it weighs: it has startup-v2 and the claim, an owner of the lifetime lock is a cleaner,
  who would have the first, or a daemon, which would have the second.
  One lemma for each role, one case for each action.

  On top of it, `OnlyTheDisturbedAreRefused` (`RefusedOnlyIfDisturbed`) uses what holds as long as nothing
  disturbed the account (`Calm`): one daemon at a time is neither gone nor past its claim (`OneUp`). A client that
  found nobody with startup-v2 stays right until it gives it back (`Found`): a daemon with its
  claim would have been seen, since the client had the claim itself, and one without is awaited by its parent, who
  still has startup-v2 (`Awaited`); a parent gives it up only when it has seen its own child's claim, lock
  or socket. So whoever is refused would have met a second daemon, a cleanup that startup-v2 excludes,
  or a name that only a dead daemon leaves (`NamesLive`). No history of who launched whom is needed.

  The second part is `OutcomesAreTrue` (`OutcomesTrue`) and `RivalsAreKept` (`RivalKept`), for every kind of run and any
  number of failing calls, acts of other programs and power failures; the one assumption is that a budget is one
  (`Budgets \subseteq Allowed`). `IInv` is `OutcomesTrue` and, as long as nobody else touched the target and
  no power was lost: the transaction's flags say which of its own names are bound and to what (`Names`, `Flags`), its
  state and the step of the call say whether the target is the old binary or the new one (`Target`), the step says
  what the transaction must be like to be there (`Place`), and the states of the transaction in which a call may
  answer bound the directories that the disk may hold (`Disk`). From these follows what the property says of the
  answers; what a call examines in the directory is not needed for that, only for the runs in which somebody does meddle.
  For those `RivalSound` bounds where another program's file can be, and every step but two keeps its last
  name (`Spares`). One lemma for each group of steps (preparing, committing, rolling back, ending).
  Last, `NoWayOut` (`WedgedForGood`): each step from a state of the second finding that is not
  somebody else's leads to another one. A transaction in recovery is only examined, rolled back or closed (`RetriesOnly`), and
  none of these finds a name of the old binary to restore, since the backup is gone or the target still is that binary.
- **`RuntimeServiceProofs`**: `Invariance`, `ConnectionsAreSound` (`ConnectionsSound`),
  `AcknowledgedIsDraining` (`AckMeansDraining`), `Refinement` (implements `Generation`), for any number
  of slots and clients. `IInv` has five parts. *Books*: the place of a worker says which of its flags may be
  set and in what state its session is (`Station`); the counters of the service and the clients of the coordinator
  are those of the flags (`Counted`); no two workers have one client (`Distinct`), a live session has its worker
  (`Kept`), and the sessions that are about to be admitted fit the bound (`Budgeted`). *Peer*: the request a
  client waits for is in its connection, at work in the thread, or answered, and in one of these only; so a request
  that arrives finds the slot reusable, and "busy" is never said. *Silence*: a worker whose stop was
  accepted is alone, and once it has interrupted the others no connection but its own is up. *Ends*: the service
  exits with nobody active, and its coordinator stops with nobody in it. Sixteen handlers only move a worker on
  and may say one word; they are reduced to that (`MoveEffect`, `Hop`) and treated as one. That the last one
  to leave ends the generation follows from `Counted`: the counter is 1 exactly if the worker's client is the only member.

- **`WatcherProofs`**: `Invariance`, `WatchesAreSound` (`WatchesSound`), `OwnIndexesAreCommitted`
  (`OwnIndexIsCommitted`), for any number of projects, sessions, states and events. `IInv` adds to the property
  what the place of the poll thread says of its registers (`PollShape`), who has a project's mutation
  and which jobs can be at work meanwhile (`LeaseShape`, `JobShape`), and three arguments. A state is freed between
  polls only, when the thread has none at hand, and a new watch takes a free one. A prune keeps the mutation from
  its last look at the root until it has told the application, so no job past its wait can rewrite the database: a
  session that looks for the database finds none, and one that had found it before joins the
  logical watch that is still there (`PruneShape`). What was seen is no newer than what any job reads that begins to
  read after the check (`SeenShape`), and a baseline that was committed after such a job no newer than the database or
  what is written to it next (`OwnShape`). Steps are of a few kinds, each a lemma: the thread
  looks, time passes, a job or a deletion of one project moves, a watch is cut, a session registers one.

Model-checked only, because the prover cannot: liveness (`StoppingDrains`,
`WaitsEnd`, `EveryCallEnds`, `RequestsEnd`, `PartingEnds`, `OperationsEnd`,
`ChangesAreIndexed`, `GoneIsPruned`, `EveryoneIsReleased`,
`CloseSucceedsOrWedged`, `EveryoneEnds`) and what depends on ENABLED. Of two of them what is not liveness is proved:
that nobody sleeps through his turn (`WakeupsKept`), which `WaitsEnd` needs, and that a drained daemon stays so
(`ShutdownIsFinal`), the second half of `PartingEnds`. No module declares a recursive operator.

## 6. The plan

All planned modules are written. Next would be permanent daemons and the claims of
older builds in `DaemonGeneration`, and heartbeats in `RuntimeService`.

## 7. What is not modelled

The pipeline, the store, queries, extractors and the UI compute with data whose
content is the point; they run alone on a project and have no interleaving of
their own beyond SQLite's transactions. The command line edits text files.
`subprocess.c`, and of `ipc.c` what is not in `DaemonGeneration`, are mostly system calls;
what their callers may see of them is modelled where it is used. Vendored and generated code is left aside.

Behaviours of modelled code that no property speaks of:

- Readers of several processes can be starved by writers that share `turn`, and a
  mutation of "*" by a stream of single mutations: the code promises neither.
- Retries with the same period can run in phase (`version_cohort.c:85`); the
  jitter makes this improbable, and fairness in the models excludes it.
- A worker's tree may outlive its supervision (`index_supervisor.h:177`): the job is published all
  the same. In `IndexJobs` the tree is gone then. In the code a
  worker that is left holds the native project lock, and other writers of the project
  wait for that lock.
- `cbm_watcher_touch` has no caller.
- In `Activation`, a rollback that puts the target back but cannot sync it
  answers ROLLBACK_FAILED, which is stricter than needed; between an examination and
  its own system call there is no window in the model; the command line gives up
  at the first failing close.

Where code and comments differ:

- `application.c:2036` attaches a session that starts to watch to the job that the watcher already
  waits for, since otherwise "closing the pre-existing owners can cancel the physical
  worker while this late session still expects the shared watch to remain live". It does so for a
  watch that is there. When all sessions that watched have left while a UI request kept the
  job, the watch entry is gone; a new session creates it again (`application.c:484`)
  and is not attached. The job is not cancelled before the UI's request has its answer, so nothing follows from it here, but
  the owners are not those that watch. `WatchersOwn` is therefore stated for steps that start
  with somebody watching; as an invariant it is false as soon as the UI takes part.

Where code and comments differ and `DaemonGeneration` shows what follows:

- `version_cohort.h:120` says that `COORDINATED` means that "a current daemon still
  holds its generation claim". The observer takes the marker exclusively to see
  whether it is free (`version_cohort.c:777`), so of two observers the second is
  told so when no daemon exists. A bootstrap that watches its child may then give up
  startup-v2 before the child is there, and another client launches a second daemon, although
  `bootstrap.c:458` speaks of two replacements that are never launched. The second
  finds the claim taken and goes: no harm, and `RefusedOnlyIfDisturbed` says
  that this is one of the few ways.
- `version_cohort.h:108` says that a claim is taken "after taking the stable daemon
  lifetime reservation"; `host.c` takes the claim first (973) and the lifetime lock after it
  (991). A local command that cleans up in between and the daemon refuse
  each other, the one as if it had met a foreign daemon. No other process is needed for this, which is why
  `Refused` leaves the pair out.
- The bootstrap loop does not look at maintenance: it may keep its lease for its 30
  seconds while an activation waits 15 (`cli.c:77`), which then fails and can be repeated.
- A name that a dead daemon left makes a drained activation refuse
  (`Probe`). It is the safe side; the next client or local command cleans up.
- A permanent daemon (left out) that got its lease before the barrier and serves
  only after the second request is not asked again.

## 8. Running it

    tlc -config MCIndexJobsEnds.cfg MCIndexJobs     # one run
    tlapm IndexJobsProofs.tla                       # one module of proofs

No run takes more than about three minutes with two workers; the proofs take a
few minutes each.
