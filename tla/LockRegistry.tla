---------------------------- MODULE LockRegistry ----------------------------
(***************************************************************************)
(* foundation/lock_registry.c: a reader-writer lock per key, shared by     *)
(* processes through two native file locks, `turn` and `rw`, and queued    *)
(* first-in first-out inside each process.                                 *)
(*                                                                         *)
(* A caller is a thread making one acquisition at a time; its lease, its   *)
(* waiter and its native handles are the functions below.  Every critical  *)
(* section of the registry's mutex is one action, and so is every native   *)
(* lock operation, which the code runs outside the mutex.                  *)
(*                                                                         *)
(* A native release has three outcomes in private_file_lock.c: the handle  *)
(* is gone ("none"), it is unlocked but its descriptor is still open       *)
(* ("shut"), or nothing happened and the lock is still held.               *)
(***************************************************************************)
EXTENDS Integers, Sequences, FiniteSets

CONSTANTS
    Proc,        \* processes, one registry each
    Caller,      \* threads
    Home,        \* the process of each thread
    Key,         \* resource keys
    None,        \* no waiter is attempting
    Budgets      \* bound: the largest <<acquisitions, failures, crashes, stops>>

ASSUME HomeAssumption == Home \in [Caller -> Proc]
ASSUME NoneAssumption == None \notin Caller
ASSUME CallerAssumption == IsFiniteSet(Caller)
ASSUME KeyAssumption == Key # {}
ASSUME BudgetAssumption == Budgets \subseteq Nat \X Nat \X Nat \X Nat

VARIABLES
    phase,     \* where each caller is in acquire or release
    call,      \* its arguments: key, mode and whether it may wait
    turn, rw,  \* its native handles
    active,    \* lease->active
    asleep,    \* callers parked on the registry's condition
    stop,      \* callers whose deadline passed or whose token is set
    cancelling,\* callers whose token is set but not yet broadcast
    queue,     \* waiter list per process and key
    attempt,   \* attempt_waiter per process and key
    readers, writer,           \* the entry's active holders
    waiters, leases, pending,  \* the registry's three counters
    closed,    \* processes whose registry is freed
    calls, faults, crashes, stops  \* events so far, kept within a budget

registry == <<queue, attempt, readers, writer, waiters, leases, pending>>
budget == <<calls, faults, crashes, stops>>
vars == <<phase, call, turn, rw, active, asleep, stop, cancelling, registry, closed, budget>>

Entry == Proc \X Key
Mode == {"SH", "EX"}
Handle == {"none", "SH", "EX", "shut"}
Waiting == {"queued", "turn", "rw", "drop", "ready"}
Phase == Waiting \cup {"idle", "abort", "held", "release", "unlockRw", "unlockTurn",
                       "settle", "cleanup"}
Blank == [key |-> CHOOSE k \in Key : TRUE, mode |-> "SH", tryOnce |-> FALSE]

TypeOK ==
    /\ phase \in [Caller -> Phase]
    /\ call \in [Caller -> [key : Key, mode : Mode, tryOnce : BOOLEAN]]
    /\ turn \in [Caller -> Handle]
    /\ rw \in [Caller -> Handle]
    /\ active \in [Caller -> BOOLEAN]
    /\ asleep \subseteq Caller /\ stop \subseteq Caller /\ cancelling \subseteq Caller
    /\ queue \in [Entry -> Seq(Caller)]
    /\ attempt \in [Entry -> Caller \cup {None}]
    /\ readers \in [Entry -> Nat]
    /\ writer \in [Entry -> BOOLEAN]
    /\ waiters \in [Proc -> Nat] /\ leases \in [Proc -> Nat] /\ pending \in [Proc -> Nat]
    /\ closed \subseteq Proc
    /\ calls \in Nat /\ faults \in Nat /\ crashes \in Nat /\ stops \in Nat

Init ==
    /\ phase = [c \in Caller |-> "idle"]
    /\ call = [c \in Caller |-> Blank]
    /\ turn = [c \in Caller |-> "none"]
    /\ rw = [c \in Caller |-> "none"]
    /\ active = [c \in Caller |-> FALSE]
    /\ asleep = {} /\ stop = {} /\ cancelling = {}
    /\ queue = [e \in Entry |-> <<>>]
    /\ attempt = [e \in Entry |-> None]
    /\ readers = [e \in Entry |-> 0]
    /\ writer = [e \in Entry |-> FALSE]
    /\ waiters = [p \in Proc |-> 0]
    /\ leases = [p \in Proc |-> 0]
    /\ pending = [p \in Proc |-> 0]
    /\ closed = {}
    /\ calls = 0 /\ faults = 0 /\ crashes = 0 /\ stops = 0

-----------------------------------------------------------------------------
(* Helpers. *)

At(c) == <<Home[c], call[c].key>>
Peers(p) == {c \in Caller : Home[c] = p}
Goto(c, q) == phase' = [phase EXCEPT ![c] = q]
Locked(h) == h \in Mode

\* The kernel grants a lock unless another open handle conflicts with it.
Grantable(native, c, m) ==
    \A d \in Caller \ {c} :
        Locked(native[d]) /\ call[d].key = call[c].key => m = "SH" /\ native[d] = "SH"

\* Readers hold `turn` exclusively and briefly; writers share it and keep it.
TurnMode(c) == IF call[c].mode = "SH" THEN "EX" ELSE "SH"
\* Mutant: rw is always taken shared.
RwModeShared(c) == "SH"
RwMode(c) == call[c].mode

\* Mutant: nobody is woken.
BroadcastLost(p) == asleep' = asleep
\* lock_registry_broadcast_locked wakes every sleeper of the process.
Broadcast(p) == asleep' = asleep \ Peers(p)

Queued(c) == \E i \in DOMAIN queue[At(c)] : queue[At(c)][i] = c
AtHead(c) == queue[At(c)] # <<>> /\ Head(queue[At(c)]) = c

\* The waiter list without c, which is on it.
Unlinked(c) ==
    LET line == queue[At(c)]
        n == CHOOSE i \in DOMAIN line : line[i] = c
    IN [i \in 1..(Len(line) - 1) |-> line[IF i < n THEN i ELSE i + 1]]

\* lock_registry_waiter_remove, which broadcasts.
Dequeue(c) ==
    /\ Queued(c)
    /\ queue' = [queue EXCEPT ![At(c)] = Unlinked(c)]
    /\ waiters' = [waiters EXCEPT ![Home[c]] = @ - 1]
    /\ Broadcast(Home[c])

\* The attempt slot is cleared only by the waiter that owns it.
Unclaim(c) ==
    attempt' = [attempt EXCEPT ![At(c)] = IF @ = c THEN None ELSE @]
\* The call is over and the lease is freed.
Idle(c) ==
    /\ Goto(c, "idle")
    /\ call' = [call EXCEPT ![c] = Blank]
    /\ stop' = stop \ {c}

\* So many acquisitions, failures, crashes and stops fit one of the budgets.
InBudget(n, f, k, e) == \E b \in Budgets : n <= b[1] /\ f <= b[2] /\ k <= b[3] /\ e <= b[4]

Fault == InBudget(calls, faults + 1, crashes, stops) /\ faults' = faults + 1

HasNative(c) == turn[c] # "none" \/ rw[c] # "none"

-----------------------------------------------------------------------------
(* lock_registry_acquire_internal: queue up, wait to be the attempt. *)

Acquire(c, k, m, t) ==
    /\ phase[c] = "idle" /\ Home[c] \notin closed
    /\ InBudget(calls + 1, faults, crashes, stops) /\ calls' = calls + 1
    /\ call' = [call EXCEPT ![c] = [key |-> k, mode |-> m, tryOnce |-> t]]
    /\ Goto(c, "queued")
    /\ queue' = [queue EXCEPT ![<<Home[c], k>>] = Append(@, c)]
    /\ waiters' = [waiters EXCEPT ![Home[c]] = @ + 1]
    /\ UNCHANGED <<turn, rw, active, asleep, stop, cancelling, attempt, readers, writer,
                   leases, pending, closed, faults, crashes, stops>>

\* should_stop is read before the mutex is taken, so a waiter may still start
\* its attempt after the deadline; it may also see it and leave.
CanAttempt(c) == AtHead(c) /\ attempt[At(c)] = None

StartAttempt(c) ==
    /\ phase[c] = "queued" /\ c \notin asleep
    /\ CanAttempt(c)
    /\ attempt' = [attempt EXCEPT ![At(c)] = c]
    /\ Goto(c, "turn")
    /\ UNCHANGED <<call, turn, rw, active, asleep, stop, cancelling, queue, readers, writer,
                   waiters, leases, pending, closed, budget>>

LeaveQueue(c) ==
    /\ phase[c] = "queued" /\ c \notin asleep
    /\ IF call[c].tryOnce THEN ~CanAttempt(c) ELSE c \in stop
    /\ Dequeue(c)
    /\ Idle(c)
    /\ UNCHANGED <<turn, rw, active, cancelling, attempt, readers, writer, leases, pending,
                   closed, budget>>

\* The token is read again under the mutex; a passed deadline ends the wait.
SleepInQueue(c) ==
    /\ phase[c] = "queued" /\ c \notin asleep /\ ~CanAttempt(c)
    /\ ~call[c].tryOnce /\ c \notin stop
    /\ asleep' = asleep \cup {c}
    /\ UNCHANGED <<phase, call, turn, rw, active, stop, cancelling, registry, closed, budget>>

\* The condition wait itself fails: the waiter stays queued in a cleanup-only
\* lease the caller has to release.
WaitFails(c) ==
    /\ phase[c] = "queued" /\ c \in asleep
    /\ Fault
    /\ asleep' = asleep \ {c}
    /\ Goto(c, "cleanup")
    /\ UNCHANGED <<call, turn, rw, active, stop, cancelling, registry, closed, calls, crashes, stops>>

-----------------------------------------------------------------------------
(* lock_registry_attempt_native: take turn, take rw, then join the entry.   *)
(* A busy native lock parks the attempt for one millisecond and retries.    *)

TakeTurn(c) ==
    /\ phase[c] = "turn"
    /\ Grantable(turn, c, TurnMode(c))
    /\ turn' = [turn EXCEPT ![c] = TurnMode(c)]
    /\ Goto(c, "rw")
    /\ UNCHANGED <<call, rw, active, asleep, stop, cancelling, registry, closed, budget>>

TakeRw(c) ==
    /\ phase[c] = "rw"
    /\ Grantable(rw, c, RwMode(c))
    /\ rw' = [rw EXCEPT ![c] = RwMode(c)]
    /\ Goto(c, IF call[c].mode = "SH" THEN "drop" ELSE "ready")
    /\ UNCHANGED <<call, turn, active, asleep, stop, cancelling, registry, closed, budget>>

\* A try that finds the lock busy, or a waiter told to stop, backs out.
GiveUp(c) ==
    /\ phase[c] \in {"turn", "rw"}
    /\ IF call[c].tryOnce
       THEN IF phase[c] = "turn" THEN ~Grantable(turn, c, TurnMode(c))
                                 ELSE ~Grantable(rw, c, RwMode(c))
       ELSE c \in stop
    /\ Goto(c, "abort")
    /\ UNCHANGED <<call, turn, rw, active, asleep, stop, cancelling, registry, closed, budget>>

\* private_file_lock_try_acquire fails, with no handle or with one whose own
\* cleanup failed after the lock was granted.
AcquireFails(c) ==
    /\ Fault
    /\ \/ /\ phase[c] = "turn"
          /\ \E h \in {"none", "shut"} \cup
                      (IF Grantable(turn, c, TurnMode(c)) THEN {TurnMode(c)} ELSE {}) :
                turn' = [turn EXCEPT ![c] = h]
          /\ rw' = rw
       \/ /\ phase[c] = "rw"
          /\ \E h \in {"none", "shut"} \cup
                      (IF Grantable(rw, c, RwMode(c)) THEN {RwMode(c)} ELSE {}) :
                rw' = [rw EXCEPT ![c] = h]
          /\ turn' = turn
    /\ Goto(c, "abort")
    /\ UNCHANGED <<call, active, asleep, stop, cancelling, registry, closed, calls, crashes, stops>>

DropTurn(c) ==
    /\ phase[c] = "drop"
    /\ \/ turn' = [turn EXCEPT ![c] = "none"] /\ Goto(c, "ready") /\ faults' = faults
       \/ /\ Fault /\ Goto(c, "abort")
          /\ \E h \in {turn[c], "shut", "none"} : turn' = [turn EXCEPT ![c] = h]
    /\ UNCHANGED <<call, rw, active, asleep, stop, cancelling, registry, closed, calls, crashes, stops>>

\* Mutant: only the native locks are asked.
LocalStateReadyNative(c) == TRUE
\* The natives are held; the entry may still list holders whose natives are
\* released and whose bookkeeping is not done yet.
OwnsAttempt(c) == attempt[At(c)] = c /\ AtHead(c)
LocalStateReady(c) ==
    /\ ~writer[At(c)]
    /\ call[c].mode = "EX" => readers[At(c)] = 0

Activate(c) ==
    /\ phase[c] = "ready" /\ c \notin asleep
    /\ OwnsAttempt(c) /\ LocalStateReady(c)
    /\ Dequeue(c)
    /\ attempt' = [attempt EXCEPT ![At(c)] = None]
    /\ IF call[c].mode = "SH"
       THEN readers' = [readers EXCEPT ![At(c)] = @ + 1] /\ writer' = writer
       ELSE writer' = [writer EXCEPT ![At(c)] = TRUE] /\ readers' = readers
    /\ leases' = [leases EXCEPT ![Home[c]] = @ + 1]
    /\ active' = [active EXCEPT ![c] = TRUE]
    /\ Goto(c, "held")
    /\ stop' = stop \ {c}
    /\ UNCHANGED <<call, turn, rw, cancelling, pending, closed, budget>>

SleepReady(c) ==
    /\ phase[c] = "ready" /\ c \notin asleep
    /\ OwnsAttempt(c) /\ ~LocalStateReady(c)
    /\ ~call[c].tryOnce /\ c \notin stop
    /\ asleep' = asleep \cup {c}
    /\ UNCHANGED <<phase, call, turn, rw, active, stop, cancelling, registry, closed, budget>>

\* Stopped, or a try that would have to wait, or the attempt was lost.
BackOut(c) ==
    /\ phase[c] = "ready" /\ c \notin asleep
    /\ IF call[c].tryOnce THEN ~(OwnsAttempt(c) /\ LocalStateReady(c))
                          ELSE ~(c \notin stop /\ OwnsAttempt(c))
    /\ Goto(c, "abort")
    /\ UNCHANGED <<call, turn, rw, active, asleep, stop, cancelling, registry, closed, budget>>

ReadyWaitFails(c) ==
    /\ phase[c] = "ready" /\ c \in asleep
    /\ Fault
    /\ asleep' = asleep \ {c}
    /\ Goto(c, "abort")
    /\ UNCHANGED <<call, turn, rw, active, stop, cancelling, registry, closed, calls, crashes, stops>>

-----------------------------------------------------------------------------
(* Giving up and giving back. *)

\* Mutant: they are not counted.
PendingUpNever(c) == pending' = pending
\* Native handles left behind are counted until they are released.
PendingUp(c) ==
    pending' = IF HasNative(c) THEN [pending EXCEPT ![Home[c]] = @ + 1] ELSE pending

\* lock_registry_abort_attempt; releasing what is held follows at once.
Abort(c) ==
    /\ phase[c] = "abort"
    /\ Dequeue(c)
    /\ Unclaim(c)
    /\ PendingUp(c)
    /\ IF HasNative(c) THEN Goto(c, "unlockRw") /\ UNCHANGED <<call, stop>> ELSE Idle(c)
    /\ UNCHANGED <<turn, rw, active, cancelling, readers, writer, leases, closed, budget>>

\* cbm_lock_lease_release on an active lease, the first time or again.
Release(c) ==
    /\ phase[c] \in {"held", "release"}
    /\ Goto(c, "unlockRw")
    /\ UNCHANGED <<call, turn, rw, active, asleep, stop, cancelling, registry, closed, budget>>

\* cbm_lock_lease_release on a cleanup-only lease: detach the waiter first.
ReleaseCleanup(c) ==
    /\ phase[c] = "cleanup"
    /\ IF Queued(c)
       THEN /\ Dequeue(c) /\ Unclaim(c) /\ PendingUp(c)
            /\ IF HasNative(c) THEN Goto(c, "unlockRw") /\ UNCHANGED <<call, stop>>
                               ELSE Idle(c)
       ELSE /\ Goto(c, "unlockRw")
            /\ UNCHANGED <<call, stop, queue, waiters, asleep, attempt, pending>>
    /\ UNCHANGED <<turn, rw, active, cancelling, readers, writer, leases, closed, budget>>

\* private_file_lock_release: unlock, then close; each may fail.
Released(native, c) ==
    \/ native' = [native EXCEPT ![c] = "none"] /\ faults' = faults
    \/ /\ native[c] # "none"
       /\ Fault
       /\ \E h \in {native[c], "shut"} : native' = [native EXCEPT ![c] = h]

\* rw goes before turn; while rw is still locked turn is not touched.
StopsAtRw(c) == Locked(rw'[c])

UnlockRw(c) ==
    /\ phase[c] = "unlockRw"
    /\ Released(rw, c)
    /\ Goto(c, IF ~StopsAtRw(c) THEN "unlockTurn"
               ELSE IF active[c] THEN "release" ELSE "cleanup")
    /\ UNCHANGED <<call, turn, active, asleep, stop, cancelling, registry, closed, calls, crashes, stops>>

UnlockTurn(c) ==
    /\ phase[c] = "unlockTurn"
    /\ Released(turn, c)
    /\ Goto(c, "settle")
    /\ UNCHANGED <<call, rw, active, asleep, stop, cancelling, registry, closed, calls, crashes, stops>>

\* Bookkeeping of an active lease, whose leftover handles become a cleanup.
Discharge(c) ==
    /\ phase[c] = "settle" /\ active[c]
    /\ IF call[c].mode = "SH"
       THEN readers' = [readers EXCEPT ![At(c)] = @ - 1] /\ writer' = writer
       ELSE writer' = [writer EXCEPT ![At(c)] = FALSE] /\ readers' = readers
    /\ leases' = [leases EXCEPT ![Home[c]] = @ - 1]
    /\ active' = [active EXCEPT ![c] = FALSE]
    /\ PendingUp(c)
    /\ Broadcast(Home[c])
    /\ IF HasNative(c) THEN Goto(c, "cleanup") /\ UNCHANGED <<call, stop>> ELSE Idle(c)
    /\ UNCHANGED <<turn, rw, cancelling, queue, attempt, waiters, closed, budget>>

\* Bookkeeping of a cleanup-only lease, once both handles are gone.
CleanupSettled(c) ==
    /\ phase[c] = "settle" /\ ~active[c]
    /\ IF HasNative(c)
       THEN Goto(c, "cleanup") /\ UNCHANGED <<call, stop, pending, asleep>>
       ELSE /\ pending' = [pending EXCEPT ![Home[c]] = @ - 1]
            /\ Broadcast(Home[c])
            /\ Idle(c)
    /\ UNCHANGED <<turn, rw, active, cancelling, queue, attempt, readers, writer, waiters,
                   leases, closed, budget>>

-----------------------------------------------------------------------------
(* Deadlines, cancellation, the registry's end, and crashes. *)

\* One more wait has to end.
Stopped(c) ==
    /\ InBudget(calls, faults, crashes, stops + 1) /\ stops' = stops + 1
    /\ stop' = stop \cup {c}

\* The condition wait returns by itself when the deadline passes.
DeadlinePasses(c) ==
    /\ phase[c] \in Waiting /\ ~call[c].tryOnce /\ c \notin stop
    /\ Stopped(c)
    /\ asleep' = asleep \ {c}
    /\ UNCHANGED <<phase, call, turn, rw, active, cancelling, registry, closed, calls, faults, crashes>>

\* cbm_lock_registry_request_cancel stores the token first ...
RequestCancel(c) ==
    /\ phase[c] \in Waiting /\ ~call[c].tryOnce /\ c \notin stop
    /\ Stopped(c)
    /\ cancelling' = cancelling \cup {c}
    /\ UNCHANGED <<phase, call, turn, rw, active, asleep, registry, closed, calls, faults, crashes>>

\* ... and then, under the mutex, wakes every waiter.
CancelBroadcast(c) ==
    /\ c \in cancelling
    /\ cancelling' = cancelling \ {c}
    /\ IF Home[c] \in closed THEN asleep' = asleep ELSE Broadcast(Home[c])
    /\ UNCHANGED <<phase, call, turn, rw, active, stop, registry, closed, budget>>

\* cbm_lock_registry_free refuses with BUSY unless nothing is outstanding.
RegistryIdle(p) ==
    /\ waiters[p] = 0 /\ leases[p] = 0 /\ pending[p] = 0
    /\ \A k \in Key : /\ queue[<<p, k>>] = <<>> /\ attempt[<<p, k>>] = None
                      /\ readers[<<p, k>>] = 0 /\ ~writer[<<p, k>>]

RegistryFree(p) ==
    /\ p \notin closed /\ RegistryIdle(p)
    /\ closed' = closed \cup {p}
    /\ UNCHANGED <<phase, call, turn, rw, active, asleep, stop, cancelling, registry, budget>>

RegistryNew(p) ==
    /\ p \in closed
    /\ closed' = closed \ {p}
    /\ UNCHANGED <<phase, call, turn, rw, active, asleep, stop, cancelling, registry, budget>>

\* The kernel closes every handle of a process that dies; it starts afresh.
Crash(p) ==
    /\ InBudget(calls, faults, crashes + 1, stops) /\ crashes' = crashes + 1
    /\ LET Reset(f, v) == [c \in Caller |-> IF Home[c] = p THEN v ELSE f[c]]
           Zero(f) == [f EXCEPT ![p] = 0]
           Empty(f, v) == [e \in Entry |-> IF e[1] = p THEN v ELSE f[e]]
       IN /\ phase' = Reset(phase, "idle") /\ call' = Reset(call, Blank)
          /\ turn' = Reset(turn, "none") /\ rw' = Reset(rw, "none")
          /\ active' = Reset(active, FALSE)
          /\ queue' = Empty(queue, <<>>) /\ attempt' = Empty(attempt, None)
          /\ readers' = Empty(readers, 0) /\ writer' = Empty(writer, FALSE)
          /\ waiters' = Zero(waiters) /\ leases' = Zero(leases) /\ pending' = Zero(pending)
    /\ asleep' = asleep \ Peers(p) /\ stop' = stop \ Peers(p)
    /\ cancelling' = cancelling \ Peers(p) /\ closed' = closed \ {p}
    /\ UNCHANGED <<calls, faults, stops>>

-----------------------------------------------------------------------------
(* Specification. *)

\* What a thread inside the registry does without anybody else's help.
Step(c) ==
    \/ StartAttempt(c) \/ LeaveQueue(c) \/ SleepInQueue(c)
    \/ TakeTurn(c) \/ TakeRw(c) \/ GiveUp(c) \/ DropTurn(c)
    \/ Activate(c) \/ SleepReady(c) \/ BackOut(c)
    \/ Abort(c) \/ ReleaseCleanup(c)
    \/ UnlockRw(c) \/ UnlockTurn(c) \/ Discharge(c) \/ CleanupSettled(c)

Failure(c) == WaitFails(c) \/ AcquireFails(c) \/ ReadyWaitFails(c)

Next ==
    \/ \E c \in Caller, k \in Key, m \in Mode, t \in BOOLEAN : Acquire(c, k, m, t)
    \/ \E c \in Caller : Step(c)
    \/ \E c \in Caller : Failure(c)
    \/ \E c \in Caller : Release(c)
    \/ \E c \in Caller : DeadlinePasses(c)
    \/ \E c \in Caller : RequestCancel(c)
    \/ \E c \in Caller : CancelBroadcast(c)
    \/ \E p \in Proc : RegistryFree(p)
    \/ \E p \in Proc : RegistryNew(p)
    \/ \E p \in Proc : Crash(p)

Spec == Init /\ [][Next]_vars

\* Threads are scheduled, and a thread that stores a token also broadcasts.
FairSpec ==
    /\ Spec
    /\ \A c \in Caller : WF_vars(Step(c)) /\ WF_vars(CancelBroadcast(c))

\* Whoever holds a lease releases it in the end: the code above the registry
\* does, but the registry cannot make it.
HoldersRelease == \A c \in Caller : WF_vars(Release(c))

-----------------------------------------------------------------------------
(* Properties. *)

\* The leases in force, over all processes and keys.
Grants == {<<c, call[c].key, call[c].mode>> : c \in {d \in Caller : phase[d] = "held"}}

\* Mutual exclusion between processes as well as inside one: a writer's lease
\* is the only one on its key (release order in lock_registry_release_native,
\* native modes in lock_registry_attempt_native).
WriterAlone ==
    \A c, d \in Caller :
        /\ c # d /\ phase[c] = "held" /\ phase[d] = "held"
        /\ call[c].key = call[d].key
        => call[c].mode = "SH" /\ call[d].mode = "SH"

\* The entry's bookkeeping, which lags behind the native locks on release,
\* never lists a writer together with anybody else, so that its boolean and its
\* counter can describe it.
BookkeepingExclusive ==
    \A c, d \in Caller :
        c # d /\ active[c] /\ active[d] /\ At(c) = At(d)
        => call[c].mode = "SH" /\ call[d].mode = "SH"

\* The counters that gate cbm_lock_registry_free and local admission agree with
\* the leases and waiters that exist, through every failure path.
Pending(c) == ~active[c] /\ ~Queued(c) /\ phase[c] \in {"unlockRw", "unlockTurn", "settle", "cleanup"}
Tally(S) == Cardinality(S)
CountersMatch ==
    /\ \A p \in Proc :
        /\ leases[p] = Tally({c \in Peers(p) : active[c]})
        /\ waiters[p] = Tally({c \in Peers(p) : phase[c] # "idle" /\ Queued(c)})
        /\ pending[p] = Tally({c \in Peers(p) : Pending(c)})
    /\ \A e \in Entry :
        /\ readers[e] = Tally({c \in Caller : At(c) = e /\ active[c] /\ call[c].mode = "SH"})
        /\ writer[e] <=> \E c \in Caller : At(c) = e /\ active[c] /\ call[c].mode = "EX"

\* A native handle is never lost: whoever is outside the registry holds none,
\* a reader's lease holds rw alone, a writer's holds rw and turn.
NativeOwned ==
    \A c \in Caller :
        /\ phase[c] \in {"idle", "queued"} => rw[c] = "none" /\ turn[c] = "none"
        /\ phase[c] = "held" /\ call[c].mode = "SH" => rw[c] = "SH" /\ turn[c] = "none"
        /\ phase[c] = "held" /\ call[c].mode = "EX" => rw[c] = "EX" /\ turn[c] = "SH"

\* No wake-up is lost: who sleeps has nothing to wake up for, or the thread that
\* stored its token has yet to broadcast, and the head of a line sleeps only for a
\* lease that its own process still lists.
NoLostWakeup ==
    /\ \A c \in asleep :
        /\ c \in stop => c \in cancelling
        /\ \/ phase[c] = "queued" /\ ~CanAttempt(c)
           \/ phase[c] = "ready" /\ OwnsAttempt(c) /\ ~LocalStateReady(c)
    /\ \A e \in Entry : queue[e] # <<>> /\ Head(queue[e]) \in asleep =>
          \E c \in Caller : active[c] /\ At(c) = e

\* What a lease stands for: exclusion, the handles it owns and its place in the
\* entry's books agree on every path, the failing ones included, and nobody sleeps
\* through his turn.
LeasesSound ==
    WriterAlone /\ BookkeepingExclusive /\ CountersMatch /\ NativeOwned /\ NoLostWakeup

\* A passed deadline or a cancelled token ends every wait, even if the holder of
\* the lock never releases it.
StopIsHeard == \A c \in Caller : c \in stop ~> phase[c] \notin Waiting

\* No lost wake-up and no deadlock between the two native locks: once holders
\* release, every acquisition gets its lease or returns, and is released.
EveryCallEnds ==
    HoldersRelease => \A c \in Caller : phase[c] # "idle" ~> phase[c] = "idle"

\* Every wait comes to an end: at once when stopped, and in time otherwise.
WaitsEnd == StopIsHeard /\ EveryCallEnds

\* The registry is the reader-writer lock its header describes.
Lock == INSTANCE ReadWriteLock WITH grants <- Grants
ImplementsReadWriteLock == Lock!Spec
=============================================================================
