-------------------------- MODULE DaemonGeneration --------------------------
(***************************************************************************)
(* How one daemon at a time comes to serve an account: processes that      *)
(* want a daemon and start it (daemon/bootstrap.c), the daemon's own way   *)
(* up and down (daemon/host.c), commands that work locally beside it       *)
(* (main.c), and an activation that wants everybody gone (cli/cli.c).      *)
(* They meet in lock files, in the lease of the cohort and at the daemon's *)
(* socket (daemon/ipc.c), all of which the kernel takes from the dead,     *)
(* except the names of the socket.                                         *)
(*                                                                         *)
(* An action is one system call on what is shared.  All processes run one  *)
(* build, so the cohort is its members and the barrier that VersionCohort  *)
(* shows its locks to be.  Left out: the claims on the file of builds that *)
(* predate the cohort, which modern processes only share; the records by   *)
(* which a cleanup tells the names of one listener from another's; system  *)
(* calls that fail, except a fork; permanent daemons; Windows.             *)
(***************************************************************************)
EXTENDS Integers, FiniteSets

CONSTANTS
    Clients,        \* sessions: cbm_daemon_bootstrap_execute and then the frontend
    Daemons,        \* processes in cbm_daemon_host_run
    Locals,         \* local commands and index workers
    Activations,    \* install, update, uninstall
    NoOne, Stale, Remnant,
    Casts           \* bound: who takes part in a behaviour, and how many die

Process == Clients \cup Daemons \cup Locals \cup Activations

ASSUME RolesAssumption ==
    /\ Clients \cap (Daemons \cup Locals \cup Activations) = {}
    /\ Daemons \cap (Locals \cup Activations) = {}
    /\ Locals \cap Activations = {}
    /\ {NoOne, Stale, Remnant} \cap Process = {}
    /\ NoOne # Stale /\ NoOne # Remnant /\ Stale # Remnant
ASSUME CastsAssumption == Casts \subseteq [who : SUBSET Process, deaths : Nat]

VARIABLES
    phase,      \* where each process is
    held,       \* holder of barrier, startup-v2, claim and lifetime
    cohort,     \* participants: processes with a version cohort lease
    socket,     \* whose listener the socket's name leads to; Stale: a dead one's;
                \* Remnant: no stable name, only an anchor beside it
    stage,      \* a client's loop: "open", "locked" or "watching" its child
    heard,      \* what a client's connection attempt got, "nothing" before it
    on,         \* the daemon a client is connected to
    cast,       \* bound: one of Casts, less the deaths so far
    disturbed   \* history: an observer met another one, a parent gave up its child, or one died

generationVars == <<phase, held, cohort, socket, stage, heard, on, cast, disturbed>>

Locks == {"barrier", "startup", "claim", "lifetime"}

\* A daemon that is on its way to the lifetime lock.
Starting == {"launched", "claiming", "claimed"}
\* A daemon that has it.
Owning == {"reserved", "bound", "serving", "stopping", "closing"}
ClientPhases == {"idle", "entering", "look", "looked", "lifetime", "connect", "pause", "tryLock",
                 "prepare", "clean", "cleaned", "spawn", "yield", "unwind", "session", "done"}
DaemonPhases == {"none"} \cup Starting \cup Owning \cup {"retiring", "parting"}
LocalPhases == {"idle", "tryLock", "seal", "prepare", "clean", "cleaned", "presence", "weigh",
                "absent", "foreign", "begin", "working", "unwind", "done"}
ActivationPhases == {"idle", "close", "first", "quiesce", "drain", "startup", "probe",
                     "mutating", "unlock", "open", "done"}

GenerationTypeOK ==
    /\ phase \in [Process -> ClientPhases \cup DaemonPhases \cup LocalPhases \cup ActivationPhases]
    /\ \A c \in Clients : phase[c] \in ClientPhases
    /\ \A d \in Daemons : phase[d] \in DaemonPhases
    /\ \A l \in Locals : phase[l] \in LocalPhases
    /\ \A a \in Activations : phase[a] \in ActivationPhases
    /\ held \in [Locks -> Process \cup {NoOne}]
    /\ cohort \subseteq Process
    /\ socket \in Daemons \cup {NoOne, Stale, Remnant}
    /\ stage \in [Clients -> {"open", "locked", "watching"}]
    /\ heard \in [Clients -> {"nothing", "error", "rejected"}]
    /\ on \in [Clients -> Daemons \cup {NoOne}]
    /\ cast \in [who : SUBSET Process, deaths : Nat]
    /\ disturbed \in BOOLEAN

GenerationInit ==
    /\ phase = [p \in Process |-> IF p \in Daemons THEN "none" ELSE "idle"]
    /\ held = [l \in Locks |-> NoOne]
    /\ cohort = {}
    /\ socket = NoOne
    /\ stage = [c \in Clients |-> "open"]
    /\ heard = [c \in Clients |-> "nothing"]
    /\ on = [c \in Clients |-> NoOne]
    /\ cast \in Casts
    /\ disturbed = FALSE

(* ------------------------------ what they share --------------------------- *)

Go(p, to) == phase' = [phase EXCEPT ![p] = to]
Take(p, l) == held[l] = NoOne /\ held' = [held EXCEPT ![l] = p]
Drop(p, l) == held' = [held EXCEPT ![l] = IF @ = p THEN NoOne ELSE @]

clientVars == <<stage, heard, on>>
history == <<cast, disturbed>>

\* cbm_version_cohort_acquire: admission is open.
Join(p, to) ==
    /\ held["barrier"] = NoOne
    /\ cohort' = cohort \cup {p}
    /\ Go(p, to)
    /\ UNCHANGED <<held, socket, clientVars, history>>

\* ... or it stays closed until the deadline: BUSY.
Shunned(p, to) ==
    /\ held["barrier"] # NoOne
    /\ Go(p, to)
    /\ UNCHANGED <<held, cohort, socket, clientVars, history>>

\* The way out of a bootstrap and of a local command: startup-v2 if it is held,
\* then the lease.  A session keeps the lease that its process took first.
Unwind(p) ==
    /\ phase[p] = "unwind"
    /\ \/ /\ held["startup"] = p
          /\ Drop(p, "startup") /\ UNCHANGED <<phase, cohort>>
       \/ /\ held["startup"] # p /\ p \in Clients /\ on[p] # NoOne
          /\ Go(p, "session") /\ UNCHANGED <<held, cohort>>
       \/ /\ held["startup"] # p /\ ~(p \in Clients /\ on[p] # NoOne)
          /\ cohort' = cohort \ {p} /\ Go(p, "done") /\ held' = held
    /\ stage' = [c \in Clients |-> IF c = p THEN "open" ELSE stage[c]]
    /\ UNCHANGED <<socket, heard, on, history>>

(* ------------------------- cleanup under startup-v2 ----------------------- *)

\* Mutant: the cleanup does not ask for the lifetime lock.
PrepareUnreserved(p) ==
    /\ phase[p] = "prepare"
    /\ Go(p, "clean")
    /\ UNCHANGED <<held, cohort, socket, clientVars, history>>

\* posix_stale_generation_cleanup_locked reserves the lifetime while it works, and
\* refuses if it cannot.
PrepareCleanup(p) ==
    /\ phase[p] = "prepare"
    /\ \/ Take(p, "lifetime") /\ Go(p, "clean")
       \/ held["lifetime"] # NoOne /\ held' = held /\ Go(p, "unwind")
    /\ UNCHANGED <<cohort, socket, clientVars, history>>

\* It unlinks what the records name and never connects: it cannot tell a living
\* listener from a dead one.
Clean(p) ==
    /\ phase[p] = "clean"
    /\ socket' = NoOne
    /\ Go(p, "cleaned")
    /\ UNCHANGED <<held, cohort, clientVars, history>>

Cleaned(p) ==
    /\ phase[p] = "cleaned"
    /\ Drop(p, "lifetime")
    /\ Go(p, IF p \in Clients THEN "spawn" ELSE "presence")
    /\ UNCHANGED <<cohort, socket, clientVars, history>>

Cleanup(p) == PrepareCleanup(p) \/ Clean(p) \/ Cleaned(p)

(* -------------------------------- bootstrap ------------------------------- *)

\* The process takes a lease for its whole life, and the bootstrap one of its own.
Enter(c) ==
    \/ phase[c] = "idle" /\ c \in cast.who /\ (Join(c, "entering") \/ Shunned(c, "done"))
    \/ phase[c] = "entering" /\ (Join(c, "look") \/ Shunned(c, "unwind"))

\* History: a parent takes somebody else's probe or cleanup for its child.
Collides(c, l) == stage[c] = "watching" /\ held[l] \notin Daemons \cup {NoOne}

\* A probe is over: the next one starts anew.
Probed(c, to) == Go(c, to) /\ heard' = [heard EXCEPT ![c] = "nothing"]

\* Nobody is there: the next thing to do.
WhenAbsent(c) == CASE stage[c] = "open" -> "tryLock"
                   [] stage[c] = "locked" -> "prepare"
                   [] stage[c] = "watching" -> "pause"
\* A generation lives, or is on its way up or down: wait, without startup-v2.
WhenReserved(c) == IF stage[c] = "open" THEN "pause" ELSE "yield"

\* bootstrap_production_probe, first half: is the claim taken?  An observer takes
\* it to see that it is free, so observers see each other.
Look(c) ==
    /\ phase[c] = "look"
    /\ \/ Take(c, "claim") /\ Go(c, "looked") /\ UNCHANGED <<heard, disturbed>>
       \/ /\ held["claim"] # NoOne /\ held' = held
          /\ IF heard[c] = "nothing" THEN Go(c, "connect") /\ heard' = heard
             ELSE Probed(c, WhenReserved(c))
          /\ disturbed' = (disturbed \/ Collides(c, "claim"))
    /\ UNCHANGED <<cohort, socket, stage, on, cast>>

Looked(c) ==
    /\ phase[c] = "looked"
    /\ Drop(c, "claim")
    /\ Go(c, "lifetime")
    /\ UNCHANGED <<cohort, socket, clientVars, history>>

\* ... or the lifetime?  Absent only if both are free, and if nobody answered.
Lifetime(c) ==
    /\ phase[c] = "lifetime"
    /\ \/ held["lifetime"] # NoOne /\ heard[c] = "nothing" /\ Go(c, "connect") /\ heard' = heard
       \/ held["lifetime"] # NoOne /\ heard[c] # "nothing" /\ Probed(c, WhenReserved(c))
       \/ held["lifetime"] = NoOne /\ heard[c] = "rejected" /\ Probed(c, WhenReserved(c))
       \/ held["lifetime"] = NoOne /\ heard[c] # "rejected" /\ Probed(c, WhenAbsent(c))
    /\ disturbed' = (disturbed \/ Collides(c, "lifetime"))
    /\ UNCHANGED <<held, cohort, socket, stage, on, cast>>

\* cbm_daemon_runtime_client_connect; after a failure both locks are asked again.
Connect(c) ==
    /\ phase[c] = "connect"
    /\ \/ \E d \in Daemons :
             /\ socket = d /\ phase[d] = "serving"
             /\ on' = [on EXCEPT ![c] = d]
             /\ Probed(c, "unwind")
       \/ \E reply \in {"error", "rejected"} :
             /\ \A d \in Daemons : socket = d => phase[d] # "serving"
             /\ reply = "rejected" => socket \in Daemons
             /\ heard' = [heard EXCEPT ![c] = reply]
             /\ Go(c, "look") /\ on' = on
    /\ UNCHANGED <<held, cohort, socket, stage, history>>

\* bootstrap_pause, then the next probe.
Pause(c) ==
    /\ phase[c] = "pause"
    /\ Go(c, "look")
    /\ UNCHANGED <<held, cohort, socket, clientVars, history>>

\* The loop ends at the deadline.
Expire(c) ==
    /\ phase[c] \in {"pause", "tryLock"}
    /\ Go(c, "unwind")
    /\ disturbed' = (disturbed \/ stage[c] = "watching")
    /\ UNCHANGED <<held, cohort, socket, clientVars, cast>>

\* Mutant: what was probed before startup-v2 is not probed again.
TryLockAndTrust(c) ==
    /\ phase[c] = "tryLock"
    /\ \/ /\ Take(c, "startup")
          /\ stage' = [stage EXCEPT ![c] = "locked"]
          /\ Go(c, "prepare")
       \/ /\ held["startup"] # NoOne
          /\ Go(c, "pause") /\ UNCHANGED <<held, stage>>
    /\ UNCHANGED <<cohort, socket, heard, on, history>>

\* With startup-v2 the probe is made once more.
TryLock(c) ==
    /\ phase[c] = "tryLock"
    /\ \/ /\ Take(c, "startup")
          /\ stage' = [stage EXCEPT ![c] = "locked"]
          /\ Go(c, "look")
       \/ /\ held["startup"] # NoOne
          /\ Go(c, "pause") /\ UNCHANGED <<held, stage>>
    /\ UNCHANGED <<cohort, socket, heard, on, history>>

Spawn(c) ==
    /\ phase[c] = "spawn"
    /\ \E d \in Daemons \cap cast.who :
          /\ phase[d] = "none"
          /\ phase' = [phase EXCEPT ![c] = "pause", ![d] = "launched"]
    /\ stage' = [stage EXCEPT ![c] = "watching"]
    /\ UNCHANGED <<held, cohort, socket, heard, on, history>>

SpawnFails(c) ==
    /\ phase[c] = "spawn"
    /\ Go(c, "unwind")
    /\ UNCHANGED <<held, cohort, socket, clientVars, history>>

\* What it sees of a generation makes a client give up startup-v2.
Yield(c) ==
    /\ phase[c] = "yield"
    /\ Drop(c, "startup")
    /\ stage' = [stage EXCEPT ![c] = "open"]
    /\ Go(c, "pause")
    /\ UNCHANGED <<cohort, socket, heard, on, history>>

\* Mutant: a frontend waits for its daemon only.
CalledByDaemon(p) == p \in Clients /\ on[p] = NoOne

\* The frontend or a local command has a reason to end: the daemon is gone, or
\* its monitor sees maintenance (frontend_maintenance_monitor_worker).
Called(p) == (p \in Clients /\ on[p] = NoOne) \/ held["barrier"] # NoOne

Leave(c) ==
    /\ phase[c] = "session"
    /\ on' = [on EXCEPT ![c] = NoOne]
    /\ cohort' = cohort \ {c}
    /\ Go(c, "done")
    /\ UNCHANGED <<held, socket, stage, heard, history>>

Bootstrap(c) ==
    \/ Enter(c) \/ Look(c) \/ Looked(c) \/ Lifetime(c) \/ Connect(c) \/ Pause(c) \/ Expire(c)
    \/ TryLock(c) \/ Cleanup(c) \/ Spawn(c) \/ SpawnFails(c) \/ Yield(c) \/ Unwind(c) \/ Leave(c)

(* --------------------------------- the host ------------------------------- *)

\* cbm_daemon_host_run: the lease of the cohort, ...
Admit(d) ==
    \/ phase[d] = "launched" /\ Join(d, "claiming")
    \/ phase[d] = "launched" /\ Shunned(d, "none")

\* ... the claim, retried until the predecessor has let go of it or a deadline, ...
Claim(d) ==
    /\ phase[d] = "claiming"
    /\ \/ Take(d, "claim") /\ Go(d, "claimed")
       \/ held["claim"] # NoOne /\ held' = held /\ Go(d, "parting")
    /\ UNCHANGED <<cohort, socket, clientVars, history>>

\* ... the lifetime lock, asked for once, ...
ReserveLifetime(d) ==
    /\ phase[d] = "claimed"
    /\ \/ Take(d, "lifetime") /\ Go(d, "reserved")
       \/ held["lifetime"] # NoOne /\ held' = held /\ Go(d, "retiring")
    /\ UNCHANGED <<cohort, socket, clientVars, history>>

\* ... and a listener at an anchor of its own, unless a name is there already;
Bind(d) ==
    /\ phase[d] = "reserved"
    /\ \/ socket = NoOne /\ socket' = Remnant /\ Go(d, "bound")
       \/ socket # NoOne /\ socket' = socket /\ Go(d, "closing")
    /\ UNCHANGED <<held, cohort, clientVars, history>>

\* the stable name is linked to the anchor when everything else is on the disk.
PublishSocket(d) ==
    /\ phase[d] = "bound"
    /\ socket' = d
    /\ Go(d, "serving")
    /\ UNCHANGED <<held, cohort, clientVars, history>>

\* host_wait_for_lifetime ends: a signal, a stop, an activation, the last client
\* left, or none came.  The service closes its connections.
Stopped(d, p, to) ==
    /\ phase[d] = "serving"
    /\ phase' = [phase EXCEPT ![d] = "stopping", ![p] = to]
    /\ on' = [c \in Clients |-> IF on[c] = d THEN NoOne ELSE on[c]]
    /\ UNCHANGED <<held, cohort, socket, stage, heard, history>>
Stop(d) == Stopped(d, d, "stopping")

\* cbm_daemon_ipc_listener_close: the names, then the lifetime lock.
Unlink(d) ==
    /\ phase[d] = "stopping"
    /\ socket' = NoOne
    /\ Go(d, "closing")
    /\ UNCHANGED <<held, cohort, clientVars, history>>

\* What is left, in the reverse order.
Release(d) ==
    /\ \/ phase[d] = "closing" /\ Drop(d, "lifetime") /\ Go(d, "retiring") /\ cohort' = cohort
       \/ phase[d] = "retiring" /\ Drop(d, "claim") /\ Go(d, "parting") /\ cohort' = cohort
       \/ phase[d] = "parting" /\ cohort' = cohort \ {d} /\ Go(d, "none") /\ held' = held
    /\ UNCHANGED <<socket, clientVars, history>>

Unattended(d) == \A c \in Clients : on[c] # d

Host(d) ==
    \/ Admit(d) \/ Claim(d) \/ ReserveLifetime(d) \/ Bind(d) \/ PublishSocket(d)
    \/ Stop(d) \/ Unlink(d) \/ Release(d)

(* ------------------------------ local commands ---------------------------- *)

\* A lease, then startup-v2, polled until a deadline.
BeginLocal(l) == phase[l] = "idle" /\ l \in cast.who /\ (Join(l, "tryLock") \/ Shunned(l, "done"))

LocalTransition(l) ==
    /\ phase[l] = "tryLock"
    /\ Take(l, "startup")
    /\ Go(l, "seal")
    /\ UNCHANGED <<cohort, socket, clientVars, history>>

TransitionExpires(l) ==
    /\ phase[l] = "tryLock" /\ held["startup"] # NoOne
    /\ Go(l, "unwind")
    /\ UNCHANGED <<held, cohort, socket, clientVars, history>>

\* cbm_daemon_ipc_local_transition_seal_legacy: where no generation lives, clean up.
Seal(l) ==
    /\ phase[l] = "seal"
    /\ Go(l, IF held["lifetime"] # NoOne THEN "presence" ELSE "prepare")
    /\ UNCHANGED <<held, cohort, socket, clientVars, history>>

\* version_cohort_active_daemon_presence: the claim says whether a daemon of the
\* cohort is there ...
Presence(l) ==
    /\ phase[l] = "presence"
    /\ \/ Take(l, "claim") /\ Go(l, "weigh")
       \/ held["claim"] # NoOne /\ held' = held /\ Go(l, "begin")
    /\ UNCHANGED <<cohort, socket, clientVars, history>>

\* ... and if it is not, the lifetime lock whether a foreign one is.
Weigh(l) ==
    /\ phase[l] = "weigh"
    /\ Go(l, IF held["lifetime"] = NoOne THEN "absent" ELSE "foreign")
    /\ UNCHANGED <<held, cohort, socket, clientVars, history>>

Weighed(l) ==
    /\ phase[l] \in {"absent", "foreign"}
    /\ Drop(l, "claim")
    /\ Go(l, IF phase[l] = "absent" THEN "begin" ELSE "unwind")
    /\ UNCHANGED <<cohort, socket, clientVars, history>>

\* cbm_daemon_ipc_local_transition_begin_work.
BeginWork(l) ==
    /\ phase[l] = "begin"
    /\ Drop(l, "startup")
    /\ Go(l, "working")
    /\ UNCHANGED <<cohort, socket, clientVars, history>>

EndWork(l) ==
    /\ phase[l] = "working"
    /\ Go(l, "unwind")
    /\ UNCHANGED <<held, cohort, socket, clientVars, history>>

Local(l) ==
    \/ BeginLocal(l) \/ LocalTransition(l) \/ TransitionExpires(l) \/ Seal(l) \/ Cleanup(l)
    \/ Presence(l) \/ Weigh(l) \/ Weighed(l) \/ BeginWork(l) \/ EndWork(l) \/ Unwind(l)

(* -------------------------------- activation ------------------------------ *)

\* A request that may reach the daemon, or be too late, or too early.
Ask(a, to) ==
    \/ \E d \in Daemons : socket = d /\ Stopped(d, a, to)
    \/ Go(a, to) /\ UNCHANGED <<held, cohort, socket, clientVars, history>>

EagerRequest(a) == phase[a] = "idle" /\ a \in cast.who /\ Ask(a, "close")

\* cbm_version_cohort_reserve_for_mutation: close the admission, or be BUSY, ...
CloseAdmission(a) ==
    /\ phase[a] = "close"
    /\ \/ Take(a, "barrier") /\ Go(a, "first")
       \/ held["barrier"] # NoOne /\ held' = held /\ Go(a, "done")
    /\ UNCHANGED <<cohort, socket, clientVars, history>>

\* ... look whether anybody is there, ask again, and wait until they are gone.
First(a) ==
    /\ phase[a] = "first"
    /\ Go(a, IF cohort = {} THEN "startup" ELSE "quiesce")
    /\ UNCHANGED <<held, cohort, socket, clientVars, history>>

RequestQuiescence(a) == phase[a] = "quiesce" /\ Ask(a, "drain")

Drain(a) ==
    /\ phase[a] = "drain" /\ cohort = {}
    /\ Go(a, "startup")
    /\ UNCHANGED <<held, cohort, socket, clientVars, history>>

DrainExpires(a) ==
    /\ phase[a] = "drain" /\ cohort # {}
    /\ Go(a, "open")
    /\ UNCHANGED <<held, cohort, socket, clientVars, history>>

\* Only now startup-v2, which nobody can have.
TakeStartup(a) ==
    /\ phase[a] = "startup"
    /\ Take(a, "startup")
    /\ Go(a, "probe")
    /\ UNCHANGED <<cohort, socket, clientVars, history>>

\* cbm_daemon_ipc_generation_probe_under_startup_lock: a lifetime lock or a name that
\* leads to a socket, alive or not, refuses the mutation.
Probe(a) ==
    /\ phase[a] = "probe"
    /\ Go(a, IF held["lifetime"] # NoOne \/ socket \in Daemons \cup {Stale}
             THEN "unlock" ELSE "mutating")
    /\ UNCHANGED <<held, cohort, socket, clientVars, history>>

Mutated(a) ==
    /\ phase[a] = "mutating"
    /\ Go(a, "unlock")
    /\ UNCHANGED <<held, cohort, socket, clientVars, history>>

\* cli_activation_production_release: startup-v2, then the lease with its barrier.
ReleaseMutation(a) ==
    /\ \/ phase[a] = "unlock" /\ Drop(a, "startup") /\ Go(a, "open")
       \/ phase[a] = "open" /\ Drop(a, "barrier") /\ Go(a, "done")
    /\ UNCHANGED <<cohort, socket, clientVars, history>>

Activate(a) ==
    \/ EagerRequest(a) \/ CloseAdmission(a) \/ First(a) \/ RequestQuiescence(a) \/ Drain(a) \/ DrainExpires(a)
    \/ TakeStartup(a) \/ Probe(a) \/ Mutated(a) \/ ReleaseMutation(a)

(* ---------------------------------- deaths -------------------------------- *)

\* The kernel releases locks and leases and closes connections.  The names of a
\* socket stay.
Exit(p) ==
    /\ phase' = [phase EXCEPT ![p] = IF p \in Daemons THEN "none" ELSE "done"]
    /\ held' = [l \in Locks |-> IF held[l] = p THEN NoOne ELSE held[l]]
    /\ cohort' = cohort \ {p}
    /\ socket' = IF socket = p THEN Stale ELSE socket
    /\ on' = [c \in Clients |-> IF p \in {c, on[c]} THEN NoOne ELSE on[c]]
    /\ stage' = [c \in Clients |-> IF c = p THEN "open" ELSE stage[c]]
    /\ heard' = [c \in Clients |-> IF c = p THEN "nothing" ELSE heard[c]]

Die(p) ==
    /\ phase[p] \notin {"idle", "none", "done"}
    /\ cast.deaths > 0
    /\ Exit(p)
    /\ cast' = [cast EXCEPT !.deaths = @ - 1]
    /\ disturbed' = TRUE

\* The monitor of a local command ends it, wherever it is, when it sees maintenance.
Evict(l) ==
    /\ phase[l] \notin {"idle", "done"}
    /\ held["barrier"] # NoOne
    /\ Exit(l)
    /\ UNCHANGED history

\* All is over.
Rest == (\A p \in cast.who : phase[p] \in {"none", "done"}) /\ UNCHANGED generationVars

GenerationNext ==
    \/ \E c \in Clients : Bootstrap(c)
    \/ \E d \in Daemons : Host(d)
    \/ \E l \in Locals : Local(l) \/ Evict(l)
    \/ \E a \in Activations : Activate(a)
    \/ \E p \in Process : Die(p)
    \/ Rest

GenerationSpec == GenerationInit /\ [][GenerationNext]_generationVars

\* What goes on without anybody's wish.  A session, a daemon that serves and a local
\* command's work may last; processes need not begin, and an activation has no deadline.
ClientRuns(c) ==
    \/ phase[c] = "entering" /\ Enter(c)
    \/ Look(c) \/ Looked(c) \/ Lifetime(c) \/ Connect(c) \/ Pause(c) \/ TryLock(c)
    \/ Cleanup(c) \/ Spawn(c) \/ SpawnFails(c) \/ Yield(c) \/ Unwind(c)
    \/ Called(c) /\ Leave(c)
HostRuns(d) ==
    \/ Admit(d) \/ Claim(d) \/ ReserveLifetime(d) \/ Bind(d) \/ PublishSocket(d) \/ Unlink(d) \/ Release(d)
    \/ Unattended(d) /\ Stop(d)
LocalRuns(l) ==
    \/ LocalTransition(l) \/ TransitionExpires(l) \/ Seal(l) \/ Cleanup(l) \/ Presence(l)
    \/ Weigh(l) \/ Weighed(l) \/ BeginWork(l) \/ Unwind(l)
    \/ Called(l) /\ EndWork(l)
ActivationRuns(a) ==
    \/ CloseAdmission(a) \/ First(a) \/ RequestQuiescence(a) \/ Drain(a) \/ TakeStartup(a) \/ Probe(a)
    \/ Mutated(a) \/ ReleaseMutation(a)

Fairness ==
    /\ \A c \in Clients : WF_generationVars(ClientRuns(c)) /\ SF_generationVars(Expire(c))
    /\ \A d \in Daemons : WF_generationVars(HostRuns(d))
    /\ \A l \in Locals : WF_generationVars(LocalRuns(l))
    /\ \A a \in Activations : WF_generationVars(ActivationRuns(a))

FairGeneration == GenerationSpec /\ Fairness

(* -------------------------------- properties ------------------------------ *)

\* The name of a daemon that serves or still answers is its own: nobody unlinks a
\* living listener, although a cleanup cannot see that it lives.
ListenerNamed == \A d \in Daemons : phase[d] \in {"serving", "stopping"} => socket = d

\* A daemon that owns the lifetime lock has the claim and a lease, so that nobody
\* takes it for one of a foreign build.
OwnersKnown ==
    /\ \A d \in Daemons : phase[d] \in Owning =>
          held["lifetime"] = d /\ held["claim"] = d /\ d \in cohort
    /\ \A l \in Locals : phase[l] # "foreign"

\* An activation that has drained the cohort is alone: no daemon, no starter, no local
\* command holds or can take anything until it is done.
DrainedAlone ==
    \A a \in Activations : phase[a] \in {"startup", "probe", "mutating", "unlock"} =>
        /\ cohort = {}
        /\ held["claim"] = NoOne /\ held["lifetime"] = NoOne /\ held["startup"] \in {NoOne, a}
        /\ socket \notin Daemons

GenerationSound == GenerationTypeOK /\ ListenerNamed /\ OwnersKnown /\ DrainedAlone

\* Somebody is turned away by what another one left or started.
Refused ==
    \/ \E c \in Clients : phase[c] = "prepare" /\ phase'[c] = "unwind"
    \/ \E d \in Daemons :
          \/ phase[d] = "claiming" /\ phase'[d] = "parting" /\ held["claim"] \in Daemons
          \/ phase[d] = "claimed" /\ phase'[d] = "retiring" /\ held["lifetime"] \notin Locals
          \/ phase[d] = "reserved" /\ phase'[d] = "closing"
          \/ /\ phase[d] = "none" /\ phase'[d] = "launched"
             /\ \E e \in Daemons : phase[e] \in Starting
    \/ \E a \in Activations : phase[a] = "probe" /\ phase'[a] = "unlock"

\* bootstrap.c:458 promises that no two replacements are launched, and so no client's
\* cleanup, no daemon and no drained activation should be refused.  That is so as long
\* as no parent takes another observer for its child or gives up before it is there, and
\* nobody dies.  A local command and a daemon that has its claim and not yet the lifetime
\* lock may refuse each other even then.
RefusedOnlyIfDisturbed == [][Refused => disturbed]_generationVars

Busy(p) == phase[p] \notin {"idle", "none", "done", "session", "serving", "working"}

\* Again and again nobody is on the way: bootstraps, ways up and down, local starts and
\* activations come to an end.  Locks are taken in orders that never make two of them wait
\* for each other, and a drain needs no deadline of its own: what it waits for is called to
\* leave or expires.
EveryoneEnds == []<>(\A p \in Process : ~Busy(p))
=============================================================================
