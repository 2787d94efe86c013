--------------------------- MODULE VersionCohort ---------------------------
(***************************************************************************)
(* daemon/version_cohort.c: admission of exactly one build at a time       *)
(* across all processes of an account, over four native lock files.        *)
(*                                                                         *)
(*   maintenance  EX: a mutation is wanted; participants pass with SH      *)
(*   admission    EX: one admission or mutation transition at a time       *)
(*   lifetime     SH: a live participant; EX: nobody else is alive.  Its   *)
(*                payload is the identity of the cohort                    *)
(*   daemon       EX: the marker of the running daemon's generation        *)
(*                                                                         *)
(* A caller is one thread inside one call of the API; a call that waits is *)
(* between two actions.  Callers of one process share its manager.  A      *)
(* native operation may fail, a process may die anywhere and start again,  *)
(* and a deadline may pass, within one of the Budgets.                     *)
(***************************************************************************)
EXTENDS Naturals, FiniteSets

CONSTANTS
    Proc, Caller, Home,     \* processes, threads, and whose thread each is
    Build,                  \* exact build identities
    None, Torn,             \* no identity; a record that does not decode
    Budgets     \* bound: the largest <<calls, failures, deaths>> explored, and
                \* whether deadlines are finite

ASSUME HomeAssumption == Home \in [Caller -> Proc]
ASSUME BuildAssumption == None \notin Build /\ Torn \notin Build
ASSUME BudgetAssumption == Budgets \subseteq Nat \X Nat \X Nat \X BOOLEAN

VARIABLES
    at,         \* [Caller -> Phase]: where its call stands
    locks,      \* [Caller -> [File -> Handle]]: the handles of its lease
    who,        \* [Caller -> identity it asks admission for]
    answer,     \* [Caller -> status its call is about to return]
    late,       \* [Caller -> its deadline has passed]
    record,     \* payload of the lifetime file
    manager,    \* [Proc -> whether its manager exists]
    leases,     \* [Proc -> lease_count]
    calls, faults, crashes  \* bounds: calls begun, native failures, deaths

vars == <<at, locks, who, answer, late, record, manager, leases, calls, faults, crashes>>

File == {"maintenance", "admission", "lifetime", "daemon"}

\* "shut": unlocked, but the handle could not be closed and must be retried.
Handle == {"NL", "SH", "EX", "shut"}

Want(ph, f, m, next) == [phase |-> ph, file |-> f, mode |-> m, next |-> next]

\* Locks tried once ...
Tried == {
    Want("maintenance", "maintenance", "SH", "admission"),
    Want("lifetime",    "lifetime",    "EX", "write"),
    Want("join",        "lifetime",    "SH", "read"),
    Want("reclaim",     "lifetime",    "EX", "write"),
    Want("barrier",     "lifetime",    "EX", "mutating"),
    Want("probe",       "maintenance", "SH", "unwind"),
    Want("peek",        "daemon",      "EX", "unwind")}

\* ... and locks retried until the deadline.
Awaited == {
    Want("admission", "admission",   "EX", "lifetime"),
    Want("share",     "lifetime",    "SH", "openAdmission"),
    Want("intent",    "maintenance", "EX", "closing"),
    Want("closing",   "admission",   "EX", "barrier"),
    Want("drain",     "lifetime",    "EX", "mutating"),
    Want("claiming",  "daemon",      "EX", "daemon")}

Wanted == Tried \cup Awaited

\* Handles an acquisition gives back on its way.
Passed == {
    Want("narrow",          "lifetime",    "EX", "share"),
    Want("leave",           "lifetime",    "SH", "reclaim"),
    Want("openAdmission",   "admission",   "EX", "openMaintenance"),
    Want("openMaintenance", "maintenance", "SH", "member")}

Phase == {"idle", "write", "written", "read", "quiesce", "member", "daemon", "mutating", "unwind"}
            \cup {w.phase : w \in Wanted \cup Passed}

\* Callers whose identity has been accepted, and those that keep others out.
Admitted == {"openAdmission", "openMaintenance", "member", "claiming", "daemon"}
Closing == {"barrier", "quiesce", "drain", "mutating"}

Answer == {"none", "OK", "CONFLICT", "BUSY", "UNSAFE", "IO", "COORDINATED"}

TypeOK ==
    /\ at \in [Caller -> Phase]
    /\ locks \in [Caller -> [File -> Handle]]
    /\ who \in [Caller -> Build \cup {None}]
    /\ answer \in [Caller -> Answer]
    /\ late \in [Caller -> BOOLEAN]
    /\ record \in Build \cup {None, Torn}
    /\ manager \in [Proc -> BOOLEAN]
    /\ leases \in [Proc -> Nat]
    /\ calls \in Nat /\ faults \in Nat /\ crashes \in Nat

Init ==
    /\ at = [c \in Caller |-> "idle"]
    /\ locks = [c \in Caller |-> [f \in File |-> "NL"]]
    /\ who = [c \in Caller |-> None]
    /\ answer = [c \in Caller |-> "none"]
    /\ late = [c \in Caller |-> FALSE]
    /\ record = None
    /\ manager = [p \in Proc |-> FALSE]
    /\ leases = [p \in Proc |-> 0]
    /\ calls = 0 /\ faults = 0 /\ crashes = 0

(* -------------------------------- helpers -------------------------------- *)

\* flock: shared holders exclude an exclusive one, whatever process they are in.
Grantable(c, f, m) ==
    \A d \in Caller \ {c} :
        IF m = "SH" THEN locks[d][f] # "EX" ELSE locks[d][f] \notin {"SH", "EX"}

\* So much fits one of the budgets.
InBudget(n, f, k, l) ==
    \E b \in Budgets : n <= b[1] /\ f <= b[2] /\ k <= b[3] /\ (l => b[4])
Late == \E c \in Caller : late[c]
Fault == InBudget(calls, faults + 1, crashes, Late) /\ faults' = faults + 1

Goto(c, ph) == at' = [at EXCEPT ![c] = ph]
SetHandle(c, f, h) == locks' = [locks EXCEPT ![c][f] = h]

\* version_cohort_failed, or a final release: the lease is taken apart.
Unwinding(c, status) ==
    /\ Goto(c, "unwind")
    /\ answer' = [answer EXCEPT ![c] = status]

(* ------------------------------ locks taken ------------------------------ *)

Begin(c, ph, b) ==
    /\ at[c] = "idle" /\ manager[Home[c]] /\ InBudget(calls + 1, faults, crashes, Late)
    /\ Goto(c, ph)
    /\ who' = [who EXCEPT ![c] = b]
    /\ leases' = [leases EXCEPT ![Home[c]] = @ + 1]
    /\ calls' = calls + 1
    /\ UNCHANGED <<locks, answer, late, record, manager, faults, crashes>>

Acquire(c) == \E b \in Build : Begin(c, "maintenance", b)
Reserve(c) == Begin(c, "intent", None)
MaintenancePresence(c) == Begin(c, "probe", None)
DaemonClaimPresence(c) == Begin(c, "peek", None)

\* The host claims its generation while it is a member.
DaemonClaim(c) ==
    /\ at[c] = "member"
    /\ Goto(c, "claiming")
    /\ UNCHANGED <<locks, who, answer, late, record, manager, leases, calls, faults, crashes>>

Take(c) == \E w \in Wanted :
    /\ at[c] = w.phase /\ Grantable(c, w.file, w.mode)
    /\ SetHandle(c, w.file, w.mode)
    /\ Goto(c, w.next)
    /\ late' = [late EXCEPT ![c] = FALSE]
    /\ UNCHANGED <<who, answer, record, manager, leases, calls, faults, crashes>>

\* Mutant: a different build is refused without asking whether it still lives.
ConflictIfBusyBlind(c) == at[c] = "reclaim"
\* The mismatched cohort outlived the second look at its lifetime lock.
ConflictIfBusy(c) == at[c] = "reclaim" /\ ~Grantable(c, "lifetime", "EX")

Conflict(c) ==
    /\ ConflictIfBusy(c)
    /\ Unwinding(c, "CONFLICT")
    /\ UNCHANGED <<locks, who, late, record, manager, leases, calls, faults, crashes>>

\* A lifetime lock in use sends an admission to read the record and a mutation
\* to ask for quiescence, which a caller without a callback cannot.
LifetimeInUse(c) ==
    /\ at[c] \in {"lifetime", "barrier"} /\ ~Grantable(c, "lifetime", "EX")
    /\ \/ at[c] = "lifetime" /\ Goto(c, "join") /\ answer' = answer
       \/ at[c] = "barrier" /\ Goto(c, "quiesce") /\ answer' = answer
       \/ at[c] = "barrier" /\ Unwinding(c, "BUSY")
    /\ UNCHANGED <<locks, who, late, record, manager, leases, calls, faults, crashes>>

\* The other locks that are tried once.
Refused(c) == \E w \in Tried :
    /\ at[c] = w.phase /\ at[c] \notin {"lifetime", "barrier", "reclaim"}
    /\ ~Grantable(c, w.file, w.mode)
    /\ Unwinding(c, IF at[c] = "peek" THEN "COORDINATED" ELSE "BUSY")
    /\ UNCHANGED <<locks, who, late, record, manager, leases, calls, faults, crashes>>

Expire(c) == \E w \in Awaited :
    /\ at[c] = w.phase /\ late[c] /\ ~Grantable(c, w.file, w.mode)
    /\ Unwinding(c, "BUSY")
    /\ UNCHANGED <<locks, who, late, record, manager, leases, calls, faults, crashes>>

DeadlinePasses(c) ==
    /\ ~late[c] /\ InBudget(calls, faults, crashes, TRUE)
    /\ \E w \in Awaited : at[c] = w.phase
    /\ late' = [late EXCEPT ![c] = TRUE]
    /\ UNCHANGED <<at, locks, who, answer, record, manager, leases, calls, faults, crashes>>

\* An attempt fails; if its own rollback fails too, the handle stays.
TakeFails(c) == \E w \in Wanted :
    /\ at[c] = w.phase
    /\ Fault
    /\ \/ locks' = locks
       \/ Grantable(c, w.file, w.mode) /\ \E h \in {w.mode, "shut"} : SetHandle(c, w.file, h)
    /\ Unwinding(c, "IO")
    /\ UNCHANGED <<who, late, record, manager, leases, calls, crashes>>

(* ---------------------------- the identity record ------------------------- *)

\* The file is truncated before the record is written and synced.
Truncate(c) ==
    /\ at[c] = "write"
    /\ record' = Torn
    /\ Goto(c, "written")
    /\ UNCHANGED <<locks, who, answer, late, manager, leases, calls, faults, crashes>>

Write(c) ==
    /\ at[c] = "written"
    /\ record' = who[c]
    /\ Goto(c, "narrow")
    /\ UNCHANGED <<locks, who, answer, late, manager, leases, calls, faults, crashes>>

\* Mutant: the result of the payload write is ignored.
AfterWriteFailureIgnored(c) == Goto(c, "narrow") /\ answer' = answer
AfterWriteFailure(c) == Unwinding(c, "IO")

\* The file may hold a whole record all the same, when only the sync failed.
WriteFails(c) ==
    /\ at[c] \in {"write", "written"}
    /\ Fault
    /\ record' \in {record, IF at[c] = "written" THEN who[c] ELSE record}
    /\ AfterWriteFailure(c)
    /\ UNCHANGED <<locks, who, late, manager, leases, calls, crashes>>

\* Mutant: any decodable record admits the caller.
CompatibleAny(active, requested) == active \in Build
\* cbm_daemon_hello_compare and the cache fingerprint: version, build, the
\* three ABIs and the cache all equal.
Compatible(active, requested) == active = requested

Read(c) ==
    /\ at[c] = "read" /\ record \in Build
    /\ Goto(c, IF Compatible(record, who[c]) THEN "openAdmission" ELSE "leave")
    /\ UNCHANGED <<locks, who, answer, late, record, manager, leases, calls, faults, crashes>>

\* The record cannot be read, or does not decode.
ReadFails(c) ==
    /\ at[c] = "read"
    /\ IF record \in Build THEN Fault ELSE faults' = faults
    /\ Unwinding(c, "UNSAFE")
    /\ UNCHANGED <<locks, who, late, record, manager, leases, calls, crashes>>

(* ------------------------------ locks given back -------------------------- *)

Pass(c) == \E w \in Passed :
    /\ at[c] = w.phase
    /\ SetHandle(c, w.file, "NL")
    /\ Goto(c, w.next)
    /\ answer' = [answer EXCEPT ![c] = IF w.next = "member" THEN "OK" ELSE @]
    /\ UNCHANGED <<who, late, record, manager, leases, calls, faults, crashes>>

PassFails(c) == \E w \in Passed :
    /\ at[c] = w.phase
    /\ Fault
    /\ \E h \in {w.mode, "shut", "NL"} : SetHandle(c, w.file, h)
    /\ Unwinding(c, "IO")
    /\ UNCHANGED <<who, late, record, manager, leases, calls, crashes>>

\* A participant, a daemon or a mutation ends: the daemon's marker goes before
\* its lease.
Leave(c) ==
    /\ at[c] \in {"member", "daemon"}
    /\ Unwinding(c, "OK")
    /\ UNCHANGED <<locks, who, late, record, manager, leases, calls, faults, crashes>>

EndMutation(c) ==
    /\ at[c] = "mutating"
    /\ Unwinding(c, "OK")
    /\ UNCHANGED <<locks, who, late, record, manager, leases, calls, faults, crashes>>

Quiesce(c) ==
    /\ at[c] = "quiesce"
    /\ \/ Goto(c, "drain") /\ answer' = answer      \* REQUESTED
       \/ Unwinding(c, "BUSY")                      \* REFUSED
       \/ Unwinding(c, "IO")                        \* ERROR
    /\ UNCHANGED <<locks, who, late, record, manager, leases, calls, faults, crashes>>

\* cbm_version_cohort_lease_release: what must be gone before each file.
ReleasedBefore ==
    [daemon |-> {}, lifetime |-> {"daemon"},
     admission |-> {"daemon", "lifetime"}, maintenance |-> {"daemon", "lifetime", "admission"}]

CanRelease(c, f) ==
    /\ at[c] = "unwind" /\ locks[c][f] # "NL"
    /\ \A g \in ReleasedBefore[f] : locks[c][g] = "NL"

Unwind(c) == \E f \in File :
    /\ CanRelease(c, f)
    /\ SetHandle(c, f, "NL")
    /\ UNCHANGED <<at, who, answer, late, record, manager, leases, calls, faults, crashes>>

\* Mutant: a failed release already gives up the place in lease_count.
StaysRegisteredNot(c) == leases' = [leases EXCEPT ![Home[c]] = @ - 1]
StaysRegistered(c) == leases' = leases

\* A release fails: the handle is kept for a retry, or was consumed all the same.
UnwindFails(c) == \E f \in File :
    /\ CanRelease(c, f)
    /\ Fault
    /\ \E h \in {locks[c][f], "shut", "NL"} : SetHandle(c, f, h)
    /\ answer' = [answer EXCEPT ![c] = "IO"]
    /\ StaysRegistered(c)
    /\ UNCHANGED <<at, who, late, record, manager, calls, crashes>>

\* Mutant: the maintenance handle is forgotten.
MustReleaseMost == {"daemon", "lifetime", "admission"}
MustRelease == File

Return(c) ==
    /\ at[c] = "unwind"
    /\ \A f \in MustRelease : locks[c][f] = "NL"
    /\ Goto(c, "idle")
    /\ who' = [who EXCEPT ![c] = None]
    /\ answer' = [answer EXCEPT ![c] = "none"]
    /\ late' = [late EXCEPT ![c] = FALSE]
    /\ leases' = [leases EXCEPT ![Home[c]] = @ - 1]
    /\ UNCHANGED <<locks, record, manager, calls, faults, crashes>>

(* ---------------------------- managers and crashes ------------------------ *)

ManagerNew(p) ==
    /\ ~manager[p]
    /\ manager' = [manager EXCEPT ![p] = TRUE]
    /\ UNCHANGED <<at, locks, who, answer, late, record, leases, calls, faults, crashes>>

CanFree(p) == leases[p] = 0

\* The directory is closed and the manager freed; "closing" only refuses calls
\* that come too late, which changes nothing.
ManagerFree(p) ==
    /\ manager[p] /\ CanFree(p)
    /\ manager' = [manager EXCEPT ![p] = FALSE]
    /\ UNCHANGED <<at, locks, who, answer, late, record, leases, calls, faults, crashes>>

\* The kernel closes every handle of a dead process; the file's content stays.
Crash(p) ==
    /\ manager[p] /\ InBudget(calls, faults, crashes + 1, Late)
    /\ crashes' = crashes + 1
    /\ at' = [c \in Caller |-> IF Home[c] = p THEN "idle" ELSE at[c]]
    /\ locks' = [c \in Caller |-> IF Home[c] = p THEN [f \in File |-> "NL"] ELSE locks[c]]
    /\ who' = [c \in Caller |-> IF Home[c] = p THEN None ELSE who[c]]
    /\ answer' = [c \in Caller |-> IF Home[c] = p THEN "none" ELSE answer[c]]
    /\ late' = [c \in Caller |-> IF Home[c] = p THEN FALSE ELSE late[c]]
    /\ manager' = [manager EXCEPT ![p] = FALSE]
    /\ leases' = [leases EXCEPT ![p] = 0]
    /\ UNCHANGED <<record, calls, faults>>

(* ------------------------------ specification ----------------------------- *)

\* What a running caller does next without anyone's help.
Proceed(c) ==
    \/ Take(c) \/ Conflict(c) \/ LifetimeInUse(c) \/ Refused(c) \/ Expire(c)
    \/ Truncate(c) \/ Write(c) \/ Read(c) \/ ReadFails(c) \/ Pass(c) \/ Quiesce(c)
    \/ Unwind(c) \/ Return(c) \/ EndMutation(c)

Start(c) ==
    Acquire(c) \/ Reserve(c) \/ MaintenancePresence(c) \/ DaemonClaimPresence(c) \/ DaemonClaim(c)

Fail(c) == TakeFails(c) \/ WriteFails(c) \/ PassFails(c) \/ UnwindFails(c)

Next ==
    \/ \E c \in Caller : Proceed(c) \/ Start(c) \/ Fail(c) \/ Leave(c) \/ DeadlinePasses(c)
    \/ \E p \in Proc : ManagerNew(p) \/ ManagerFree(p) \/ Crash(p)

Spec == Init /\ [][Next]_vars

\* A participant that sees maintenance requested ends its work and leaves.
Asked == \E c \in Caller : locks[c]["maintenance"] = "EX"

FairSpec ==
    /\ Spec
    /\ \A c \in Caller : WF_vars(Proceed(c)) /\ WF_vars(Asked /\ Leave(c))

(* ------------------------------- properties ------------------------------- *)

\* The record under a live cohort is the cohort's: whoever compares itself with
\* it reads a whole record, never a torn one, and what a participant that was
\* let in finds there is its own identity.
RecordIsCohorts == \A c \in Caller :
    /\ locks[c]["lifetime"] = "SH" => record \in Build
    /\ at[c] \in Admitted => record = who[c]

\* version_cohort.h, reserve_for_mutation: while a mutation holds its lease no
\* participant is alive, no admission is in flight, and the marker of every
\* daemon is gone (host.c keeps its lease until the claim is released).
MutationAlone == \A c, d \in Caller :
    at[c] = "mutating" /\ c # d =>
        /\ at[d] \notin Admitted
        /\ \A f \in {"maintenance", "admission", "lifetime"} : locks[d][f] \in {"NL", "shut"}
        /\ who[d] # None => locks[d]["daemon"] = "NL"

\* On every path, the failing ones included, lifetime EX is kept only under
\* admission, and admission only under maintenance: a lease that is half taken
\* apart never lets a second transition in.
GuardsNested == \A c \in Caller :
    /\ locks[c]["lifetime"] = "EX" => locks[c]["admission"] = "EX"
    /\ locks[c]["admission"] # "NL" => locks[c]["maintenance"] \in {"SH", "EX"}

\* cbm_version_cohort_manager_free refuses as long as lease_count says that a lease
\* exists: the directory of a manager is never closed under a call, nor under a
\* lease whose release has failed and must be repeated.
ManagerOutlasts == \A c \in Caller : at[c] # "idle" => manager[Home[c]]

\* What admission relies on between its steps: a record that is the cohort's, a
\* mutation that is alone, guards that nest, a manager that is there
\* (version_cohort.c, whole file).
CohortSound == RecordIsCohorts /\ MutationAlone /\ GuardsNested /\ ManagerOutlasts

\* CONFLICT is only told to a caller while another build holds the lifetime
\* lock: a cohort that ended between the two looks is replaced, not reported.
ConflictIsReal == [][\A c \in Caller :
    answer[c] # "CONFLICT" /\ answer'[c] = "CONFLICT" =>
        \E d \in Caller \ {c} :
            locks[d]["lifetime"] = "SH" /\ who[d] \in Build \ {who[c]}]_vars

\* Admission, reservation and observation end without a deadline's help: the
\* global order maintenance, admission, lifetime leaves no circular wait, and
\* participants that are asked to leave let a mutation in.
EveryCallEnds == \A c \in Caller :
    at[c] \notin {"idle", "member", "claiming", "daemon"}
        ~> at[c] \in {"idle", "member", "claiming", "daemon"}

(* The protocol implements the abstract cohort. *)
Abstract == INSTANCE Cohort WITH
    joined <- [c \in Caller |-> IF at[c] \in Admitted THEN who[c] ELSE None],
    barrier <- {c \in Caller : at[c] \in Closing},
    mutator <- {c \in Caller : at[c] = "mutating"}

\* Participants alive together run one build; a mutation closes admission first
\* and starts when the last participant is gone.
ImplementsCohort == Abstract!Spec
=============================================================================
