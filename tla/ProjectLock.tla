---------------------------- MODULE ProjectLock ----------------------------
(***************************************************************************)
(* daemon/project_lock.c and the code that takes its leases: the daemon's  *)
(* mutations (application.c), those of command-line processes (main.c) and *)
(* the cross-repository match, which needs several (mcp.c).                *)
(*                                                                         *)
(* A lease of a project is two leases of the lock registry: the project    *)
(* set, shared, and then the project, exclusively.  A lease of "*" is the  *)
(* project set, exclusively.  What a thread owns of a registry lease is    *)
(*   "none"    nothing,                                                    *)
(*   "turn"    the native lock that announces a writer of the set, or that *)
(*             a reader could not give back,                               *)
(*   "locked"  the lease, or native locks left behind by a failure,        *)
(*   "open"    an unlocked handle that could not be closed.                *)
(* Inside a process the registry queues its callers; here whoever waits    *)
(* may be next, as among processes.                                        *)
(***************************************************************************)
EXTENDS Integers, Sequences, FiniteSets, SequencesExt

CONSTANTS
    Process, Daemon,     \* processes; one of them is the daemon
    Thread, Home,        \* threads that mutate, and the process of each
    Name, Wild,          \* project names as callers spell them, and "*"
    Project, Fold,       \* case-folded names, and the one of each name
    Rank, Raw,           \* strcmp order of folded names and of names
    Requests,            \* sets of names one operation needs
    Budgets              \* bound: how much of what happens in one behaviour

Key == Name \cup {Wild}
Folded(k) == IF k = Wild THEN Wild ELSE Fold[k]

ASSUME HomeAssumption == Daemon \in Process /\ Home \in [Thread -> Process]
ASSUME NameAssumption ==
    /\ Wild \notin Name \cup Project /\ Fold \in [Name -> Project]
    /\ Rank \in [Project -> Nat] /\ Raw \in [Name -> Nat]
    /\ \A p, q \in Project : Rank[p] = Rank[q] => p = q
    /\ \A m, n \in Name : Raw[m] = Raw[n] => m = n
ASSUME RequestAssumption ==
    \A S \in Requests : S # {} /\ IsFiniteSet(S) /\ (S \subseteq Name \/ S = {Wild})
Budget == [asks : [Thread -> SUBSET Requests], faults : Nat, crashes : Nat, cancels : Nat]
ASSUME BudgetAssumption == Budgets \subseteq Budget

VARIABLES
    phase,      \* where each thread is
    want,       \* the names its operation needs
    todo,       \* lease keys it has still to take, in order
    held,       \* lease keys it has, in the order they were taken
    once,       \* it tries, and does not wait
    cancelled,  \* its session is cancelled or closed, or the daemon is stopping
    status,     \* of the attempt it is making
    set, proj,  \* what it owns of the set's and the project's lock for each key
    reserved,   \* application->mutations: <<thread, key>>
    budget      \* what may still happen

request == <<want, once>>
locks == <<set, proj>>
vars == <<phase, request, todo, held, cancelled, status, locks, reserved, budget>>

Phase == {"idle", "reserve", "set", "drain", "project", "got", "undo", "mutating", "end", "dead"}

TypeOK ==
    /\ phase \in [Thread -> Phase]
    /\ want \in [Thread -> SUBSET Key]
    /\ todo \in [Thread -> Seq(Key)] /\ held \in [Thread -> Seq(Key)]
    /\ once \in [Thread -> BOOLEAN] /\ cancelled \in [Thread -> BOOLEAN]
    /\ status \in [Thread -> {"OK", "BUSY", "IO", "STUCK"}]
    /\ set \in [Thread -> [Key -> {"none", "turn", "locked", "open"}]]
    /\ proj \in [Thread -> [Key -> {"none", "locked", "open"}]]
    /\ reserved \subseteq Thread \X Key
    /\ budget \in Budget

Init ==
    /\ phase = [t \in Thread |-> "idle"]
    /\ want = [t \in Thread |-> {}] /\ once = [t \in Thread |-> FALSE]
    /\ todo = [t \in Thread |-> <<>>] /\ held = [t \in Thread |-> <<>>]
    /\ cancelled = [t \in Thread |-> FALSE] /\ status = [t \in Thread |-> "OK"]
    /\ set = [t \in Thread |-> [k \in Key |-> "none"]]
    /\ proj = [t \in Thread |-> [k \in Key |-> "none"]]
    /\ reserved = {} /\ budget \in Budgets

-----------------------------------------------------------------------------
(* Helpers. *)

\* cross_repo_project_lock_keys_equivalent: one spelling of a name is enough.
Chosen(S) ==
    IF S = {Wild} THEN S
    ELSE {n \in S : \A m \in S : Fold[m] = Fold[n] => Raw[n] <= Raw[m]}

\* qsort, by the number each member has.
Sorted(C, key) ==
    CHOOSE s \in [1..Cardinality(C) -> C] :
        \A i, j \in 1..Cardinality(C) : i < j => key[s[i]] < key[s[j]]

\* Mutant: sorted as they are spelled.
LeaseKeysAsSpelled == [S \in Requests |-> Sorted(Chosen(S), Raw)]
\* Mutant: the folded names go in their place.
LeaseKeysFolded == [S \in Requests |-> Sorted({Folded(n) : n \in Chosen(S)}, Rank)]
\* handle_cross_repo_mode: the keys of an operation, sorted as the locks are named.
LeaseKeys == [S \in Requests |-> Sorted(Chosen(S), [n \in Name |-> Rank[Fold[n]]])]

InDaemon(t) == Home[t] = Daemon
Stops(t) == InDaemon(t) /\ cancelled[t]
Goto(t, l) == phase' = [phase EXCEPT ![t] = l]

\* The key whose lease the thread takes or gives back.
Current(t) == IF phase[t] = "end" THEN Last(held[t]) ELSE Head(todo[t])
Owns(t, k) == set[t][k] # "none" \/ proj[t][k] # "none"

\* application_project_keys_conflict, on names as they are spelled.
Conflict(k, l) == k = l \/ k = Wild \/ l = Wild
Reservable(k) == \A r \in reserved : ~Conflict(r[2], k)

Others(t, k) == {o \in Thread \X Key : o # <<t, k>>}

\* A reader of the set passes no writer, be it waiting.
SharedGrantable(t, k) ==
    \A o \in Others(t, k) :
        set[o[1]][o[2]] \notin (IF o[2] = Wild THEN {"turn", "locked"} ELSE {"turn"})
TurnGrantable(t) == \A u \in Thread, l \in Name : set[u][l] # "turn"
\* Mutant: the writer looks for other writers only.
AllGrantableAmongWriters(t) == \A u \in Thread : set[u][Wild] # "locked"
AllGrantable(t) == \A o \in Others(t, Wild) : set[o[1]][o[2]] # "locked"
ProjectGrantable(t, k) ==
    \A o \in Others(t, k) :
        o[2] # Wild /\ Fold[o[2]] = Fold[k] => proj[o[1]][o[2]] # "locked"

Fault == budget.faults > 0 /\ budget' = [budget EXCEPT !.faults = @ - 1]

\* The next key's lease, or the operation.
Turns(t) == IF InDaemon(t) THEN "reserve" ELSE "set"

-----------------------------------------------------------------------------
(* An operation begins and takes its leases one after the other. *)

Begin(t, S, o) ==
    /\ phase[t] = "idle" /\ S \in budget.asks[t]
    /\ o => Cardinality(S) = 1
    /\ budget' = [budget EXCEPT !.asks[t] = @ \ {S}]
    /\ want' = [want EXCEPT ![t] = S] /\ once' = [once EXCEPT ![t] = o]
    /\ todo' = [todo EXCEPT ![t] = LeaseKeys[S]]
    /\ cancelled' = [cancelled EXCEPT ![t] = FALSE]
    /\ status' = [status EXCEPT ![t] = "OK"]
    /\ Goto(t, Turns(t))
    /\ UNCHANGED <<held, locks, reserved>>

\* The operation is refused; what it has is given back, last first.
Refuse(t) ==
    /\ todo' = [todo EXCEPT ![t] = <<>>]
    /\ Goto(t, IF held[t] = <<>> THEN "idle" ELSE "end")

\* application_mutation_begin_internal, first loop: the daemon's own mutations.
Reserve(t) ==
    /\ phase[t] = "reserve"
    /\ LET k == Head(todo[t])
       IN  \/ /\ ~cancelled[t] /\ Reservable(k)
              /\ reserved' = reserved \cup {<<t, k>>}
              /\ Goto(t, "set") /\ UNCHANGED <<todo, budget>>
           \/ /\ cancelled[t] \/ (once[t] /\ ~Reservable(k))
              /\ Refuse(t) /\ UNCHANGED <<reserved, budget>>
           \/ /\ ~cancelled[t] /\ Reservable(k) /\ Fault \* no memory
              /\ Refuse(t) /\ UNCHANGED reserved
    /\ UNCHANGED <<request, held, cancelled, status, locks>>

\* project_lock_acquire_internal: the project set shared ...
TakeSet(t) ==
    /\ phase[t] = "set" /\ Head(todo[t]) # Wild
    /\ SharedGrantable(t, Head(todo[t]))
    /\ set' = [set EXCEPT ![t][Head(todo[t])] = "locked"]
    /\ Goto(t, "project")
    /\ UNCHANGED <<request, todo, held, cancelled, status, proj, reserved, budget>>

\* ... and then the project;
TakeProject(t) ==
    /\ phase[t] = "project" /\ ProjectGrantable(t, Head(todo[t]))
    /\ proj' = [proj EXCEPT ![t][Head(todo[t])] = "locked"]
    /\ Goto(t, "got")
    /\ UNCHANGED <<request, todo, held, cancelled, status, set, reserved, budget>>

\* or the project set exclusively, which no reader passes any more ...
TakeTurn(t) ==
    /\ phase[t] = "set" /\ Head(todo[t]) = Wild /\ TurnGrantable(t)
    /\ set' = [set EXCEPT ![t][Wild] = "turn"]
    /\ Goto(t, "drain")
    /\ UNCHANGED <<request, todo, held, cancelled, status, proj, reserved, budget>>

\* ... once the readers that were there have gone.
TakeAll(t) ==
    /\ phase[t] = "drain" /\ AllGrantable(t)
    /\ set' = [set EXCEPT ![t][Wild] = "locked"]
    /\ Goto(t, "got")
    /\ UNCHANGED <<request, todo, held, cancelled, status, proj, reserved, budget>>

Available(t) ==
    \/ phase[t] = "set" /\ Head(todo[t]) # Wild /\ SharedGrantable(t, Head(todo[t]))
    \/ phase[t] = "set" /\ Head(todo[t]) = Wild /\ TurnGrantable(t)
    \/ phase[t] = "drain" /\ AllGrantable(t)
    \/ phase[t] = "project" /\ ProjectGrantable(t, Head(todo[t]))

\* A try finds the lock taken, or the 100 milliseconds of an attempt have passed.  An
\* attempt that has nothing to give back and is made again has not ended: see Again.
TimesOut(t) ==
    /\ once[t] => ~Available(t)
    /\ phase[t] = "set" => once[t] \/ Stops(t)

Busy(t) ==
    /\ phase[t] \in {"set", "drain", "project"} /\ TimesOut(t)
    /\ status' = [status EXCEPT ![t] = "BUSY"] /\ Goto(t, "undo")
    /\ UNCHANGED <<request, todo, held, cancelled, locks, reserved, budget>>

\* The registry fails, with no lease or with one that has only to be cleaned up.
AcquireFails(t) ==
    /\ Fault
    /\ LET k == Head(todo[t])
       IN  \/ /\ phase[t] \in {"set", "drain"}
              /\ \E h \in {"none", "open"}
                       \cup (IF Available(t) \/ phase[t] = "drain" THEN {"turn"} ELSE {})
                       \cup (IF Available(t) /\ (phase[t] = "drain" <=> k = Wild)
                             THEN {"locked"} ELSE {}) :
                    set' = [set EXCEPT ![t][k] = h]
              /\ UNCHANGED proj
           \/ /\ phase[t] = "project"
              /\ \E h \in {"none", "open"} \cup (IF Available(t) THEN {"locked"} ELSE {}) :
                    proj' = [proj EXCEPT ![t][k] = h]
              /\ UNCHANGED set
    /\ status' = [status EXCEPT ![t] = "IO"] /\ Goto(t, "undo")
    /\ UNCHANGED <<request, todo, held, cancelled, reserved>>

\* With both leases.  The daemon looks at the session once more, a command line needs
\* memory to note them.  When all keys are there the cross-repository match looks
\* whether it is cancelled, and other operations do not.
Kept(t) ==
    /\ ~Stops(t) /\ UNCHANGED budget
    /\ held' = [held EXCEPT ![t] = Append(@, Head(todo[t]))]
    /\ todo' = [todo EXCEPT ![t] = Tail(@)]
    /\ status' = [status EXCEPT ![t] = "OK"]
    /\ \/ Len(todo[t]) > 1 /\ Goto(t, Turns(t))
       \/ Len(todo[t]) = 1 /\ Goto(t, "mutating")
       \/ Len(todo[t]) = 1 /\ cancelled[t] /\ Goto(t, "end")

GivenUp(t, s) ==
    /\ status' = [status EXCEPT ![t] = s] /\ Goto(t, "undo") /\ UNCHANGED <<todo, held>>

Got(t) ==
    /\ phase[t] = "got"
    /\ \/ Kept(t)
       \/ Stops(t) /\ GivenUp(t, "BUSY") /\ UNCHANGED budget
       \/ ~InDaemon(t) /\ Fault /\ GivenUp(t, "IO")
    /\ UNCHANGED <<request, cancelled, locks, reserved>>

-----------------------------------------------------------------------------
(* Giving back: cbm_project_lock_lease_release, again and again until done. *)

\* A native release does it, or fails at the unlock, at the close, or after it.
Released(f, t, k) ==
    \/ /\ f' = [f EXCEPT ![t][k] = "none"]
       /\ status' = [status EXCEPT ![t] = IF @ = "STUCK" THEN "IO" ELSE @]
       /\ UNCHANGED budget
    \/ /\ Fault
       /\ \E h \in {f[t][k], "open", "none"} : f' = [f EXCEPT ![t][k] = h]
       /\ status' = [status EXCEPT ![t] = IF f'[t][k] = "none" THEN "IO" ELSE "STUCK"]

\* While the project's lease is there, the set's is not touched.
SetMayGo(t, k) == proj[t][k] = "none"

ReleaseProject(t) ==
    /\ phase[t] \in {"undo", "end"} /\ proj[t][Current(t)] # "none"
    /\ Released(proj, t, Current(t))
    /\ UNCHANGED <<phase, request, todo, held, cancelled, set, reserved>>

ReleaseSet(t) ==
    /\ phase[t] \in {"undo", "end"} /\ set[t][Current(t)] # "none"
    /\ SetMayGo(t, Current(t))
    /\ Released(set, t, Current(t))
    /\ UNCHANGED <<phase, request, todo, held, cancelled, proj, reserved>>

\* The attempt is undone: once more, or the reservation goes and begin fails.
Undone(t) ==
    /\ phase[t] = "undo" /\ ~Owns(t, Current(t))
    /\ \/ /\ status[t] = "BUSY" /\ ~once[t] /\ ~Stops(t)
          /\ Goto(t, "set") /\ UNCHANGED <<todo, reserved>>
       \/ /\ status[t] # "BUSY" \/ once[t] \/ Stops(t)
          /\ Refuse(t) /\ reserved' = reserved \ {<<t, Current(t)>>}
    /\ UNCHANGED <<request, held, cancelled, status, locks, budget>>

\* The operation is over, or gives up what it has.
Finish(t) ==
    /\ phase[t] = "mutating"
    /\ Goto(t, "end")
    /\ UNCHANGED <<request, todo, held, cancelled, status, locks, reserved, budget>>

\* Mutant: the reservation goes before the lease.
ReservationMayGoEarly(t) == TRUE
ReservationMayGo(t) == ~Owns(t, Current(t))

\* cbm_daemon_application_project_mutation_end, main_local_cli_mutation_end.
Ended(t) ==
    /\ phase[t] = "end" /\ ReservationMayGo(t)
    /\ reserved' = reserved \ {<<t, Current(t)>>}
    /\ held' = [held EXCEPT ![t] = Front(@)]
    /\ Goto(t, IF Len(held[t]) = 1 THEN "idle" ELSE "end")
    /\ UNCHANGED <<request, todo, cancelled, status, locks, budget>>

-----------------------------------------------------------------------------
(* Cancellation, and processes that end. *)

Cancel(t) ==
    /\ phase[t] \notin {"idle", "dead"} /\ ~cancelled[t]
    /\ budget.cancels > 0 /\ budget' = [budget EXCEPT !.cancels = @ - 1]
    /\ cancelled' = [cancelled EXCEPT ![t] = TRUE]
    /\ UNCHANGED <<phase, request, todo, held, status, locks, reserved>>

Die(p) ==
    /\ phase' = [t \in Thread |-> IF Home[t] = p THEN "dead" ELSE phase[t]]
    /\ reserved' = {r \in reserved : Home[r[1]] # p}
    /\ UNCHANGED <<request, todo, held, cancelled, status, locks>>

Crash(p) ==
    /\ \E t \in Thread : Home[t] = p /\ phase[t] # "dead"
    /\ budget.crashes > 0 /\ budget' = [budget EXCEPT !.crashes = @ - 1]
    /\ Die(p)

\* Five seconds of failing releases: the process ends itself.
FailStop(t) ==
    /\ phase[t] \in {"undo", "end"} /\ status[t] = "STUCK" /\ Owns(t, Current(t))
    /\ Die(Home[t]) /\ UNCHANGED budget

\* The kernel closes the handles of a dead process in any order.
KernelCloses(t, k) ==
    /\ phase[t] = "dead"
    /\ \/ set[t][k] # "none" /\ set' = [set EXCEPT ![t][k] = "none"] /\ UNCHANGED proj
       \/ proj[t][k] # "none" /\ proj' = [proj EXCEPT ![t][k] = "none"] /\ UNCHANGED set
    /\ UNCHANGED <<phase, request, todo, held, cancelled, status, reserved, budget>>

\* Its successor starts with nothing.
Restart(p) ==
    /\ \A t \in Thread : Home[t] = p => phase[t] = "dead" /\ \A k \in Key : ~Owns(t, k)
    /\ \E t \in Thread : Home[t] = p
    /\ LET Reset(f, v) == [t \in Thread |-> IF Home[t] = p THEN v ELSE f[t]]
       IN  /\ phase' = Reset(phase, "idle") /\ want' = Reset(want, {})
           /\ todo' = Reset(todo, <<>>) /\ held' = Reset(held, <<>>)
    /\ UNCHANGED <<once, cancelled, status, locks, reserved, budget>>

\* Whoever waits asks again every millisecond, and begins the attempt anew when it
\* timed out with nothing to give back.
Again(t) == phase[t] \in {"set", "drain", "project"} /\ ~once[t] /\ UNCHANGED vars

\* Nothing is left to do.
Rest ==
    /\ \A t \in Thread : phase[t] = "idle" /\ budget.asks[t] = {}
    /\ UNCHANGED vars

-----------------------------------------------------------------------------
(* Specification. *)

\* What a thread does by itself, whatever the others do.
Step(t) ==
    \/ Reserve(t) \/ Busy(t) \/ Got(t) \/ Finish(t)
    \/ ReleaseProject(t) \/ ReleaseSet(t) \/ Undone(t) \/ Ended(t)

Take(t) == TakeSet(t) \/ TakeProject(t) \/ TakeTurn(t) \/ TakeAll(t)

Next ==
    \/ \E t \in Thread, S \in Requests, o \in BOOLEAN : Begin(t, S, o)
    \/ \E t \in Thread : Step(t) \/ Take(t) \/ Again(t)
    \/ \E t \in Thread : AcquireFails(t) \/ Cancel(t) \/ FailStop(t)
    \/ \E t \in Thread, k \in Key : KernelCloses(t, k)
    \/ \E p \in Process : Crash(p) \/ Restart(p)
    \/ Rest

Spec == Init /\ [][Next]_vars

\* Threads run and operations end.  A lock is polled every millisecond, so that one
\* that is free again and again is found so in the end.
FairSpec ==
    /\ Spec
    /\ \A t \in Thread :
        /\ WF_vars(Step(t))
        /\ SF_vars(TakeSet(t) \/ TakeTurn(t)) /\ SF_vars(TakeProject(t) \/ TakeAll(t))
        /\ WF_vars(\E k \in Key : KernelCloses(t, k))

-----------------------------------------------------------------------------
(* Properties. *)

Whole(t, k) == set[t][k] = "locked" /\ (k = Wild \/ proj[t][k] = "locked")

\* An operation that runs has the lock of each project it needs, under whatever
\* spelling, and the set's lock beside it.
MutationsOwn ==
    \A t \in Thread : phase[t] = "mutating" =>
        /\ \A n \in want[t] : \E i \in DOMAIN held[t] : Folded(held[t][i]) = Folded(n)
        /\ \A i \in DOMAIN held[t] : Whole(t, held[t][i])

\* No lease is lost: what a living thread owns is that of a key it holds or is
\* about to take or to give back.
NothingForgotten ==
    \A t \in Thread, k \in Key :
        phase[t] # "dead" /\ Owns(t, k) =>
            \/ \E i \in DOMAIN held[t] : held[t][i] = k
            \/ phase[t] \in {"set", "drain", "project", "got", "undo"} /\ Head(todo[t]) = k

\* The project's lock is there only under the set's: on every path, the failing ones
\* included, the set comes first and goes last.
SetOutlasts ==
    \A t \in Thread, k \in Key :
        phase[t] # "dead" /\ proj[t][k] # "none" => set[t][k] = "locked"

\* The daemon's reservation is there as long as anything of the native lease is.
ReservationOutlasts ==
    \A t \in Thread, k \in Key :
        phase[t] # "dead" /\ InDaemon(t) /\ Owns(t, k) => <<t, k>> \in reserved

\* Nobody waits in a circle: who waits for a project has only smaller ones.
OrderKept ==
    \A t \in Thread : phase[t] = "project" =>
        \A i \in DOMAIN held[t] : Rank[Fold[held[t][i]]] < Rank[Fold[Head(todo[t])]]

\* The leases of an operation, complete, ordered, nested and accounted for.
LeasesWhole ==
    MutationsOwn /\ NothingForgotten /\ SetOutlasts /\ ReservationOutlasts /\ OrderKept

\* Among processes too the leases are the gate that IndexJobs shows to be the daemon's:
\* who has a project has it alone, and who has "*" has all of them.
Leased == {o \in Thread \X Key : Whole(o[1], o[2])}
Mutating == {Folded(o[2]) : o \in Leased}
Gate == INSTANCE ProjectGate WITH indexing <- {}, mutating <- Mutating
ImplementsGate == Gate!Spec

\* Every operation gets its leases or is refused, and gives them back, although one
\* that has a share of the set and needs another may find a writer of "*" before it
\* that waits for the first: the writer's attempt ends and lets it pass.
OperationsEnd ==
    \A t \in Thread : phase[t] # "idle" ~> phase[t] \in {"idle", "dead"}
=============================================================================
