------------------------- MODULE ProjectLockProofs -------------------------
(***************************************************************************)
(* The project leases of ProjectLock, taken with the two locks of the      *)
(* registry by any number of threads in any number of processes, are the   *)
(* gate of ProjectGate.                                                    *)
(*                                                                         *)
(* The argument looks at who owns "locked" handles and at nothing else:    *)
(* the lock of the set is "locked" by one writer or by readers, that of a  *)
(* project by one thread, however its name is spelled.  A handle is made   *)
(* "locked" only where the guard of its lock was true; every other step,   *)
(* the failing releases and the dying processes included, leaves it as it  *)
(* is or makes it something else.                                          *)
(*                                                                         *)
(* The second part is about one thread at a time.  What it has taken and   *)
(* what it has still to take are its plan, in order (PlanShape), and what  *)
(* it owns of a key follows from where it is in its attempt (HandleShape,  *)
(* PhaseShape).  A plan is the sorted set of the chosen spellings: sorted  *)
(* by the order of the locks, with one spelling of each name; that sorting *)
(* gives such a sequence is proved first.                                  *)
(***************************************************************************)
EXTENDS ProjectLock, FiniteSetTheorems, SequenceTheorems, WellFoundedInduction, TLAPS

\* The values a handle can have.
HandlesOK ==
    /\ set \in [Thread -> [Key -> {"none", "turn", "locked", "open"}]]
    /\ proj \in [Thread -> [Key -> {"none", "locked", "open"}]]

SetExclusive ==
    \A t, u \in Thread, k \in Key :
        set[t][Wild] = "locked" /\ set[u][k] = "locked" => t = u /\ k = Wild

ProjectExclusive ==
    \A t, u \in Thread, m, n \in Name :
        proj[t][m] = "locked" /\ proj[u][n] = "locked" /\ Fold[m] = Fold[n] => t = u /\ m = n

IInv == HandlesOK /\ SetExclusive /\ ProjectExclusive

-----------------------------------------------------------------------------
(* What a step may do to the handles. *)

Elsewhere(t, k) ==
    \A u \in Thread, l \in Key :
        u # t \/ l # k => set'[u][l] = set[u][l] /\ proj'[u][l] = proj[u][l]

\* One thread's handles of one key become anything but "locked".
Loosened(t, k) ==
    /\ HandlesOK' /\ Elsewhere(t, k)
    /\ set'[t][k] = "locked" => set[t][k] = "locked"
    /\ proj'[t][k] = "locked" => proj[t][k] = "locked"

\* A handle of the set becomes "locked" where its lock may be taken.
SetLocked(t, k) ==
    /\ set' = [set EXCEPT ![t][k] = "locked"] /\ proj' = proj
    /\ k = Wild => AllGrantable(t)
    /\ k # Wild => SharedGrantable(t, k)

\* A handle of a project becomes "locked" where its lock may be taken.
ProjectLocked(t, k) ==
    /\ proj' = [proj EXCEPT ![t][k] = "locked"] /\ set' = set
    /\ ProjectGrantable(t, k)

Tame ==
    \/ UNCHANGED locks
    \/ \E t \in Thread, k \in Key : Loosened(t, k) \/ SetLocked(t, k) \/ ProjectLocked(t, k)

\* A handle that does not exist is not changed.
LEMMA NoSuchKey ==
    ASSUME NEW V, NEW f \in [Thread -> [Key -> V]], NEW t \in Thread, NEW k, k \notin Key, NEW v
    PROVE  [f EXCEPT ![t][k] = v] = f
<1>1. [f[t] EXCEPT ![k] = v] = f[t]
  OBVIOUS
<1> QED BY <1>1

LEMMA LoosenSet ==
    ASSUME HandlesOK, NEW t \in Thread, NEW k,
           NEW h \in {"none", "turn", "locked", "open"},
           k \in Key /\ h = "locked" => set[t][k] = "locked",
           set' = [set EXCEPT ![t][k] = h], proj' = proj
    PROVE  Tame
<1>1. CASE k \in Key
  <2>1. Loosened(t, k)
    BY <1>1 DEF Loosened, HandlesOK, Elsewhere
  <2> QED BY <2>1, <1>1 DEF Tame
<1>2. CASE k \notin Key
  BY <1>2, NoSuchKey DEF Tame, locks, HandlesOK
<1> QED BY <1>1, <1>2

LEMMA LoosenProject ==
    ASSUME HandlesOK, NEW t \in Thread, NEW k,
           NEW h \in {"none", "locked", "open"},
           k \in Key /\ h = "locked" => proj[t][k] = "locked",
           proj' = [proj EXCEPT ![t][k] = h], set' = set
    PROVE  Tame
<1>1. CASE k \in Key
  <2>1. Loosened(t, k)
    BY <1>1 DEF Loosened, HandlesOK, Elsewhere
  <2> QED BY <2>1, <1>1 DEF Tame
<1>2. CASE k \notin Key
  BY <1>2, NoSuchKey DEF Tame, locks, HandlesOK
<1> QED BY <1>1, <1>2

LEMMA LockSet ==
    ASSUME HandlesOK, NEW t \in Thread, NEW k,
           set' = [set EXCEPT ![t][k] = "locked"], proj' = proj,
           k = Wild => AllGrantable(t), k # Wild => SharedGrantable(t, k)
    PROVE  Tame
<1>1. CASE k \in Key
  BY <1>1 DEF Tame, SetLocked
<1>2. CASE k \notin Key
  BY <1>2, NoSuchKey DEF Tame, locks, HandlesOK
<1> QED BY <1>1, <1>2

LEMMA LockProject ==
    ASSUME HandlesOK, NEW t \in Thread, NEW k,
           proj' = [proj EXCEPT ![t][k] = "locked"], set' = set, ProjectGrantable(t, k)
    PROVE  Tame
<1>1. CASE k \in Key
  BY <1>1 DEF Tame, ProjectLocked
<1>2. CASE k \notin Key
  BY <1>2, NoSuchKey DEF Tame, locks, HandlesOK
<1> QED BY <1>1, <1>2

LEMMA FailureTame == ASSUME HandlesOK, NEW t \in Thread, AcquireFails(t) PROVE Tame
<1> DEFINE k == Head(todo[t])
<1> HIDE DEF k
<1>1. CASE phase[t] \in {"set", "drain"} /\ UNCHANGED proj
  <2>1. PICK h \in {"none", "open", "turn", "locked"} :
          /\ set' = [set EXCEPT ![t][k] = h]
          /\ h = "locked" => Available(t) /\ (phase[t] = "drain" <=> k = Wild)
    BY <1>1 DEF AcquireFails, k
  <2>2. CASE h = "locked"
    <3>1. (k = Wild => AllGrantable(t)) /\ (k # Wild => SharedGrantable(t, k))
      BY <1>1, <2>1, <2>2 DEF Available, k
    <3> QED BY <1>1, <2>1, <2>2, <3>1, LockSet
  <2>3. CASE h # "locked"
    BY <1>1, <2>1, <2>3, LoosenSet
  <2> QED BY <2>2, <2>3
<1>2. CASE phase[t] = "project" /\ UNCHANGED set
  <2>1. PICK h \in {"none", "open", "locked"} :
          proj' = [proj EXCEPT ![t][k] = h] /\ (h = "locked" => Available(t))
    BY <1>2 DEF AcquireFails, k
  <2>2. CASE h = "locked"
    <3>1. ProjectGrantable(t, k)
      BY <1>2, <2>1, <2>2 DEF Available, k
    <3> QED BY <1>2, <2>1, <2>2, <3>1, LockProject
  <2>3. CASE h # "locked"
    BY <1>2, <2>1, <2>3, LoosenProject
  <2> QED BY <2>2, <2>3
<1> QED BY <1>1, <1>2 DEF AcquireFails

LEMMA ReleaseTame ==
    ASSUME HandlesOK, NEW t \in Thread, ReleaseProject(t) \/ ReleaseSet(t)
    PROVE  Tame
<1> DEFINE k == Current(t)
<1> HIDE DEF k
<1>1. CASE ReleaseProject(t)
  <2>1. PICK h \in {"none", "open", proj[t][k]} : proj' = [proj EXCEPT ![t][k] = h]
    BY <1>1 DEF ReleaseProject, Released, k
  <2>2. set' = set
    BY <1>1 DEF ReleaseProject
  <2>3. CASE k \in Key
    <3>1. h \in {"none", "locked", "open"} /\ (h = "locked" => proj[t][k] = "locked")
      BY <2>1, <2>3 DEF HandlesOK
    <3> QED BY <2>1, <2>2, <3>1, LoosenProject
  <2>4. CASE k \notin Key
    BY <2>1, <2>2, <2>4, NoSuchKey DEF HandlesOK, Tame, locks
  <2> QED BY <2>3, <2>4
<1>2. CASE ReleaseSet(t)
  <2>1. PICK h \in {"none", "open", set[t][k]} : set' = [set EXCEPT ![t][k] = h]
    BY <1>2 DEF ReleaseSet, Released, k
  <2>2. proj' = proj
    BY <1>2 DEF ReleaseSet
  <2>3. CASE k \in Key
    <3>1. h \in {"none", "turn", "locked", "open"} /\ (h = "locked" => set[t][k] = "locked")
      BY <2>1, <2>3 DEF HandlesOK
    <3> QED BY <2>1, <2>2, <3>1, LoosenSet
  <2>4. CASE k \notin Key
    BY <2>1, <2>2, <2>4, NoSuchKey DEF HandlesOK, Tame, locks
  <2> QED BY <2>3, <2>4
<1> QED BY <1>1, <1>2

LEMMA TakeTame == ASSUME HandlesOK, NEW t \in Thread, Take(t) PROVE Tame
<1> DEFINE k == Head(todo[t])
<1> HIDE DEF k
<1>1. CASE TakeSet(t)
  <2>1. set' = [set EXCEPT ![t][k] = "locked"] /\ proj' = proj
    BY <1>1 DEF TakeSet, k
  <2>2. (k = Wild => AllGrantable(t)) /\ (k # Wild => SharedGrantable(t, k))
    BY <1>1 DEF TakeSet, k
  <2> QED BY <2>1, <2>2, LockSet
<1>2. CASE TakeProject(t)
  <2>1. /\ proj' = [proj EXCEPT ![t][k] = "locked"] /\ set' = set
        /\ ProjectGrantable(t, k)
    BY <1>2 DEF TakeProject, k
  <2> QED BY <2>1, LockProject
<1>3. CASE TakeTurn(t)
  BY <1>3, LoosenSet DEF TakeTurn
<1>4. CASE TakeAll(t)
  BY <1>4, LockSet DEF TakeAll
<1> QED BY <1>1, <1>2, <1>3, <1>4 DEF Take

LEMMA KernelTame ==
    ASSUME HandlesOK, NEW t \in Thread, NEW k \in Key, KernelCloses(t, k)
    PROVE  Tame
<1>1. CASE set' = [set EXCEPT ![t][k] = "none"] /\ UNCHANGED proj
  BY <1>1, LoosenSet
<1>2. CASE proj' = [proj EXCEPT ![t][k] = "none"] /\ UNCHANGED set
  BY <1>2, LoosenProject
<1> QED BY <1>1, <1>2 DEF KernelCloses

\* Every step is tame.
LEMMA StepTame == ASSUME HandlesOK, [Next]_vars PROVE Tame
<1>1. ASSUME NEW t \in Thread, Step(t) PROVE Tame
  <2>1. CASE ReleaseProject(t) \/ ReleaseSet(t)
    BY <2>1, ReleaseTame
  <2>2. CASE Reserve(t) \/ Busy(t) \/ Got(t) \/ Finish(t) \/ Undone(t) \/ Ended(t)
    BY <2>2 DEF Reserve, Busy, Got, Finish, Undone, Ended, Tame
  <2> QED BY <1>1, <2>1, <2>2 DEF Step
<1>2. ASSUME NEW t \in Thread, Cancel(t) \/ FailStop(t) \/ Again(t) PROVE Tame
  BY <1>2 DEF Cancel, FailStop, Again, Die, Tame, vars
<1>3. ASSUME NEW p \in Process, Crash(p) \/ Restart(p) PROVE Tame
  BY <1>3 DEF Crash, Restart, Die, Tame
<1>4. ASSUME NEW t \in Thread, NEW S \in Requests, NEW o \in BOOLEAN, Begin(t, S, o) PROVE Tame
  BY <1>4 DEF Begin, Tame
<1>5. CASE Rest \/ UNCHANGED vars
  BY <1>5 DEF Rest, vars, Tame
<1> QED BY <1>1, <1>2, <1>3, <1>4, <1>5, TakeTame, FailureTame, KernelTame DEF Next

-----------------------------------------------------------------------------
(* A tame step keeps who owns what, and is a step of the gate. *)

LEMMA TypedTame == ASSUME HandlesOK, Tame PROVE HandlesOK'
<1>1. CASE UNCHANGED locks
  BY <1>1 DEF HandlesOK, locks
<1>2. ASSUME NEW t \in Thread, NEW k \in Key, SetLocked(t, k) PROVE HandlesOK'
  BY <1>2 DEF HandlesOK, SetLocked
<1>3. ASSUME NEW t \in Thread, NEW k \in Key, ProjectLocked(t, k) PROVE HandlesOK'
  BY <1>3 DEF HandlesOK, ProjectLocked
<1> QED BY <1>1, <1>2, <1>3 DEF Tame, Loosened

LEMMA WildIsAKey == Wild \in Key /\ Wild \notin Name /\ Name \subseteq Key
BY NameAssumption DEF Key

\* What the guards say of any other thread's handle.
LEMMA SharedMeans ==
    ASSUME NEW t \in Thread, NEW k, k # Wild, SharedGrantable(t, k), NEW u \in Thread
    PROVE  set[u][Wild] # "locked"
<1> DEFINE o == <<u, Wild>>
<1>1. o \in Others(t, k) /\ o[1] = u /\ o[2] = Wild
  BY WildIsAKey DEF Others
<1> HIDE DEF o
<1> QED BY <1>1 DEF SharedGrantable

LEMMA AllMeans ==
    ASSUME NEW t \in Thread, AllGrantable(t), NEW u \in Thread, NEW l \in Key,
           u # t \/ l # Wild
    PROVE  set[u][l] # "locked"
<1> DEFINE o == <<u, l>>
<1>1. o \in Others(t, Wild) /\ o[1] = u /\ o[2] = l
  BY DEF Others
<1> HIDE DEF o
<1> QED BY <1>1 DEF AllGrantable

LEMMA ProjectMeans ==
    ASSUME NEW t \in Thread, NEW k, ProjectGrantable(t, k), NEW u \in Thread,
           NEW n \in Name, u # t \/ n # k, Fold[n] = Fold[k]
    PROVE  proj[u][n] # "locked"
<1> DEFINE o == <<u, n>>
<1>1. o \in Others(t, k) /\ o[1] = u /\ o[2] = n /\ o[2] # Wild
  BY WildIsAKey DEF Others
<1> HIDE DEF o
<1> QED BY <1>1 DEF ProjectGrantable

LEMMA InvTame == ASSUME IInv, Tame PROVE IInv'
<1> USE DEF IInv
<1>0. HandlesOK'
  BY TypedTame
<1>1. CASE UNCHANGED locks
  BY <1>0, <1>1 DEF locks, SetExclusive, ProjectExclusive
<1>2. ASSUME NEW t \in Thread, NEW k \in Key, Loosened(t, k) PROVE IInv'
  <2>1. \A u \in Thread, l \in Key :
           /\ set'[u][l] = "locked" => set[u][l] = "locked"
           /\ proj'[u][l] = "locked" => proj[u][l] = "locked"
    BY <1>2 DEF Loosened, Elsewhere
  <2> QED BY <1>0, <2>1, WildIsAKey DEF SetExclusive, ProjectExclusive
<1>3. ASSUME NEW t \in Thread, NEW k \in Key, SetLocked(t, k) PROVE IInv'
  <2>1. /\ \A u \in Thread, l \in Key : u # t \/ l # k => set'[u][l] = set[u][l]
        /\ proj' = proj
    BY <1>3 DEF SetLocked, HandlesOK
  <2>2. SetExclusive'
    <3>1. CASE k = Wild
      <4>1. \A u \in Thread, l \in Key : u # t \/ l # k => set[u][l] # "locked"
        BY <1>3, <3>1, AllMeans DEF SetLocked
      <4> QED BY <2>1, <3>1, <4>1, WildIsAKey DEF SetExclusive
    <3>2. CASE k # Wild
      <4>1. \A u \in Thread : set[u][Wild] # "locked"
        BY <1>3, <3>2, SharedMeans DEF SetLocked
      <4> QED BY <2>1, <3>2, <4>1, WildIsAKey DEF SetExclusive
    <3> QED BY <3>1, <3>2
  <2>3. ProjectExclusive'
    BY <2>1 DEF ProjectExclusive
  <2> QED BY <1>0, <2>2, <2>3
<1>4. ASSUME NEW t \in Thread, NEW k \in Key, ProjectLocked(t, k) PROVE IInv'
  <2>1. /\ \A u \in Thread, l \in Key : u # t \/ l # k => proj'[u][l] = proj[u][l]
        /\ set' = set
    BY <1>4 DEF ProjectLocked, HandlesOK
  <2>2. SetExclusive'
    BY <2>1 DEF SetExclusive
  <2>3. \A u \in Thread, l \in Name :
           u # t \/ l # k => (Fold[l] = Fold[k] => proj[u][l] # "locked")
    BY <1>4, ProjectMeans DEF ProjectLocked
  <2>4. ProjectExclusive'
    BY <2>1, <2>3, WildIsAKey DEF ProjectExclusive
  <2> QED BY <1>0, <2>2, <2>4
<1> QED BY <1>1, <1>2, <1>3, <1>4 DEF Tame

GateStep == [Gate!Next]_<<{}, Mutating>>

LEMMA FoldedKeys ==
    /\ \A k \in Key : Folded(k) \in Project \cup {Wild}
    /\ \A k \in Key : Folded(k) = Wild <=> k = Wild
    /\ \A m, n \in Name : Folded(m) = Folded(n) <=> Fold[m] = Fold[n]
BY NameAssumption DEF Key, Folded

\* Two leases of one project are one lease.
LEMMA OneLease ==
    ASSUME IInv, NEW o \in Leased, NEW q \in Leased, Folded(o[2]) = Folded(q[2])
    PROVE  o = q
<1>1. o \in Thread \X Key /\ q \in Thread \X Key /\ Whole(o[1], o[2]) /\ Whole(q[1], q[2])
  BY DEF Leased
<1>2. CASE o[2] = Wild
  <2>1. q[2] = Wild
    BY <1>1, <1>2, FoldedKeys
  <2> QED BY <1>1, <1>2, <2>1 DEF IInv, SetExclusive, Whole
<1>3. CASE o[2] # Wild
  <2>1. o[2] \in Name /\ q[2] \in Name
    BY <1>1, <1>3, FoldedKeys DEF Key
  <2> QED BY <1>1, <2>1, FoldedKeys, WildIsAKey DEF IInv, ProjectExclusive, Whole
<1> QED BY <1>2, <1>3

\* A lease begins that conflicts with no other.
LEMMA GateOpens ==
    ASSUME NEW t \in Thread, NEW k \in Key, Leased' = Leased \cup {<<t, k>>},
           \A o \in Leased : ~Gate!Conflict(Folded(k), Folded(o[2]))
    PROVE  GateStep
<1>1. Mutating' = Mutating \cup {Folded(k)}
  <2>1. Mutating' = {Folded(o[2]) : o \in Leased'}
    BY DEF Mutating, Folded
  <2>2. <<t, k>>[2] = k
    OBVIOUS
  <2>3. {Folded(o[2]) : o \in Leased \cup {<<t, k>>}} = {Folded(o[2]) : o \in Leased} \cup {Folded(k)}
    BY <2>2
  <2> QED BY <2>1, <2>3 DEF Mutating
<1>2. Gate!StartMutation(Folded(k))
  BY <1>1 DEF Gate!StartMutation, Mutating, Leased
<1> QED BY <1>2, FoldedKeys DEF GateStep, Gate!Next

\* A lease ends.
LEMMA GateCloses ==
    ASSUME IInv, NEW t \in Thread, NEW k \in Key, <<t, k>> \in Leased,
           Leased' = Leased \ {<<t, k>>}
    PROVE  GateStep
<1>1. \A o \in Leased : Folded(o[2]) = Folded(k) => o = <<t, k>>
  BY OneLease
<1>2. Mutating' = Mutating \ {Folded(k)} /\ Folded(k) \in Mutating
  BY <1>1 DEF Mutating
<1>3. Gate!EndMutation(Folded(k))
  BY <1>2 DEF Gate!EndMutation, Mutating, Leased
<1> QED BY <1>3, FoldedKeys DEF GateStep, Gate!Next

LEMMA GateTame == ASSUME IInv, Tame PROVE GateStep
<1>0. ASSUME Leased' = Leased PROVE GateStep
  BY <1>0 DEF GateStep, Mutating
<1>1. CASE UNCHANGED locks
  BY <1>0, <1>1 DEF locks, Leased, Whole
<1>2. ASSUME NEW t \in Thread, NEW k \in Key, Loosened(t, k) PROVE GateStep
  <2>1. \A u \in Thread, l \in Key : u # t \/ l # k => (Whole(u, l)' <=> Whole(u, l))
    BY <1>2 DEF Loosened, Elsewhere, Whole
  <2>2. Whole(t, k)' => Whole(t, k)
    BY <1>2 DEF Loosened, Whole
  <2>3. CASE Whole(t, k) /\ ~Whole(t, k)'
    <3>1. Leased' = Leased \ {<<t, k>>} /\ <<t, k>> \in Leased
      BY <2>1, <2>3 DEF Leased
    <3> QED BY <3>1, GateCloses
  <2>4. CASE Whole(t, k)' <=> Whole(t, k)
    <3>1. Leased' = Leased
      BY <2>1, <2>4 DEF Leased
    <3> QED BY <3>1, <1>0
  <2> QED BY <2>2, <2>3, <2>4
<1>3. ASSUME NEW t \in Thread, NEW k \in Key, SetLocked(t, k) \/ ProjectLocked(t, k)
      PROVE  GateStep
  <2>1. \A u \in Thread, l \in Key : u # t \/ l # k => (Whole(u, l)' <=> Whole(u, l))
    BY <1>3 DEF SetLocked, ProjectLocked, Whole, IInv, HandlesOK
  <2>2. CASE Whole(t, k)' /\ ~Whole(t, k)
    <3>1. Leased' = Leased \cup {<<t, k>>} /\ <<t, k>> \notin Leased
      BY <2>1, <2>2 DEF Leased
    <3>2. IInv'
      BY <1>3, InvTame DEF Tame
    <3>3. ASSUME NEW o \in Leased PROVE ~Gate!Conflict(Folded(k), Folded(o[2]))
      <4>1. o \in Thread \X Key /\ Whole(o[1], o[2])' /\ o # <<t, k>>
        BY <3>1, <3>3, <2>1 DEF Leased
      <4>2. k # Wild /\ o[2] # Wild
        BY <3>2, <2>2, <4>1 DEF IInv, SetExclusive, Whole
      <4>3. k \in Name /\ o[2] \in Name
        BY <4>1, <4>2 DEF Key
      <4>4. Fold[k] # Fold[o[2]]
        BY <3>2, <2>2, <4>1, <4>2, <4>3 DEF IInv, ProjectExclusive, Whole
      <4> QED BY <4>1, <4>2, <4>3, <4>4, FoldedKeys DEF Gate!Conflict
    <3> QED BY <3>1, <3>3, GateOpens
  <2>3. CASE Whole(t, k)' <=> Whole(t, k)
    <3>1. Leased' = Leased
      BY <2>1, <2>3 DEF Leased
    <3> QED BY <3>1, <1>0
  <2>4. Whole(t, k) => Whole(t, k)'
    BY <1>3 DEF SetLocked, ProjectLocked, Whole, IInv, HandlesOK
  <2> QED BY <2>2, <2>3, <2>4
<1> QED BY <1>1, <1>2, <1>3 DEF Tame

LEMMA InitInv == Init => IInv /\ Leased = {}
BY WildIsAKey DEF Init, IInv, HandlesOK, SetExclusive, ProjectExclusive, Leased, Whole, Key

\* The lock of the set has one writer or readers, and that of a project one owner, in
\* every reachable state.
THEOREM Invariance == Spec => []IInv
<1>1. IInv /\ [Next]_vars => IInv'
  BY StepTame, InvTame DEF IInv
<1> QED BY <1>1, InitInv, PTL DEF Spec

\* Whoever has a project's lease has it alone, and whoever has that of "*" has all.
THEOREM Refinement == Spec => ImplementsGate
<1>1. Init => Gate!Init
  BY InitInv DEF Gate!Init, Mutating
<1>2. IInv /\ [Next]_vars => GateStep
  BY StepTame, GateTame DEF IInv
<1> QED BY <1>1, <1>2, Invariance, PTL
        DEF Spec, ImplementsGate, Gate!Spec, GateStep

-----------------------------------------------------------------------------
(* The plan of an operation. *)

Increasing(s, n, key) == \A i, j \in 1..n : i < j => key[s[i]] < key[s[j]]

\* The place of an element is one more than the number of those before it.
LEMMA SortExists ==
    ASSUME NEW C, IsFiniteSet(C), NEW key,
           \A x \in C : key[x] \in Nat, \A x, y \in C : key[x] = key[y] => x = y
    PROVE  \E s \in [1..Cardinality(C) -> C] : Increasing(s, Cardinality(C), key)
<1> DEFINE n == Cardinality(C)
           Below(x) == {y \in C : key[y] < key[x]}
           place == [x \in C |-> Cardinality(Below(x)) + 1]
<1>1. n \in Nat
  BY FS_CardinalityType
<1>2. ASSUME NEW x \in C
      PROVE  /\ IsFiniteSet(Below(x)) /\ Cardinality(Below(x)) \in Nat
             /\ Cardinality(Below(x)) < n
  <2>1. Below(x) \in SUBSET C /\ x \notin Below(x)
    OBVIOUS
  <2>2. IsFiniteSet(Below(x)) /\ Cardinality(Below(x)) <= n /\ (n = Cardinality(Below(x)) => C = Below(x))
    BY <2>1, FS_Subset
  <2>3. Cardinality(Below(x)) \in Nat
    BY <2>2, FS_CardinalityType
  <2> QED BY <1>1, <2>1, <2>2, <2>3
<1>3. place \in [C -> 1..n] /\ \A x \in C : place[x] = Cardinality(Below(x)) + 1
  <2>1. ASSUME NEW x \in C PROVE Cardinality(Below(x)) + 1 \in 1..n
    <3>1. Cardinality(Below(x)) \in Nat /\ Cardinality(Below(x)) < n
      BY <1>2
    <3> HIDE DEF Below, n
    <3> QED BY <1>1, <3>1
  <2> HIDE DEF Below, n
  <2> QED BY <2>1
<1> HIDE DEF place
<1>4. ASSUME NEW x \in C, NEW y \in C, key[x] < key[y] PROVE place[x] < place[y]
  <2>1. Below(x) \in SUBSET Below(y) /\ x \in Below(y) /\ x \notin Below(x)
    BY <1>4
  <2>2. /\ Cardinality(Below(x)) <= Cardinality(Below(y))
        /\ Cardinality(Below(y)) = Cardinality(Below(x)) => Below(y) = Below(x)
    BY <1>2, <2>1, FS_Subset
  <2>3. Cardinality(Below(x)) \in Nat /\ Cardinality(Below(y)) \in Nat
    BY <1>2
  <2>4. place[x] = Cardinality(Below(x)) + 1 /\ place[y] = Cardinality(Below(y)) + 1
    BY <1>3
  <2>5. Cardinality(Below(x)) # Cardinality(Below(y))
    BY <2>1, <2>2
  <2> HIDE DEF Below
  <2> QED BY <2>2, <2>3, <2>4, <2>5
<1>5. place \in Injection(C, 1..n)
  <2>1. \A x, y \in C : place[x] = place[y] => x = y
    <3> SUFFICES ASSUME NEW x \in C, NEW y \in C, place[x] = place[y], x # y PROVE FALSE
      OBVIOUS
    <3>1. key[x] < key[y] \/ key[y] < key[x]
      OBVIOUS
    <3>2. place[x] \in 1..n /\ place[y] \in 1..n
      BY <1>3
    <3> QED BY <1>1, <1>4, <3>1, <3>2
  <2> QED BY <1>3, <2>1 DEF Injection, IsInjective
<1>6. IsFiniteSet(1..n) /\ Cardinality(1..n) = n
  BY <1>1, FS_Interval
<1>7. \A i \in 1..n : \E x \in C : place[x] = i
  <2>1. Cardinality(C) = Cardinality(1..n) /\ IsFiniteSet(1..n)
    BY <1>6
  <2>2. place \in Surjection(C, 1..n)
    BY <1>5, <2>1, FS_Injection
  <2> QED BY <2>2 DEF Surjection
<1> DEFINE s == [i \in 1..n |-> CHOOSE x \in C : place[x] = i]
<1>8. \A i \in 1..n : s[i] \in C /\ place[s[i]] = i
  BY <1>7
<1>9. s \in [1..n -> C]
  BY <1>8
<1> HIDE DEF s
<1>10. Increasing(s, n, key)
  BY <1>1, <1>4, <1>8 DEF Increasing
<1> QED BY <1>9, <1>10

\* What a sorted set is.
LEMMA Sorting ==
    ASSUME NEW C, IsFiniteSet(C), NEW key,
           \A x \in C : key[x] \in Nat, \A x, y \in C : key[x] = key[y] => x = y
    PROVE  LET n == Cardinality(C) s == Sorted(C, key)
           IN  /\ n \in Nat /\ s \in [1..n -> C] /\ Increasing(s, n, key)
               /\ \A x \in C : \E i \in 1..n : s[i] = x
<1> DEFINE n == Cardinality(C) s == Sorted(C, key)
<1>1. n \in Nat /\ s \in [1..n -> C] /\ Increasing(s, n, key)
  BY SortExists, FS_CardinalityType DEF Sorted, Increasing
<1>2. s \in Injection(1..n, C)
  BY <1>1 DEF Increasing, Injection, IsInjective
<1>3. IsFiniteSet(1..n) /\ Cardinality(1..n) = n
  BY <1>1, FS_Interval
<1> HIDE DEF s
<1>4. s \in Surjection(1..n, C)
  BY <1>2, <1>3, FS_Injection
<1> QED BY <1>1, <1>4 DEF Surjection, s

LEMMA SortingOne ==
    ASSUME NEW x, NEW key
    PROVE  Cardinality({x}) = 1 /\ Sorted({x}, key) \in [1..1 -> {x}]
<1>1. Cardinality({x}) = 1
  BY FS_Singleton
<1>2. \E s \in [1..1 -> {x}] : \A i, j \in 1..1 : i < j => key[s[i]] < key[s[j]]
  <2>1. [i \in 1..1 |-> x] \in [1..1 -> {x}]
    OBVIOUS
  <2>2. \A i, j \in 1..1 : ~(i < j)
    OBVIOUS
  <2> QED BY <2>1, <2>2
<1> QED BY <1>1, <1>2 DEF Sorted

\* One spelling is left of each name.
LEMMA ChosenOnes ==
    ASSUME NEW S, S \subseteq Name
    PROVE  /\ Chosen(S) \subseteq S
           /\ \A m, n \in Chosen(S) : Fold[m] = Fold[n] => m = n
           /\ \A n \in S : \E m \in Chosen(S) : Fold[m] = Fold[n]
<1>0. Chosen(S) = {n \in S : \A m \in S : Fold[m] = Fold[n] => Raw[n] <= Raw[m]}
  BY NameAssumption DEF Chosen
<1>1. \A m, n \in Chosen(S) : Fold[m] = Fold[n] => m = n
  <2> SUFFICES ASSUME NEW m \in Chosen(S), NEW n \in Chosen(S), Fold[m] = Fold[n] PROVE m = n
    OBVIOUS
  <2>1. Raw[n] <= Raw[m] /\ Raw[m] <= Raw[n] /\ m \in Name /\ n \in Name
    BY <1>0
  <2>2. Raw[m] \in Nat /\ Raw[n] \in Nat
    BY <2>1, NameAssumption
  <2> QED BY <2>1, <2>2, NameAssumption
<1>2. ASSUME NEW n \in S PROVE \E m \in Chosen(S) : Fold[m] = Fold[n]
  <2> DEFINE T == {Raw[m] : m \in {l \in S : Fold[l] = Fold[n]}}
  <2>1. T \subseteq Nat /\ T # {}
    BY NameAssumption
  <2>2. PICK x \in T : \A y \in T : ~(<<y, x>> \in OpToRel(<, Nat))
    BY <2>1, NatLessThanWellFounded, WFMin
  <2>3. \A y \in T : x <= y
    <3> SUFFICES ASSUME NEW y \in T, ~(x <= y) PROVE FALSE
      OBVIOUS
    <3>1. y < x /\ y \in Nat /\ x \in Nat
      BY <2>1
    <3>2. <<y, x>> \in OpToRel(<, Nat)
      BY <3>1 DEF OpToRel
    <3> QED BY <2>2, <3>2
  <2>4. PICK m \in S : Fold[m] = Fold[n] /\ Raw[m] = x
    OBVIOUS
  <2> QED BY <1>0, <2>3, <2>4
<1> QED BY <1>0, <1>1, <1>2

\* The keys of an operation: all that it needs, in the order of their locks.
LEMMA Plans ==
    ASSUME NEW S \in Requests
    PROVE  /\ LeaseKeys[S] \in Seq(Key) /\ Len(LeaseKeys[S]) > 0
           /\ \A n \in S : \E i \in 1..Len(LeaseKeys[S]) : Folded(LeaseKeys[S][i]) = Folded(n)
           /\ \A i, j \in 1..Len(LeaseKeys[S]) : LeaseKeys[S][i] = LeaseKeys[S][j] => i = j
           /\ \A i, j \in 1..Len(LeaseKeys[S]) : i < j =>
                /\ LeaseKeys[S][i] # Wild /\ LeaseKeys[S][j] # Wild
                /\ Rank[Fold[LeaseKeys[S][i]]] < Rank[Fold[LeaseKeys[S][j]]]
<1> DEFINE C == Chosen(S) key == [n \in Name |-> Rank[Fold[n]]] s == Sorted(C, key)
           n == Cardinality(C)
<1>0. LeaseKeys[S] = s
  BY DEF LeaseKeys
<1>1. CASE S = {Wild}
  <2>1. C = {Wild}
    BY <1>1 DEF Chosen
  <2>2. s \in [1..1 -> {Wild}]
    BY <2>1, SortingOne
  <2> HIDE DEF s
  <2>3. s \in [1..1 -> Key] /\ s[1] = Wild
    BY <2>2 DEF Key
  <2>4. s \in Seq(Key) /\ Len(s) = 1
    <3>1. PICK k \in Nat : k = 1
      OBVIOUS
    <3>2. s \in [1..k -> Key]
      BY <2>3, <3>1
    <3>3. s \in Seq(Key) /\ Len(s) = k
      BY ONLY <3>1, <3>2
    <3> QED BY <3>1, <3>3
  <2> QED BY <1>0, <1>1, <2>3, <2>4
<1>2. CASE S \subseteq Name
  <2>1. S # {} /\ IsFiniteSet(S)
    BY RequestAssumption
  <2>2. C \subseteq S /\ IsFiniteSet(C) /\ C # {}
    BY <1>2, <2>1, ChosenOnes, FS_Subset
  <2>3. /\ \A x \in C : key[x] \in Nat /\ key[x] = Rank[Fold[x]]
        /\ \A x, y \in C : key[x] = key[y] => x = y
    <3>1. \A x \in C : x \in Name /\ Fold[x] \in Project /\ Rank[Fold[x]] \in Nat
      BY <1>2, <2>2, NameAssumption
    <3>2. \A x, y \in C : Rank[Fold[x]] = Rank[Fold[y]] => Fold[x] = Fold[y]
      BY <3>1, NameAssumption
    <3> QED BY <1>2, <3>1, <3>2, ChosenOnes
  <2> HIDE DEF C, key
  <2>4. /\ n \in Nat /\ s \in [1..n -> C] /\ Increasing(s, n, key)
        /\ \A x \in C : \E i \in 1..n : s[i] = x
    BY <2>2, <2>3, Sorting
  <2> HIDE DEF s, n
  <2>5. Len(s) = n /\ \A i \in 1..n : s[i] \in C /\ s[i] \in Name /\ s[i] # Wild
    BY <1>2, <2>2, <2>4, NameAssumption
  <2>6. s \in Seq(Key) /\ n > 0
    BY <2>2, <2>4, <2>5 DEF Key
  <2>7. \A i, j \in 1..n : i < j => key[s[i]] < key[s[j]]
    BY <2>4 DEF Increasing
  <2>8. \A i, j \in 1..n : i < j => Rank[Fold[s[i]]] < Rank[Fold[s[j]]]
    BY <2>3, <2>5, <2>7
  <2>9. \A i, j \in 1..n : s[i] = s[j] => i = j
    <3> SUFFICES ASSUME NEW i \in 1..n, NEW j \in 1..n, s[i] = s[j], i < j PROVE FALSE
      BY <2>4
    <3>1. key[s[i]] < key[s[j]] /\ key[s[i]] \in Nat
      BY <2>3, <2>5, <2>7
    <3> QED BY <3>1
  <2>10. \A m \in S : \E i \in 1..n : Folded(s[i]) = Folded(m)
    <3> SUFFICES ASSUME NEW m \in S PROVE \E i \in 1..n : Folded(s[i]) = Folded(m)
      OBVIOUS
    <3>1. PICK x \in C : Fold[x] = Fold[m]
      BY <1>2, ChosenOnes DEF C
    <3>2. PICK i \in 1..n : s[i] = x
      BY <2>4
    <3> QED BY <1>2, <2>2, <3>1, <3>2, NameAssumption DEF Folded
  <2> QED BY <1>0, <2>5, <2>6, <2>8, <2>9, <2>10
<1> QED BY <1>1, <1>2, RequestAssumption

-----------------------------------------------------------------------------
(* The inductive invariant of the leases. *)

\* A thread that is taking a key.
Trying == {"reserve", "set", "drain", "project", "got", "undo"}
Plan(t) == LeaseKeys[want[t]]

\* What a thread has and what it has still to take are its plan, in this order.
PlanShape(t) ==
    /\ phase[t] = "idle" => held[t] = <<>>
    /\ phase[t] \notin {"idle", "dead"} =>
        /\ want[t] \in Requests
        /\ phase[t] \in Trying <=> todo[t] # <<>>
        /\ Len(held[t]) + Len(todo[t]) <= Len(Plan(t))
        /\ \A i \in 1..Len(held[t]) : held[t][i] = Plan(t)[i]
        /\ \A i \in 1..Len(todo[t]) : todo[t][i] = Plan(t)[Len(held[t]) + i]
        /\ phase[t] = "end" => held[t] # <<>>
        /\ phase[t] # "end" => Len(held[t]) + Len(todo[t]) = Len(Plan(t))

\* A key that a thread has or is about to take or to give back.
Near(t, k) ==
    \/ \E i \in 1..Len(held[t]) : held[t][i] = k
    \/ phase[t] \in Trying /\ Head(todo[t]) = k

\* What is owned is near and reserved, the set's lock outlasts the project's, and what is
\* had is whole but for the key that is being given back.
HandleShape(t) == phase[t] # "dead" =>
    /\ \A k \in Key :
        /\ Owns(t, k) => Near(t, k) /\ (InDaemon(t) => <<t, k>> \in reserved)
        /\ proj[t][k] # "none" => k # Wild /\ set[t][k] = "locked"
    /\ \A i \in 1..Len(held[t]) : phase[t] # "end" \/ i < Len(held[t]) => Whole(t, held[t][i])

\* What the place in the attempt says of the key at hand.
PhaseShape(t) ==
    LET k == Head(todo[t])
    IN  /\ phase[t] \in {"reserve", "set"} => ~Owns(t, k)
        /\ phase[t] \in Trying \ {"reserve"} /\ InDaemon(t) => <<t, k>> \in reserved
        /\ phase[t] = "drain" => k = Wild
        /\ phase[t] = "project" => k # Wild /\ set[t][k] = "locked" /\ proj[t][k] = "none"
        /\ phase[t] = "got" => Whole(t, k)

ThreadOK(t) == PlanShape(t) /\ HandleShape(t) /\ PhaseShape(t)
PlanInv == TypeOK /\ \A t \in Thread : ThreadOK(t)


-----------------------------------------------------------------------------
(* What a step does to the other threads, and to the key at hand. *)

\* A thread that a step leaves alone.
Same(u) ==
    /\ phase'[u] = phase[u] /\ want'[u] = want[u]
    /\ todo'[u] = todo[u] /\ held'[u] = held[u]
    /\ set'[u] = set[u] /\ proj'[u] = proj[u]
    /\ \A k \in Key : <<u, k>> \in reserved => <<u, k>> \in reserved'

Alone(t) == \A u \in Thread : u # t => Same(u)

\* The sequences of a thread, without its plan.
LEMMA SeqTyped ==
    ASSUME TypeOK, NEW t \in Thread
    PROVE  /\ Len(held[t]) \in Nat /\ Len(todo[t]) \in Nat
           /\ \A i \in 1..Len(held[t]) : held[t][i] \in Key
           /\ todo[t] # <<>> => Head(todo[t]) \in Key /\ Len(todo[t]) > 0 /\ Head(todo[t]) = todo[t][1]
           /\ held[t] # <<>> => Len(held[t]) > 0
<1>1. held[t] \in Seq(Key) /\ todo[t] \in Seq(Key)
  BY DEF TypeOK
<1> QED BY <1>1

\* A thread that is left alone keeps its invariant.
LEMMA SameKeeps ==
    ASSUME TypeOK, NEW u \in Thread, ThreadOK(u), Same(u)
    PROVE  ThreadOK(u)'
<1>1. PlanShape(u)'
  BY DEF ThreadOK, Same, PlanShape, Plan
<1>2. \A k : (Near(u, k)' <=> Near(u, k)) /\ (Owns(u, k)' <=> Owns(u, k)) /\ (Whole(u, k)' <=> Whole(u, k))
  BY DEF Same, Near, Owns, Whole
<1>3. HandleShape(u)'
  BY <1>2 DEF ThreadOK, Same, HandleShape, InDaemon
<1>4. PhaseShape(u)'
  <2>1. phase[u] \in Trying => Head(todo[u]) \in Key
    BY SeqTyped DEF ThreadOK, PlanShape, Trying
  <2> QED BY <1>2, <2>1 DEF ThreadOK, Same, PhaseShape, InDaemon, Trying
<1> QED BY <1>1, <1>3, <1>4 DEF ThreadOK

LEMMA AloneKeeps ==
    ASSUME PlanInv, TypeOK', NEW t \in Thread, Alone(t), ThreadOK(t)'
    PROVE  PlanInv'
BY SameKeeps DEF PlanInv, Alone

\* The key a thread is about to take is not one that it has.
LEMMA NextKey ==
    ASSUME PlanInv, NEW t \in Thread, phase[t] \in Trying
    PROVE  LET k == Head(todo[t])
           IN  /\ k \in Key /\ k = Plan(t)[Len(held[t]) + 1] /\ Current(t) = k
               /\ Len(todo[t]) \in Nat \ {0} /\ Len(held[t]) \in Nat
               /\ Len(held[t]) + Len(todo[t]) = Len(Plan(t))
               /\ \A i \in 1..Len(held[t]) : held[t][i] # k /\ held[t][i] = Plan(t)[i]
<1> DEFINE L == Plan(t) h == Len(held[t]) k == Head(todo[t])
<1>1. TypeOK /\ PlanShape(t)
  BY DEF PlanInv, ThreadOK
<1>2. want[t] \in Requests /\ todo[t] # <<>> /\ h + Len(todo[t]) = Len(L)
  BY <1>1 DEF PlanShape, Trying
<1>3. h \in Nat /\ Len(todo[t]) \in Nat /\ Len(todo[t]) > 0 /\ k \in Key /\ k = todo[t][1]
  BY <1>1, <1>2, SeqTyped
<1>4. k = L[h + 1] /\ \A i \in 1..h : held[t][i] = L[i]
  <2>1. /\ \A i \in 1..h : held[t][i] = L[i]
        /\ \A i \in 1..Len(todo[t]) : todo[t][i] = L[h + i]
    BY <1>1 DEF PlanShape, Trying
  <2>2. 1 \in 1..Len(todo[t])
    BY <1>3
  <2> QED BY <1>3, <2>1, <2>2
<1>5. \A i, j \in 1..Len(L) : L[i] = L[j] => i = j
  BY <1>2, Plans DEF Plan
<1>6. Current(t) = k
  BY DEF Current, Trying
<1> HIDE DEF L, h, k
<1>7. h + 1 \in 1..Len(L) /\ \A i \in 1..h : i \in 1..Len(L) /\ i # h + 1
  BY <1>2, <1>3
<1>8. \A i \in 1..h : held[t][i] # k
  BY <1>4, <1>5, <1>7
<1>9. Len(todo[t]) \in Nat \ {0}
  BY <1>3
<1> QED BY <1>2, <1>3, <1>4, <1>6, <1>8, <1>9 DEF h, k, L

\* The key a thread gives back is the last that it has, and none before it.
LEMMA LastKey ==
    ASSUME PlanInv, NEW t \in Thread, phase[t] = "end"
    PROVE  LET h == Len(held[t])
           IN  /\ h \in Nat \ {0} /\ Current(t) = held[t][h] /\ held[t][h] \in Key
               /\ \A i \in 1..h : held[t][i] = held[t][h] => i = h
<1> DEFINE L == Plan(t) h == Len(held[t])
<1>1. TypeOK /\ PlanShape(t)
  BY DEF PlanInv, ThreadOK
<1>2. want[t] \in Requests /\ held[t] # <<>> /\ h + Len(todo[t]) <= Len(L) /\ todo[t] = <<>>
  BY <1>1 DEF PlanShape, Trying
<1>3. h \in Nat /\ h > 0 /\ held[t][h] \in Key
  BY <1>1, <1>2, SeqTyped
<1>4. \A i \in 1..h : held[t][i] = L[i]
  BY <1>1 DEF PlanShape
<1>5. \A i, j \in 1..Len(L) : L[i] = L[j] => i = j
  BY <1>2, Plans DEF Plan
<1>6. Current(t) = held[t][h]
  BY DEF Current, Last
<1>7. Len(todo[t]) = 0 /\ Len(L) \in Nat
  <2>1. L \in Seq(Key)
    BY <1>2, Plans DEF Plan
  <2> QED BY <1>2, <2>1
<1> HIDE DEF L, h
<1>8. \A i \in 1..h : i \in 1..Len(L)
  BY <1>2, <1>3, <1>7
<1>9. \A i \in 1..h : held[t][i] = held[t][h] => i = h
  BY <1>3, <1>4, <1>5, <1>8
<1> QED BY <1>3, <1>6, <1>9 DEF h

\* Only the handles of the key at hand change, and the thread goes on with the same plan.
AtHand(t, k) ==
    /\ want'[t] = want[t] /\ todo'[t] = todo[t] /\ held'[t] = held[t]
    /\ phase'[t] = phase[t] \/ (phase[t] \in Trying /\ phase'[t] \in Trying)
    /\ phase[t] \in Trying \cup {"end"}
    /\ \A l \in Key : l # k => set'[t][l] = set[t][l] /\ proj'[t][l] = proj[t][l]
    /\ \A l \in Key : <<t, l>> \in reserved => <<t, l>> \in reserved'
    /\ proj'[t][k] # "none" => k # Wild /\ set'[t][k] = "locked"
    /\ InDaemon(t) /\ (set'[t][k] # "none" \/ proj'[t][k] # "none") => <<t, k>> \in reserved'

LEMMA AtHandKeeps ==
    ASSUME PlanInv, NEW t \in Thread, NEW k, k = Current(t), AtHand(t, k), PhaseShape(t)'
    PROVE  ThreadOK(t)'
<1>1. TypeOK /\ PlanShape(t) /\ HandleShape(t)
  BY DEF PlanInv, ThreadOK
<1>2. PlanShape(t)'
  <2>1. /\ want'[t] = want[t] /\ todo'[t] = todo[t] /\ held'[t] = held[t]
        /\ phase'[t] = phase[t] \/ (phase[t] \in Trying /\ phase'[t] \in Trying)
    BY DEF AtHand
  <2>2. Plan(t)' = Plan(t)
    BY <2>1 DEF Plan
  <2> QED BY <1>1, <2>1, <2>2 DEF PlanShape, Trying
<1>3. HandleShape(t)'
  <2>1. k \in Key /\ Near(t, k) /\ phase[t] # "dead"
    <3>1. CASE phase[t] \in Trying
      BY <3>1, NextKey DEF Near, Trying
    <3>2. CASE phase[t] = "end"
      <4>1. LET h == Len(held[t]) IN h \in 1..h /\ k = held[t][h] /\ k \in Key
        BY <3>2, LastKey
      <4> QED BY <3>2, <4>1 DEF Near
    <3> QED BY <3>1, <3>2 DEF AtHand
  <2>2. \A l : Near(t, l)' <=> Near(t, l)
    BY DEF AtHand, Near, Trying
  <2>3. /\ \A l \in Key : l # k => set'[t][l] = set[t][l] /\ proj'[t][l] = proj[t][l]
        /\ \A l \in Key : <<t, l>> \in reserved => <<t, l>> \in reserved'
        /\ proj'[t][k] # "none" => k # Wild /\ set'[t][k] = "locked"
        /\ InDaemon(t) /\ Owns(t, k)' => <<t, k>> \in reserved'
    BY DEF AtHand, Owns
  <2>4. ASSUME NEW l \in Key
        PROVE  /\ Owns(t, l)' => Near(t, l)' /\ (InDaemon(t)' => <<t, l>> \in reserved')
               /\ proj'[t][l] # "none" => l # Wild /\ set'[t][l] = "locked"
    <3>1. CASE l = k
      BY <2>1, <2>2, <2>3, <3>1 DEF InDaemon
    <3>2. CASE l # k
      <4>1. Owns(t, l)' <=> Owns(t, l)
        BY <2>3, <3>2 DEF Owns
      <4> QED BY <1>1, <2>1, <2>2, <2>3, <3>2, <4>1 DEF HandleShape, InDaemon
    <3> QED BY <3>1, <3>2
  <2>5. ASSUME NEW i \in 1..Len(held[t]), phase'[t] # "end" \/ i < Len(held[t])
        PROVE  Whole(t, held[t][i])'
    <3>1. held[t][i] # k /\ held[t][i] \in Key
      <4>1. CASE phase[t] \in Trying
        <5>1. \A j \in 1..Len(held[t]) : held[t][j] # k
          BY <4>1, NextKey
        <5> QED BY <1>1, <5>1, SeqTyped
      <4>2. CASE phase[t] = "end"
        <5>1. phase'[t] = "end"
          BY <4>2 DEF AtHand, Trying
        <5>2. i # Len(held[t]) /\ k = held[t][Len(held[t])]
          BY <2>5, <4>2, <5>1, LastKey
        <5> QED BY <1>1, <4>2, <5>2, LastKey, SeqTyped
      <4> QED BY <4>1, <4>2 DEF AtHand
    <3>2. phase[t] # "end" \/ i < Len(held[t])
      BY <2>5 DEF AtHand, Trying
    <3>3. Whole(t, held[t][i])
      BY <1>1, <2>1, <3>2 DEF HandleShape
    <3>4. set'[t][held[t][i]] = set[t][held[t][i]] /\ proj'[t][held[t][i]] = proj[t][held[t][i]]
      BY <2>3, <3>1
    <3>5. held'[t] = held[t]
      BY DEF AtHand
    <3> QED BY <3>3, <3>4, <3>5 DEF Whole
  <2>6. held'[t] = held[t]
    BY DEF AtHand
  <2>7. \A i \in 1..Len(held'[t]) : phase'[t] # "end" \/ i < Len(held'[t]) => Whole(t, held[t][i])'
    BY <2>5, <2>6
  <2> QED BY <2>4, <2>6, <2>7 DEF HandleShape, Whole
<1> QED BY <1>2, <1>3 DEF ThreadOK


\* The key at hand is not owned, and what is had before it is given back.
LEMMA RefusalKeeps ==
    ASSUME PlanInv, NEW t \in Thread, phase[t] \in Trying, ~Owns(t, Head(todo[t])),
           todo'[t] = <<>>, phase'[t] = IF held[t] = <<>> THEN "idle" ELSE "end",
           held'[t] = held[t], want'[t] = want[t], set'[t] = set[t], proj'[t] = proj[t],
           \A k \in Key : k # Head(todo[t]) /\ <<t, k>> \in reserved => <<t, k>> \in reserved'
    PROVE  ThreadOK(t)'
<1>1. TypeOK /\ PlanShape(t) /\ HandleShape(t) /\ phase[t] \notin {"idle", "dead", "end"}
  BY DEF PlanInv, ThreadOK, Trying
<1>2. PlanShape(t)'
  <2>1. Plan(t)' = Plan(t) /\ Len(todo'[t]) = 0 /\ phase'[t] \notin Trying
    BY DEF Plan, Trying
  <2>2. /\ Len(held[t]) \in Nat /\ Len(todo[t]) \in Nat
        /\ Len(held[t]) + Len(todo[t]) = Len(Plan(t))
    BY NextKey
  <2>3. Len(held[t]) + 0 <= Len(Plan(t))
    <3>1. PICK h \in Nat, m \in Nat : h = Len(held[t]) /\ h + m = Len(Plan(t))
      BY <2>2
    <3>2. h + 0 <= h + m
      OBVIOUS
    <3> QED BY <3>1, <3>2
  <2>4. CASE held[t] = <<>>
    BY <2>4 DEF PlanShape
  <2>5. CASE held[t] # <<>>
    <3>1. phase'[t] = "end" /\ phase[t] \notin {"idle", "dead"}
      BY <1>1, <2>5
    <3>2. /\ want'[t] \in Requests
          /\ \A i \in 1..Len(held[t]) : held[t][i] = Plan(t)[i]
      BY <1>1 DEF PlanShape
    <3>3. \A i \in 1..Len(held[t])' : held'[t][i] = Plan(t)'[i]
      BY <2>1, <3>2
    <3>4. \A i : i \notin 1..Len(todo'[t])
      BY <2>1
    <3>5. Len(held'[t]) + Len(todo'[t]) <= Len(Plan(t)')
      BY <2>1, <2>3
    <3> QED BY <2>1, <2>5, <3>1, <3>2, <3>3, <3>4, <3>5 DEF PlanShape
  <2> QED BY <2>4, <2>5
<1>3. HandleShape(t)'
  <2>1. \A k : (Owns(t, k)' <=> Owns(t, k)) /\ (Whole(t, k)' <=> Whole(t, k))
    BY DEF Owns, Whole
  <2>2. \A k : Owns(t, k) /\ Near(t, k) => Near(t, k)' /\ k # Head(todo[t])
    BY DEF Near
  <2>3. \A i \in 1..Len(held[t]) : Whole(t, held[t][i])
    BY <1>1 DEF HandleShape
  <2>4. \A i \in 1..Len(held[t])' : Whole(t, held[t][i])'
    BY <2>3 DEF Whole
  <2> QED BY <1>1, <2>1, <2>2, <2>4 DEF HandleShape, InDaemon
<1>4. PhaseShape(t)'
  BY DEF PhaseShape, Trying
<1> QED BY <1>2, <1>3, <1>4 DEF ThreadOK

\* A thread that neither holds nor is about to take a key owns nothing.
LEMMA IdleOwnsNone ==
    ASSUME PlanInv, NEW t \in Thread, phase[t] = "idle", NEW k \in Key
    PROVE  ~Owns(t, k) /\ held[t] = <<>>
<1>1. held[t] = <<>> /\ (Owns(t, k) => Near(t, k))
  BY DEF PlanInv, ThreadOK, PlanShape, HandleShape
<1>2. Len(held[t]) = 0
  BY <1>1
<1>3. ~Near(t, k)
  BY <1>2 DEF Near, Trying
<1> QED BY <1>1, <1>3

LEMMA FaultTyped == ASSUME TypeOK, Fault PROVE budget' \in Budget
<1>1. budget.faults \in Nat /\ budget.faults - 1 \in Nat
  BY DEF TypeOK, Fault, Budget
<1> QED BY <1>1 DEF TypeOK, Fault, Budget

-----------------------------------------------------------------------------
(* The steps. *)

LEMMA BeginWhole ==
    ASSUME PlanInv, NEW t \in Thread, NEW S \in Requests, NEW o \in BOOLEAN, Begin(t, S, o)
    PROVE  PlanInv'
<1> DEFINE L == LeaseKeys[S]
<1>0. TypeOK /\ L \in Seq(Key) /\ Len(L) > 0 /\ L # <<>> /\ L[1] \in Key
  <2>1. L \in Seq(Key) /\ Len(L) > 0
    BY Plans
  <2> QED BY <2>1 DEF PlanInv
<1> HIDE DEF L
<1>1. TypeOK'
  <2>1. budget' \in Budget
    BY <1>0 DEF Begin, TypeOK, Budget
  <2>2. S \subseteq Key
    BY RequestAssumption DEF Key
  <2> QED BY <1>0, <2>1, <2>2 DEF Begin, TypeOK, Goto, Turns, Phase, locks, L
<1>2. Alone(t)
  BY <1>0 DEF Begin, Alone, Same, Goto, TypeOK, locks
<1>3. /\ want'[t] = S /\ todo'[t] = L /\ held'[t] = <<>> /\ set'[t] = set[t] /\ proj'[t] = proj[t]
      /\ phase'[t] \in {"reserve", "set"} /\ (InDaemon(t) => phase'[t] = "reserve")
  BY <1>0, IdleOwnsNone DEF Begin, Goto, Turns, TypeOK, locks, L
<1>4. \A k \in Key : ~Owns(t, k)'
  <2>1. \A k \in Key : ~Owns(t, k)
    BY IdleOwnsNone DEF Begin
  <2> QED BY <1>3, <2>1 DEF Owns
<1>5. ThreadOK(t)'
  <2>1. PlanShape(t)'
    <3>1. Plan(t)' = L
      BY <1>3 DEF Plan, L
    <3>2. Len(held'[t]) = 0 /\ Len(L) \in Nat
      BY <1>0, <1>3
    <3>3. \A i \in 1..Len(L) : 0 + i = i
      OBVIOUS
    <3> QED BY <1>0, <1>3, <3>1, <3>2, <3>3 DEF PlanShape, Trying
  <2>2. HandleShape(t)'
    <3>1. \A k \in Key : set'[t][k] = "none" /\ proj'[t][k] = "none"
      BY <1>4 DEF Owns
    <3> QED BY <1>3, <1>4, <3>1 DEF HandleShape
  <2>3. PhaseShape(t)'
    <3>1. Head(todo'[t]) \in Key
      BY <1>0, <1>3
    <3>2. set'[t][Head(todo'[t])] = "none" /\ proj'[t][Head(todo'[t])] = "none"
      BY <1>4, <3>1 DEF Owns
    <3> QED BY <1>3, <3>2 DEF PhaseShape, Trying, InDaemon, Owns
  <2> QED BY <2>1, <2>2, <2>3 DEF ThreadOK
<1> QED BY <1>1, <1>2, <1>5, AloneKeeps

LEMMA ReserveWhole == ASSUME PlanInv, NEW t \in Thread, Reserve(t) PROVE PlanInv'
<1>0. PICK k : k = Head(todo[t])
  OBVIOUS
<1>1. TypeOK /\ phase[t] = "reserve" /\ phase[t] \in Trying /\ ~Owns(t, k)
  BY <1>0 DEF PlanInv, ThreadOK, PhaseShape, Reserve, Trying
<1>2. k \in Key /\ Current(t) = k
  BY <1>0, <1>1, NextKey
<1>3. TypeOK' /\ Alone(t)
  <2>1. budget' \in Budget
    BY <1>1, FaultTyped DEF Reserve, TypeOK
  <2>2. reserved' \subseteq Thread \X Key /\ reserved \subseteq reserved'
    BY <1>0, <1>1, <1>2 DEF Reserve, TypeOK
  <2>3. /\ todo' \in [Thread -> Seq(Key)] /\ phase' \in [Thread -> Phase]
        /\ \A u \in Thread : u # t => todo'[u] = todo[u] /\ phase'[u] = phase[u]
    <3>1. \/ todo' = [todo EXCEPT ![t] = <<>>] \/ todo' = todo
      BY DEF Reserve, Refuse
    <3>2. \E l \in Phase : phase' = [phase EXCEPT ![t] = l]
      BY DEF Reserve, Refuse, Goto, Phase
    <3>3. todo' \in [Thread -> Seq(Key)] /\ \A u \in Thread : u # t => todo'[u] = todo[u]
      <4>1. <<>> \in Seq(Key) /\ todo \in [Thread -> Seq(Key)]
        BY <1>1 DEF TypeOK
      <4> QED BY <3>1, <4>1
    <3> QED BY <1>1, <3>2, <3>3 DEF TypeOK
  <2> QED BY <1>1, <2>1, <2>2, <2>3 DEF Reserve, TypeOK, Alone, Same, request, locks
<1>4. held' = held /\ want' = want /\ set' = set /\ proj' = proj
  BY DEF Reserve, request, locks
<1>5. CASE Refuse(t) /\ UNCHANGED reserved
  <2>1. todo'[t] = <<>> /\ phase'[t] = IF held[t] = <<>> THEN "idle" ELSE "end"
    BY <1>1, <1>5 DEF Refuse, Goto, TypeOK
  <2> QED BY <1>0, <1>1, <1>3, <1>4, <1>5, <2>1, RefusalKeeps, AloneKeeps
<1>6. CASE reserved' = reserved \cup {<<t, k>>} /\ Goto(t, "set") /\ UNCHANGED todo
  <2>1. phase'[t] = "set"
    BY <1>1, <1>6 DEF Goto, TypeOK
  <2>2. AtHand(t, k)
    BY <1>1, <1>4, <1>6, <2>1 DEF AtHand, Trying, Owns
  <2>3. PhaseShape(t)'
    BY <1>0, <1>1, <1>4, <1>6, <2>1 DEF PhaseShape, Owns
  <2> QED BY <1>2, <1>3, <2>2, <2>3, AtHandKeeps, AloneKeeps
<1> QED BY <1>0, <1>5, <1>6 DEF Reserve


\* The steps that change no more than the handles at hand and the place in the attempt.
AtHandOnly(t) ==
    /\ TypeOK' /\ Alone(t) /\ AtHand(t, Current(t)) /\ PhaseShape(t)'

LEMMA AtHandOnlyKeeps == ASSUME PlanInv, NEW t \in Thread, AtHandOnly(t) PROVE PlanInv'
<1>1. ThreadOK(t)'
  BY AtHandKeeps DEF AtHandOnly
<1> QED BY <1>1, AloneKeeps DEF AtHandOnly

\* One of the handles of a key becomes h.
LEMMA SetBecomes ==
    ASSUME TypeOK, NEW t \in Thread, NEW k \in Key, NEW h \in {"none", "turn", "locked", "open"},
           set' = [set EXCEPT ![t][k] = h], proj' = proj
    PROVE  /\ set' \in [Thread -> [Key -> {"none", "turn", "locked", "open"}]]
           /\ set'[t][k] = h /\ \A l \in Key : l # k => set'[t][l] = set[t][l]
           /\ \A u \in Thread : u # t => set'[u] = set[u]
BY DEF TypeOK

LEMMA ProjBecomes ==
    ASSUME TypeOK, NEW t \in Thread, NEW k \in Key, NEW h \in {"none", "locked", "open"},
           proj' = [proj EXCEPT ![t][k] = h], set' = set
    PROVE  /\ proj' \in [Thread -> [Key -> {"none", "locked", "open"}]]
           /\ proj'[t][k] = h /\ \A l \in Key : l # k => proj'[t][l] = proj[t][l]
           /\ \A u \in Thread : u # t => proj'[u] = proj[u]
BY DEF TypeOK

\* What is known of a thread that is taking a key.
LEMMA TakingKnown ==
    ASSUME PlanInv, NEW t \in Thread, phase[t] \in Trying \ {"reserve"}, NEW k, k = Head(todo[t])
    PROVE  /\ TypeOK /\ k \in Key /\ Current(t) = k /\ phase[t] \in Phase \ {"dead"}
           /\ InDaemon(t) => <<t, k>> \in reserved
           /\ proj[t][k] # "none" => k # Wild /\ set[t][k] = "locked"
           /\ phase[t] = "set" => set[t][k] = "none" /\ proj[t][k] = "none"
           /\ phase[t] = "drain" => k = Wild
           /\ phase[t] = "project" => k # Wild /\ set[t][k] = "locked" /\ proj[t][k] = "none"
           /\ phase[t] = "got" => Whole(t, k)
<1>1. k \in Key /\ Current(t) = k
  BY NextKey
<1>2. TypeOK /\ HandleShape(t) /\ PhaseShape(t)
  BY DEF PlanInv, ThreadOK
<1>3. phase[t] \in Phase \ {"dead"}
  BY DEF Trying, Phase
<1>4. proj[t][k] # "none" => k # Wild /\ set[t][k] = "locked"
  BY <1>1, <1>2, <1>3 DEF HandleShape
<1> QED BY <1>1, <1>2, <1>3, <1>4 DEF PhaseShape, Owns

\* An attempt goes on: what remains to be shown is what its new place says of the handles.
LEMMA AttemptGoesOn ==
    ASSUME PlanInv, NEW t \in Thread, phase[t] \in Trying \ {"reserve"}, NEW k, k = Head(todo[t]),
           NEW l \in Trying \ {"reserve"}, Goto(t, l),
           UNCHANGED <<request, todo, held, cancelled, reserved>>,
           status' \in [Thread -> {"OK", "BUSY", "IO", "STUCK"}], budget' \in Budget,
           \/ locks' = locks
           \/ \E h \in {"none", "turn", "locked", "open"} :
                set' = [set EXCEPT ![t][k] = h] /\ proj' = proj
           \/ \E h \in {"none", "locked", "open"} :
                proj' = [proj EXCEPT ![t][k] = h] /\ set' = set,
           proj'[t][k] # "none" => k # Wild /\ set'[t][k] = "locked",
           l = "set" => set'[t][k] = "none" /\ proj'[t][k] = "none",
           l = "drain" => k = Wild,
           l = "project" => k # Wild /\ set'[t][k] = "locked" /\ proj'[t][k] = "none",
           l = "got" => set'[t][k] = "locked" /\ (k = Wild \/ proj'[t][k] = "locked")
    PROVE  PlanInv'
<1>1. TypeOK /\ k \in Key /\ Current(t) = k /\ (InDaemon(t) => <<t, k>> \in reserved)
  BY TakingKnown
<1>2. /\ set' \in [Thread -> [Key -> {"none", "turn", "locked", "open"}]]
      /\ proj' \in [Thread -> [Key -> {"none", "locked", "open"}]]
      /\ \A m \in Key : m # k => set'[t][m] = set[t][m] /\ proj'[t][m] = proj[t][m]
      /\ \A u \in Thread : u # t => set'[u] = set[u] /\ proj'[u] = proj[u]
  <2>1. CASE locks' = locks
    BY <1>1, <2>1 DEF TypeOK, locks
  <2>2. CASE \E h \in {"none", "turn", "locked", "open"} :
                set' = [set EXCEPT ![t][k] = h] /\ proj' = proj
    BY <1>1, <2>2, SetBecomes DEF TypeOK
  <2>3. CASE \E h \in {"none", "locked", "open"} :
                proj' = [proj EXCEPT ![t][k] = h] /\ set' = set
    BY <1>1, <2>3, ProjBecomes DEF TypeOK
  <2> QED BY <2>1, <2>2, <2>3
<1>3. /\ phase' \in [Thread -> Phase] /\ phase'[t] = l
      /\ \A u \in Thread : u # t => phase'[u] = phase[u]
  BY <1>1 DEF Goto, TypeOK, Trying, Phase
<1>4. TypeOK' /\ Alone(t)
  BY <1>1, <1>2, <1>3 DEF TypeOK, Alone, Same, request
<1>5. AtHand(t, k)
  BY <1>1, <1>2, <1>3 DEF AtHand, request
<1>6. PhaseShape(t)'
  BY <1>1, <1>3 DEF PhaseShape, Owns, Whole, InDaemon
<1> QED BY <1>1, <1>4, <1>5, <1>6, AtHandOnlyKeeps DEF AtHandOnly

LEMMA StatusTyped ==
    ASSUME TypeOK, NEW t \in Thread, NEW v \in {"OK", "BUSY", "IO", "STUCK"},
           status' = [status EXCEPT ![t] = v]
    PROVE  status' \in [Thread -> {"OK", "BUSY", "IO", "STUCK"}]
BY DEF TypeOK

LEMMA TakeWhole == ASSUME PlanInv, NEW t \in Thread, Take(t) PROVE PlanInv'
<1>0. PICK k : k = Head(todo[t])
  OBVIOUS
<1>1. phase[t] \in Trying \ {"reserve"}
  BY DEF Take, TakeSet, TakeProject, TakeTurn, TakeAll, Trying
<1>2. /\ TypeOK /\ k \in Key
      /\ proj[t][k] # "none" => k # Wild /\ set[t][k] = "locked"
      /\ phase[t] = "set" => set[t][k] = "none" /\ proj[t][k] = "none"
      /\ phase[t] = "drain" => k = Wild
      /\ phase[t] = "project" => k # Wild /\ set[t][k] = "locked" /\ proj[t][k] = "none"
  BY <1>0, <1>1, TakingKnown
<1>3. /\ UNCHANGED <<request, todo, held, cancelled, reserved>>
      /\ status' \in [Thread -> {"OK", "BUSY", "IO", "STUCK"}] /\ budget' \in Budget
  BY <1>2 DEF Take, TakeSet, TakeProject, TakeTurn, TakeAll, TypeOK
<1>4. CASE TakeSet(t)
  <2>1. /\ set' = [set EXCEPT ![t][k] = "locked"] /\ proj' = proj /\ Goto(t, "project")
        /\ k # Wild /\ phase[t] = "set"
    BY <1>0, <1>4 DEF TakeSet
  <2>2. set'[t][k] = "locked"
    BY <1>2, <2>1, SetBecomes
  <2> QED BY <1>0, <1>1, <1>2, <1>3, <2>1, <2>2, AttemptGoesOn DEF Trying
<1>5. CASE TakeProject(t)
  <2>1. /\ proj' = [proj EXCEPT ![t][k] = "locked"] /\ set' = set /\ Goto(t, "got")
        /\ phase[t] = "project"
    BY <1>0, <1>5 DEF TakeProject
  <2>2. proj'[t][k] = "locked"
    BY <1>2, <2>1, ProjBecomes
  <2> QED BY <1>0, <1>1, <1>2, <1>3, <2>1, <2>2, AttemptGoesOn DEF Trying
<1>6. CASE TakeTurn(t)
  <2>1. /\ set' = [set EXCEPT ![t][k] = "turn"] /\ proj' = proj /\ Goto(t, "drain")
        /\ k = Wild /\ phase[t] = "set"
    BY <1>0, <1>6 DEF TakeTurn
  <2> QED BY <1>0, <1>1, <1>2, <1>3, <2>1, AttemptGoesOn DEF Trying
<1>7. CASE TakeAll(t)
  <2>1. /\ set' = [set EXCEPT ![t][k] = "locked"] /\ proj' = proj /\ Goto(t, "got")
        /\ k = Wild /\ phase[t] = "drain"
    BY <1>0, <1>2, <1>7 DEF TakeAll
  <2>2. set'[t][k] = "locked"
    BY <1>2, <2>1, SetBecomes
  <2> QED BY <1>0, <1>1, <1>2, <1>3, <2>1, <2>2, AttemptGoesOn DEF Trying
<1> QED BY <1>4, <1>5, <1>6, <1>7 DEF Take

LEMMA BusyWhole == ASSUME PlanInv, NEW t \in Thread, Busy(t) PROVE PlanInv'
<1>0. PICK k : k = Head(todo[t])
  OBVIOUS
<1>1. phase[t] \in Trying \ {"reserve"}
  BY DEF Busy, Trying
<1>2. TypeOK /\ (proj[t][k] # "none" => k # Wild /\ set[t][k] = "locked")
  BY <1>0, <1>1, TakingKnown
<1>3. status' \in [Thread -> {"OK", "BUSY", "IO", "STUCK"}] /\ budget' \in Budget
  BY <1>2, StatusTyped DEF Busy, TypeOK
<1>4. /\ Goto(t, "undo") /\ UNCHANGED <<request, todo, held, cancelled, reserved>>
      /\ locks' = locks /\ set' = set /\ proj' = proj
  BY DEF Busy, locks
<1> QED BY <1>0, <1>1, <1>2, <1>3, <1>4, AttemptGoesOn DEF Trying

LEMMA FailureWhole == ASSUME PlanInv, NEW t \in Thread, AcquireFails(t) PROVE PlanInv'
<1>0. PICK k : k = Head(todo[t])
  OBVIOUS
<1>1. phase[t] \in Trying \ {"reserve"}
  BY DEF AcquireFails, Trying
<1>2. /\ TypeOK /\ k \in Key
      /\ proj[t][k] # "none" => k # Wild /\ set[t][k] = "locked"
      /\ phase[t] = "set" => proj[t][k] = "none"
      /\ phase[t] = "drain" => k = Wild
      /\ phase[t] = "project" => k # Wild /\ set[t][k] = "locked" /\ proj[t][k] = "none"
  BY <1>0, <1>1, TakingKnown
<1>3. /\ status' \in [Thread -> {"OK", "BUSY", "IO", "STUCK"}] /\ budget' \in Budget
      /\ Goto(t, "undo") /\ UNCHANGED <<request, todo, held, cancelled, reserved>>
  BY <1>2, StatusTyped, FaultTyped DEF AcquireFails
<1>4. CASE phase[t] \in {"set", "drain"} /\ UNCHANGED proj
  <2>1. PICK h \in {"none", "turn", "locked", "open"} : set' = [set EXCEPT ![t][k] = h]
    BY <1>0, <1>4 DEF AcquireFails
  <2>2. proj'[t][k] = "none"
    BY <1>2, <1>4
  <2> QED BY <1>0, <1>1, <1>3, <1>4, <2>1, <2>2, AttemptGoesOn DEF Trying
<1>5. CASE phase[t] = "project" /\ UNCHANGED set
  <2>1. PICK h \in {"none", "locked", "open"} : proj' = [proj EXCEPT ![t][k] = h]
    BY <1>0, <1>5 DEF AcquireFails
  <2> QED BY <1>0, <1>1, <1>2, <1>3, <1>5, <2>1, AttemptGoesOn DEF Trying
<1> QED BY <1>4, <1>5 DEF AcquireFails


\* Nothing the invariant speaks of moves.
LEMMA NothingMoves ==
    ASSUME PlanInv, TypeOK', phase' = phase, request' = request, todo' = todo, held' = held,
           locks' = locks, reserved' = reserved
    PROVE  PlanInv'
<1>1. \A u \in Thread : Same(u)
  BY DEF Same, request, locks
<1> QED BY <1>1, SameKeeps DEF PlanInv

\* The next key is taken: it moves from what there is still to take to what is had.
LEMMA KeptWhole ==
    ASSUME PlanInv, NEW t \in Thread, phase[t] = "got", Kept(t),
           UNCHANGED <<request, cancelled, locks, reserved>>
    PROVE  PlanInv'
<1>0. PICK k : k = Head(todo[t])
  OBVIOUS
<1>1. phase[t] \in Trying \ {"reserve"}
  BY DEF Trying
<1>2. /\ TypeOK /\ k \in Key /\ (InDaemon(t) => <<t, k>> \in reserved) /\ Whole(t, k)
  BY <1>0, <1>1, TakingKnown
<1>3. PICK h \in Nat, m \in Nat :
        /\ m > 0 /\ h = Len(held[t]) /\ m = Len(todo[t]) /\ h + m = Len(Plan(t))
        /\ \A i \in 1..h : held[t][i] # k /\ held[t][i] = Plan(t)[i]
        /\ k = Plan(t)[h + 1]
  <2> DEFINE h == Len(held[t]) m == Len(todo[t])
  <2>1. /\ h \in Nat /\ m \in Nat \ {0} /\ h + m = Len(Plan(t))
        /\ \A i \in 1..h : held[t][i] # k /\ held[t][i] = Plan(t)[i]
        /\ k = Plan(t)[h + 1]
    BY <1>0, <1>1, NextKey
  <2> HIDE DEF h, m
  <2>2. m \in Nat /\ m > 0
    BY <2>1
  <2>3. h = Len(held[t]) /\ m = Len(todo[t])
    BY DEF h, m
  <2> QED BY <2>1, <2>2, <2>3
<1>n. h \in Nat /\ m \in Nat /\ m > 0
  BY <1>3
<1>4. /\ held[t] \in Seq(Key) /\ todo[t] \in Seq(Key) /\ todo[t] # <<>>
      /\ want[t] \in Requests /\ \A i \in 1..m : todo[t][i] = Plan(t)[h + i]
  <2>1. held[t] \in Seq(Key) /\ todo[t] \in Seq(Key)
    BY <1>2 DEF TypeOK
  <2>2. PlanShape(t)
    BY DEF PlanInv, ThreadOK
  <2> QED BY <1>1, <1>3, <2>1, <2>2 DEF PlanShape, Trying
<1>5. /\ held' = [held EXCEPT ![t] = Append(held[t], k)] /\ todo' = [todo EXCEPT ![t] = Tail(todo[t])]
      /\ held'[t] = Append(held[t], k) /\ todo'[t] = Tail(todo[t])
  BY <1>0, <1>2 DEF Kept, TypeOK
<1>6. /\ held'[t] \in Seq(Key) /\ Len(held'[t]) = h + 1
      /\ \A i \in 1..h : held'[t][i] = held[t][i]
      /\ held'[t][h + 1] = k
  <2>1. h + 1 \in 1..h+1 /\ \A i \in 1..h : i \in 1..h+1 /\ i # h + 1
    BY <1>3
  <2>2. /\ Append(held[t], k) \in Seq(Key) /\ Len(Append(held[t], k)) = h + 1
        /\ \A i \in 1..h : Append(held[t], k)[i] = held[t][i]
        /\ Append(held[t], k)[h + 1] = k
    <3>1. held[t] \in Seq(Key) /\ k \in Key /\ Len(held[t]) = h
      BY <1>2, <1>3, <1>4
    <3> QED BY ONLY <3>1, <1>n, <2>1
  <2> QED BY <1>5, <2>2
<1>7. /\ todo'[t] \in Seq(Key) /\ Len(todo'[t]) = m - 1
      /\ \A i \in 1..m-1 : todo'[t][i] = todo[t][i + 1]
      /\ todo'[t] = <<>> <=> m = 1
  <2>1. Len(todo'[t]) = m - 1 /\ todo'[t] \in Seq(Key) /\ \A i \in 1..m-1 : todo'[t][i] = todo[t][i + 1]
    <3>1. /\ Tail(todo[t]) \in Seq(Key) /\ Len(Tail(todo[t])) = Len(todo[t]) - 1
          /\ \A i \in 1..Len(Tail(todo[t])) : Tail(todo[t])[i] = todo[t][i + 1]
      BY <1>4, HeadTailProperties
    <3> QED BY <1>3, <1>5, <3>1
  <2>2. todo'[t] = <<>> <=> Len(todo'[t]) = 0
    BY <2>1, EmptySeq
  <2>3. m - 1 = 0 <=> m = 1
    BY ONLY <1>n
  <2> QED BY ONLY <2>1, <2>2, <2>3
<1>8. PICK l \in {"reserve", "set", "mutating", "end"} :
        /\ Goto(t, l)
        /\ l \in {"reserve", "set"} <=> m # 1
        /\ l = "set" => ~InDaemon(t)
  <2>1. CASE m > 1 /\ Goto(t, Turns(t))
    <3>1. Turns(t) \in {"reserve", "set"} /\ (Turns(t) = "set" => ~InDaemon(t))
      BY DEF Turns
    <3>2. m # 1
      BY <1>n, <2>1
    <3> QED BY <2>1, <3>1, <3>2
  <2>2. CASE m = 1 /\ (Goto(t, "mutating") \/ Goto(t, "end"))
    BY <2>2
  <2> QED BY <1>3, <2>1, <2>2 DEF Kept
<1>9. /\ phase' \in [Thread -> Phase] /\ phase'[t] = l
      /\ \A u \in Thread : u # t => phase'[u] = phase[u]
  BY <1>2, <1>8 DEF Goto, TypeOK, Phase
<1>10. TypeOK' /\ Alone(t)
  <2>1. /\ held' \in [Thread -> Seq(Key)] /\ todo' \in [Thread -> Seq(Key)]
        /\ \A u \in Thread : u # t => held'[u] = held[u] /\ todo'[u] = todo[u]
    BY <1>2, <1>5, <1>6, <1>7 DEF TypeOK
  <2>2. status' \in [Thread -> {"OK", "BUSY", "IO", "STUCK"}] /\ budget' = budget
    BY <1>2, StatusTyped DEF Kept
  <2> QED BY <1>2, <1>9, <2>1, <2>2 DEF TypeOK, Alone, Same, request, locks
<1>11. want'[t] = want[t] /\ set'[t] = set[t] /\ proj'[t] = proj[t] /\ reserved' = reserved
  BY DEF request, locks
<1>12. PlanShape(t)'
  <2>1. Plan(t)' = Plan(t)
    BY <1>11 DEF Plan
  <2>2. \A i \in 1..h+1 : held'[t][i] = Plan(t)[i]
    <3> SUFFICES ASSUME NEW i \in 1..h+1 PROVE held'[t][i] = Plan(t)[i]
      OBVIOUS
    <3>1. CASE i = h + 1
      BY <1>3, <1>6, <3>1
    <3>2. CASE i # h + 1
      <4>1. i \in 1..h
        BY <1>3, <3>2
      <4> QED BY <1>3, <1>6, <4>1
    <3> QED BY <3>1, <3>2
  <2>3. \A i \in 1..m-1 : todo'[t][i] = Plan(t)[(h + 1) + i]
    <3> SUFFICES ASSUME NEW i \in 1..m-1 PROVE todo'[t][i] = Plan(t)[(h + 1) + i]
      OBVIOUS
    <3>1. i + 1 \in 1..m /\ h + (i + 1) = (h + 1) + i
      BY ONLY <1>n, i \in 1..m-1
    <3> QED BY <1>4, <1>7, <3>1
  <2>4. (h + 1) + (m - 1) = Len(Plan(t)) /\ held'[t] # <<>>
    <3>1. (h + 1) + (m - 1) = h + m
      BY ONLY <1>n
    <3>2. held'[t] # <<>>
      BY <1>3, <1>6, EmptySeq
    <3> QED BY <1>3, <3>1, <3>2
  <2>5. (h + 1) + (m - 1) <= Len(Plan(t))
    <3>1. (h + 1) + (m - 1) \in Int
      BY <1>3
    <3> QED BY <2>4, <3>1
  <2>6. phase'[t] \in Trying <=> todo'[t] # <<>>
    BY <1>7, <1>8, <1>9 DEF Trying
  <2> QED BY <1>4, <1>6, <1>7, <1>8, <1>9, <1>11, <2>1, <2>2, <2>3, <2>4, <2>5, <2>6 DEF PlanShape
<1>13. HandleShape(t) /\ \A i \in 1..h : Whole(t, held[t][i])
  <2>1. HandleShape(t)
    BY DEF PlanInv, ThreadOK
  <2> QED BY <1>1, <1>3, <2>1 DEF HandleShape, Trying
<1>14. HandleShape(t)'
  <2>1. \A n \in Key : (Owns(t, n)' <=> Owns(t, n)) /\ (Whole(t, n)' <=> Whole(t, n))
    BY <1>11 DEF Owns, Whole
  <2>2. ASSUME NEW n \in Key, Near(t, n) PROVE Near(t, n)'
    <3>1. \E i \in 1..h+1 : held'[t][i] = n
      <4>1. CASE n = k
        <5>1. h + 1 \in 1..h+1
          BY <1>3
        <5> QED BY <1>6, <4>1, <5>1
      <4>2. CASE n # k
        <5>1. PICK i \in 1..h : held[t][i] = n
          BY <1>0, <1>3, <2>2, <4>2 DEF Near
        <5>2. i \in 1..h+1
          BY <1>3
        <5> QED BY <1>6, <5>1, <5>2
      <4> QED BY <4>1, <4>2
    <3> QED BY <1>6, <3>1 DEF Near
  <2>3. ASSUME NEW i \in 1..Len(held'[t])
        PROVE  set'[t][held'[t][i]] = "locked" /\ (held'[t][i] = Wild \/ proj'[t][held'[t][i]] = "locked")
    <3>1. CASE i = h + 1
      BY <1>2, <1>6, <1>11, <3>1 DEF Whole
    <3>2. CASE i # h + 1
      <4>1. i \in 1..h
        BY <1>3, <1>6, <3>2
      <4> QED BY <1>6, <1>11, <1>13, <4>1 DEF Whole
    <3> QED BY <3>1, <3>2
  <2>4. phase[t] # "dead"
    OBVIOUS
  <2> QED BY <1>11, <1>13, <2>1, <2>2, <2>3, <2>4 DEF HandleShape, Whole, InDaemon
<1>15. PhaseShape(t)'
  <2>1. CASE l \in {"mutating", "end"}
    BY <1>9, <2>1 DEF PhaseShape, Trying
  <2>2. CASE l \in {"reserve", "set"}
    <3>1. PICK n : n = Head(todo'[t])
      OBVIOUS
    <3>2. n \in Key /\ n = Plan(t)[h + 2]
      <4>1. 1 \in 1..m-1 /\ todo'[t] # <<>> /\ h + (1 + 1) = h + 2 /\ 1 + 1 \in 1..m
        BY <1>3, <1>7, <1>8, <2>2
      <4>2. n = todo'[t][1] /\ n \in Key
        BY <1>7, <3>1, <4>1, HeadTailProperties
      <4> QED BY <1>4, <1>7, <4>1, <4>2
    <3>3. /\ \A i, j \in 1..Len(Plan(t)) : Plan(t)[i] = Plan(t)[j] => i = j
      BY <1>4, Plans DEF Plan
    <3>4. h + 2 \in 1..Len(Plan(t)) /\ \A i \in 1..h+1 : i \in 1..Len(Plan(t)) /\ i # h + 2
      <4>1. m # 1 /\ Len(Plan(t)) = h + m
        BY <1>3, <1>8, <2>2
      <4> QED BY <1>n, <4>1
    <3>5. \A i \in 1..h+1 : Plan(t)[i] # n
      BY <3>2, <3>3, <3>4
    <3>6. n # k /\ \A i \in 1..h : held[t][i] # n
      <4>1. h + 1 \in 1..h+1 /\ \A i \in 1..h : i \in 1..h+1
        BY <1>3
      <4> QED BY <1>3, <3>5, <4>1
    <3>7. ~Near(t, n)
      BY <1>0, <1>3, <3>6 DEF Near
    <3>8. ~Owns(t, n)
      BY <1>13, <3>2, <3>7 DEF HandleShape
    <3>9. set'[t][n] = "none" /\ proj'[t][n] = "none"
      BY <1>11, <3>8 DEF Owns
    <3> QED BY <1>8, <1>9, <2>2, <3>1, <3>9 DEF PhaseShape, Owns, InDaemon
  <2> QED BY <2>1, <2>2
<1> QED BY <1>10, <1>12, <1>14, <1>15, AloneKeeps DEF ThreadOK

LEMMA GotWhole == ASSUME PlanInv, NEW t \in Thread, Got(t) PROVE PlanInv'
<1>1. phase[t] = "got" /\ phase[t] \in Trying \ {"reserve"}
  BY DEF Got, Trying
<1>2. CASE Kept(t)
  BY <1>1, <1>2, KeptWhole DEF Got
<1>3. ASSUME NEW v \in {"BUSY", "IO"}, GivenUp(t, v), budget' = budget \/ Fault PROVE PlanInv'
  <2>0. PICK k : k = Head(todo[t])
    OBVIOUS
  <2>1. TypeOK /\ (proj[t][k] # "none" => k # Wild /\ set[t][k] = "locked")
    BY <1>1, <2>0, TakingKnown
  <2>2. status' \in [Thread -> {"OK", "BUSY", "IO", "STUCK"}] /\ budget' \in Budget
    <3>1. budget' \in Budget
      BY <1>3, <2>1, FaultTyped DEF TypeOK
    <3> QED BY <1>3, <2>1, <3>1, StatusTyped DEF GivenUp
  <2>3. /\ Goto(t, "undo") /\ UNCHANGED <<request, todo, held, cancelled, reserved>>
        /\ locks' = locks /\ set' = set /\ proj' = proj
    BY <1>3 DEF Got, GivenUp, locks
  <2> QED BY <1>1, <2>0, <2>1, <2>2, <2>3, AttemptGoesOn DEF Trying
<1> QED BY <1>2, <1>3 DEF Got


\* What is known of a key that is given back.
LEMMA GivingKnown ==
    ASSUME PlanInv, NEW t \in Thread, phase[t] \in {"undo", "end"}, NEW k, k = Current(t)
    PROVE  /\ TypeOK /\ k \in Key
           /\ proj[t][k] # "none" => k # Wild /\ set[t][k] = "locked"
           /\ InDaemon(t) /\ Owns(t, k) => <<t, k>> \in reserved
<1>1. k \in Key
  <2>1. CASE phase[t] = "undo"
    BY <2>1, NextKey DEF Trying
  <2>2. CASE phase[t] = "end"
    BY <2>2, LastKey
  <2> QED BY <2>1, <2>2
<1>2. TypeOK /\ HandleShape(t)
  BY DEF PlanInv, ThreadOK
<1> QED BY <1>1, <1>2 DEF HandleShape

\* A release takes one handle of the key at hand; a project's lock goes before the set's.
LEMMA ReleaseWhole ==
    ASSUME PlanInv, NEW t \in Thread, ReleaseProject(t) \/ ReleaseSet(t)
    PROVE  PlanInv'
<1>0. PICK k : k = Current(t)
  OBVIOUS
<1>1. phase[t] \in {"undo", "end"} /\ phase[t] \in Trying \cup {"end"}
  BY DEF ReleaseProject, ReleaseSet, Trying
<1>2. /\ TypeOK /\ k \in Key
      /\ proj[t][k] # "none" => k # Wild /\ set[t][k] = "locked"
      /\ InDaemon(t) /\ Owns(t, k) => <<t, k>> \in reserved
  BY <1>0, <1>1, GivingKnown
<1>3. /\ status' \in [Thread -> {"OK", "BUSY", "IO", "STUCK"}] /\ budget' \in Budget
  <2>1. budget' = budget \/ Fault
    BY DEF ReleaseProject, ReleaseSet, Released
  <2>2. budget' \in Budget
    BY <1>2, <2>1, FaultTyped DEF TypeOK
  <2>3. \E v \in {"OK", "BUSY", "IO", "STUCK"} : status' = [status EXCEPT ![t] = v]
    BY <1>2 DEF ReleaseProject, ReleaseSet, Released, TypeOK
  <2> QED BY <1>2, <2>2, <2>3, StatusTyped
<1>4. UNCHANGED <<phase, request, todo, held, cancelled, reserved>>
  BY DEF ReleaseProject, ReleaseSet
<1>5. /\ set' \in [Thread -> [Key -> {"none", "turn", "locked", "open"}]]
      /\ proj' \in [Thread -> [Key -> {"none", "locked", "open"}]]
      /\ \A m \in Key : m # k => set'[t][m] = set[t][m] /\ proj'[t][m] = proj[t][m]
      /\ \A u \in Thread : u # t => set'[u] = set[u] /\ proj'[u] = proj[u]
      /\ proj'[t][k] # "none" => k # Wild /\ set'[t][k] = "locked"
      /\ set'[t][k] # "none" \/ proj'[t][k] # "none" => Owns(t, k)
  <2>1. CASE ReleaseProject(t)
    <3>1. PICK h \in {"none", "locked", "open"} : proj' = [proj EXCEPT ![t][k] = h] /\ set' = set
      BY <1>0, <1>2, <2>1 DEF ReleaseProject, Released, TypeOK
    <3>2. proj[t][k] # "none"
      BY <1>0, <2>1 DEF ReleaseProject
    <3> QED BY <1>2, <3>1, <3>2, ProjBecomes DEF TypeOK, Owns
  <2>2. CASE ReleaseSet(t)
    <3>1. PICK h \in {"none", "turn", "locked", "open"} : set' = [set EXCEPT ![t][k] = h] /\ proj' = proj
      BY <1>0, <1>2, <2>2 DEF ReleaseSet, Released, TypeOK
    <3>2. set[t][k] # "none" /\ proj[t][k] = "none"
      BY <1>0, <2>2 DEF ReleaseSet, SetMayGo
    <3> QED BY <1>2, <3>1, <3>2, SetBecomes DEF TypeOK, Owns
  <2> QED BY <2>1, <2>2
<1>6. TypeOK' /\ Alone(t)
  BY <1>2, <1>3, <1>4, <1>5 DEF TypeOK, Alone, Same, request
<1>7. AtHand(t, k)
  BY <1>1, <1>2, <1>4, <1>5 DEF AtHand, request
<1>8. PhaseShape(t)'
  <2>1. PhaseShape(t)
    BY DEF PlanInv, ThreadOK
  <2> QED BY <1>1, <1>4, <2>1 DEF PhaseShape, Trying, InDaemon
<1> QED BY <1>0, <1>6, <1>7, <1>8, AtHandOnlyKeeps DEF AtHandOnly

LEMMA UndoneWhole == ASSUME PlanInv, NEW t \in Thread, Undone(t) PROVE PlanInv'
<1>0. PICK k : k = Head(todo[t])
  OBVIOUS
<1>1. phase[t] = "undo" /\ phase[t] \in Trying \ {"reserve"}
  BY DEF Undone, Trying
<1>2. TypeOK /\ k \in Key /\ Current(t) = k
  BY <1>0, <1>1, TakingKnown
<1>3. /\ ~Owns(t, k) /\ set[t][k] = "none" /\ proj[t][k] = "none"
      /\ UNCHANGED <<request, held, cancelled, status, locks, budget>>
  BY <1>2 DEF Undone, Owns
<1>4. CASE Goto(t, "set") /\ UNCHANGED <<todo, reserved>>
  <2>1. status' \in [Thread -> {"OK", "BUSY", "IO", "STUCK"}] /\ budget' \in Budget
    BY <1>2, <1>3 DEF TypeOK
  <2>2. locks' = locks /\ set' = set /\ proj' = proj
    BY <1>3 DEF locks
  <2> QED BY <1>0, <1>1, <1>3, <1>4, <2>1, <2>2, AttemptGoesOn DEF Trying
<1>5. CASE Refuse(t) /\ reserved' = reserved \ {<<t, k>>}
  <2>1. todo'[t] = <<>> /\ phase'[t] = IF held[t] = <<>> THEN "idle" ELSE "end"
    BY <1>2, <1>5 DEF Refuse, Goto, TypeOK
  <2>2. /\ todo' \in [Thread -> Seq(Key)] /\ phase' \in [Thread -> Phase]
        /\ \A u \in Thread : u # t => todo'[u] = todo[u] /\ phase'[u] = phase[u]
    <3>1. <<>> \in Seq(Key) /\ todo \in [Thread -> Seq(Key)] /\ phase \in [Thread -> Phase]
      BY <1>2 DEF TypeOK
    <3>2. \E l \in Phase : phase' = [phase EXCEPT ![t] = l]
      BY <1>5 DEF Refuse, Goto, Phase
    <3>3. todo' = [todo EXCEPT ![t] = <<>>]
      BY <1>5 DEF Refuse
    <3> QED BY <3>1, <3>2, <3>3
  <2>3. TypeOK' /\ Alone(t)
    BY <1>2, <1>3, <1>5, <2>2 DEF TypeOK, Alone, Same, request, locks
  <2>4. held' = held /\ want' = want /\ set' = set /\ proj' = proj
    BY <1>3 DEF request, locks
  <2>5. ThreadOK(t)'
    BY <1>0, <1>1, <1>3, <1>5, <2>1, <2>4, RefusalKeeps
  <2> QED BY <2>3, <2>5, AloneKeeps
<1> QED BY <1>2, <1>4, <1>5 DEF Undone

LEMMA FinishWhole == ASSUME PlanInv, NEW t \in Thread, Finish(t) PROVE PlanInv'
<1>1. TypeOK /\ phase[t] = "mutating" /\ PlanShape(t) /\ HandleShape(t)
  BY DEF Finish, PlanInv, ThreadOK
<1>2. /\ phase' \in [Thread -> Phase] /\ phase'[t] = "end"
      /\ \A u \in Thread : u # t => phase'[u] = phase[u]
  BY <1>1 DEF Finish, Goto, TypeOK, Phase
<1>3. UNCHANGED <<request, todo, held, cancelled, status, locks, reserved, budget>>
  BY DEF Finish
<1>4. TypeOK' /\ Alone(t)
  BY <1>1, <1>2, <1>3 DEF TypeOK, Alone, Same, request, locks
<1>5. Len(held[t]) \in Nat /\ held[t] # <<>> /\ todo[t] = <<>>
  <2>1. want[t] \in Requests /\ todo[t] = <<>> /\ Len(held[t]) + Len(todo[t]) = Len(Plan(t))
    BY <1>1 DEF PlanShape, Trying
  <2>2. Len(todo[t]) = 0 /\ Len(Plan(t)) > 0
    BY <2>1, Plans DEF Plan
  <2>3. Len(held[t]) \in Nat
    BY <1>1, SeqTyped
  <2> QED BY <2>1, <2>2, <2>3
<1>6. PlanShape(t)'
  <2>1. Plan(t)' = Plan(t) /\ held'[t] = held[t] /\ todo'[t] = todo[t] /\ want'[t] = want[t]
    BY <1>3 DEF Plan, request
  <2> QED BY <1>1, <1>2, <1>5, <2>1 DEF PlanShape, Trying
<1>7. HandleShape(t)'
  <2>1. \A n : (Owns(t, n)' <=> Owns(t, n)) /\ (Whole(t, n)' <=> Whole(t, n)) /\ (Near(t, n) => Near(t, n)')
    BY <1>1, <1>3 DEF Owns, Whole, Near, locks, Trying
  <2>2. \A i \in 1..Len(held[t])' : Whole(t, held[t][i])'
    BY <1>1, <1>3 DEF HandleShape, Whole, locks
  <2> QED BY <1>1, <1>3, <2>1, <2>2 DEF HandleShape, InDaemon, locks
<1>8. PhaseShape(t)'
  BY <1>2 DEF PhaseShape, Trying
<1> QED BY <1>4, <1>6, <1>7, <1>8, AloneKeeps DEF ThreadOK

\* The last key is given back whole: nothing is owned of it any more.
LEMMA EndedWhole == ASSUME PlanInv, NEW t \in Thread, Ended(t) PROVE PlanInv'
<1>1. /\ TypeOK /\ phase[t] = "end" /\ PlanShape(t) /\ HandleShape(t) /\ held[t] \in Seq(Key)
  BY DEF Ended, PlanInv, ThreadOK, TypeOK
<1>2. PICK h \in Nat, k \in Key :
        /\ h > 0 /\ h = Len(held[t]) /\ k = held[t][h] /\ Current(t) = k
        /\ \A i \in 1..h : held[t][i] = k => i = h
  <2> DEFINE h == Len(held[t])
  <2>1. /\ h \in Nat \ {0} /\ Current(t) = held[t][h] /\ held[t][h] \in Key
        /\ \A i \in 1..h : held[t][i] = held[t][h] => i = h
    BY <1>1, LastKey
  <2>2. h \in Nat /\ h > 0 /\ h = Len(held[t])
    BY <2>1
  <2> HIDE DEF h
  <2> QED BY <2>1, <2>2
<1>n. h \in Nat /\ h > 0 /\ h - 1 \in Nat
  BY <1>2
<1>3. /\ ~Owns(t, k) /\ reserved' = reserved \ {<<t, k>>}
      /\ UNCHANGED <<request, todo, cancelled, status, locks, budget>>
  BY <1>2 DEF Ended, ReservationMayGo
<1>4. /\ held' = [held EXCEPT ![t] = Front(held[t])] /\ held'[t] = Front(held[t])
  BY <1>1 DEF Ended, TypeOK
<1>5. /\ held'[t] \in Seq(Key) /\ Len(held'[t]) = h - 1
      /\ \A i \in 1..h-1 : held'[t][i] = held[t][i]
  <2>1. \A i \in 1..h-1 : held[t][i] \in Key
    BY <1>1, <1>2, <1>n, ElementOfSeq
  <2>2. held'[t] = SubSeq(held[t], 1, h - 1)
    BY <1>2, <1>4 DEF Front
  <2>3. /\ SubSeq(held[t], 1, h - 1) \in Seq(Key)
        /\ Len(SubSeq(held[t], 1, h - 1)) = h - 1
        /\ \A i \in 1..h-1 : SubSeq(held[t], 1, h - 1)[i] = held[t][i]
    BY <1>n, <2>1, SubSeqProperties
  <2> QED BY <2>2, <2>3
<1>6. PICK l \in {"idle", "end"} :
        phase' = [phase EXCEPT ![t] = l] /\ (l = "idle" <=> h = 1)
  BY <1>2 DEF Ended, Goto
<1>7. /\ phase' \in [Thread -> Phase] /\ phase'[t] = l
      /\ \A u \in Thread : u # t => phase'[u] = phase[u]
  BY <1>1, <1>6 DEF TypeOK, Phase
<1>8. TypeOK' /\ Alone(t)
  <2>1. held' \in [Thread -> Seq(Key)] /\ \A u \in Thread : u # t => held'[u] = held[u]
    BY <1>1, <1>4, <1>5 DEF TypeOK
  <2> QED BY <1>1, <1>3, <1>7, <2>1 DEF TypeOK, Alone, Same, request, locks
<1>9. held'[t] = <<>> <=> h = 1
  <2>1. held'[t] = <<>> <=> Len(held'[t]) = 0
    BY <1>5, EmptySeq
  <2> QED BY <1>n, <1>5, <2>1
<1>10. PlanShape(t)'
  <2>1. Plan(t)' = Plan(t) /\ todo'[t] = todo[t] /\ want'[t] = want[t]
    BY <1>3 DEF Plan, request
  <2>2. /\ want[t] \in Requests /\ todo[t] = <<>> /\ h + Len(todo[t]) <= Len(Plan(t))
        /\ \A i \in 1..h : held[t][i] = Plan(t)[i]
    BY <1>1, <1>2 DEF PlanShape, Trying
  <2>3. Len(todo[t]) = 0 /\ Len(Plan(t)) \in Nat
    <3>1. Plan(t) \in Seq(Key)
      BY <2>2, Plans DEF Plan
    <3> QED BY <2>2, <3>1
  <2>4. (h - 1) + 0 <= Len(Plan(t))
    BY <1>n, <2>2, <2>3
  <2>5. \A i \in 1..h-1 : held'[t][i] = Plan(t)[i]
    <3>1. \A i \in 1..h-1 : i \in 1..h
      BY <1>n
    <3> QED BY <1>5, <2>2, <3>1
  <2>6. \A i : i \notin 1..Len(todo[t])
    BY <2>3
  <2> QED BY <1>5, <1>6, <1>7, <1>9, <2>1, <2>2, <2>3, <2>4, <2>5, <2>6 DEF PlanShape, Trying
<1>11. HandleShape(t)'
  <2>1. \A n : (Owns(t, n)' <=> Owns(t, n)) /\ (Whole(t, n)' <=> Whole(t, n))
    BY <1>3 DEF Owns, Whole, locks
  <2>2. ASSUME NEW n \in Key, Owns(t, n) PROVE Near(t, n)' /\ n # k
    <3>1. n # k /\ Near(t, n)
      BY <1>1, <1>3, <2>2 DEF HandleShape
    <3>2. PICK i \in 1..h : held[t][i] = n
      BY <1>1, <1>2, <3>1 DEF Near, Trying
    <3>3. i \in 1..h-1
      BY <1>n, <1>2, <3>1, <3>2
    <3> QED BY <1>5, <3>1, <3>2, <3>3 DEF Near
  <2>3. \A i \in 1..h-1 : i \in 1..h /\ i < h
    BY <1>n
  <2>4. \A i \in 1..h-1 : Whole(t, held[t][i])
    BY <1>1, <1>2, <2>3 DEF HandleShape
  <2>5. \A i \in 1..Len(held[t])' : Whole(t, held[t][i])'
    BY <1>3, <1>5, <2>4 DEF Whole, locks
  <2> QED BY <1>1, <1>3, <2>1, <2>2, <2>5 DEF HandleShape, InDaemon, locks
<1>12. PhaseShape(t)'
  BY <1>7 DEF PhaseShape, Trying
<1> QED BY <1>8, <1>10, <1>11, <1>12, AloneKeeps DEF ThreadOK


\* Threads that die need nothing any more; the reservations of the others stay.
LEMMA DieWhole ==
    ASSUME PlanInv, NEW p, Die(p), budget' \in Budget
    PROVE  PlanInv'
<1>1. TypeOK'
  BY DEF PlanInv, TypeOK, Die, Phase, request, locks
<1>2. ASSUME NEW u \in Thread PROVE ThreadOK(u)'
  <2>1. CASE Home[u] = p
    <3>1. phase'[u] = "dead"
      BY <2>1 DEF Die
    <3> QED BY <3>1 DEF ThreadOK, PlanShape, HandleShape, PhaseShape, Trying
  <2>2. CASE Home[u] # p
    <3>1. phase'[u] = phase[u]
      BY <2>2 DEF Die
    <3>2. ASSUME NEW k \in Key, <<u, k>> \in reserved PROVE <<u, k>> \in reserved'
      <4>1. <<u, k>>[1] = u
        OBVIOUS
      <4> QED BY <2>2, <3>2, <4>1 DEF Die
    <3>3. Same(u)
      BY <3>1, <3>2 DEF Die, Same, request, locks
    <3> QED BY <3>3, SameKeeps DEF PlanInv
  <2> QED BY <2>1, <2>2
<1> QED BY <1>1, <1>2 DEF PlanInv

LEMMA ClosesWhole ==
    ASSUME PlanInv, NEW t \in Thread, NEW k \in Key, KernelCloses(t, k)
    PROVE  PlanInv'
<1>1. TypeOK /\ phase[t] = "dead"
  BY DEF PlanInv, KernelCloses
<1>2. /\ set' \in [Thread -> [Key -> {"none", "turn", "locked", "open"}]]
      /\ proj' \in [Thread -> [Key -> {"none", "locked", "open"}]]
      /\ \A u \in Thread : u # t => set'[u] = set[u] /\ proj'[u] = proj[u]
  <2>1. CASE set' = [set EXCEPT ![t][k] = "none"] /\ UNCHANGED proj
    BY <1>1, <2>1, SetBecomes DEF TypeOK
  <2>2. CASE proj' = [proj EXCEPT ![t][k] = "none"] /\ UNCHANGED set
    BY <1>1, <2>2, ProjBecomes DEF TypeOK
  <2> QED BY <2>1, <2>2 DEF KernelCloses
<1>3. UNCHANGED <<phase, request, todo, held, cancelled, status, reserved, budget>>
  BY DEF KernelCloses
<1>4. TypeOK' /\ Alone(t)
  BY <1>1, <1>2, <1>3 DEF TypeOK, Alone, Same, request
<1>5. ThreadOK(t)'
  BY <1>1, <1>3 DEF ThreadOK, PlanShape, HandleShape, PhaseShape, Trying
<1> QED BY <1>4, <1>5, AloneKeeps

\* The threads of a process that starts again own nothing and hold nothing.
LEMMA RestartWhole == ASSUME PlanInv, NEW p, Restart(p) PROVE PlanInv'
<1>1. TypeOK
  BY DEF PlanInv
<1>2. \A u \in Thread : Home[u] = p => \A k \in Key : ~Owns(u, k)
  BY DEF Restart
<1>3. /\ phase' = [u \in Thread |-> IF Home[u] = p THEN "idle" ELSE phase[u]]
      /\ want' = [u \in Thread |-> IF Home[u] = p THEN {} ELSE want[u]]
      /\ todo' = [u \in Thread |-> IF Home[u] = p THEN <<>> ELSE todo[u]]
      /\ held' = [u \in Thread |-> IF Home[u] = p THEN <<>> ELSE held[u]]
      /\ UNCHANGED <<once, cancelled, status, set, proj, reserved, budget>>
  BY DEF Restart, locks
<1>4. TypeOK'
  <2>1. <<>> \in Seq(Key) /\ {} \in SUBSET Key /\ "idle" \in Phase
    BY DEF Phase
  <2> QED BY <1>1, <1>3, <2>1 DEF TypeOK
<1>5. ASSUME NEW u \in Thread PROVE ThreadOK(u)'
  <2>1. CASE Home[u] = p
    <3>1. /\ phase'[u] = "idle" /\ held'[u] = <<>>
          /\ \A k \in Key : set'[u][k] = "none" /\ proj'[u][k] = "none"
      BY <1>2, <1>3, <2>1 DEF Owns
    <3>2. Len(held'[u]) = 0
      BY <3>1
    <3>3. HandleShape(u)'
      BY <3>1, <3>2 DEF HandleShape, Owns
    <3>4. PlanShape(u)' /\ PhaseShape(u)'
      BY <3>1 DEF PlanShape, PhaseShape, Trying
    <3> QED BY <3>3, <3>4 DEF ThreadOK
  <2>2. CASE Home[u] # p
    <3>0. phase'[u] = phase[u] /\ want'[u] = want[u] /\ todo'[u] = todo[u] /\ held'[u] = held[u]
      BY <1>3, <2>2
    <3>1. Same(u)
      BY <1>3, <3>0 DEF Same
    <3> QED BY <3>1, SameKeeps DEF PlanInv
  <2> QED BY <2>1, <2>2
<1> QED BY <1>4, <1>5 DEF PlanInv

LEMMA CancelWhole == ASSUME PlanInv, NEW t \in Thread, Cancel(t) PROVE PlanInv'
<1>1. budget.cancels \in Nat /\ budget.cancels - 1 \in Nat /\ budget \in Budget
  BY DEF Cancel, PlanInv, TypeOK, Budget
<1>2. budget' \in Budget
  BY <1>1 DEF Cancel, Budget
<1>3. TypeOK'
  BY <1>2 DEF Cancel, PlanInv, TypeOK, request, locks
<1> QED BY <1>3, NothingMoves DEF Cancel

LEMMA EndsWhole ==
    ASSUME PlanInv, (\E p \in Process : Crash(p)) \/ \E t \in Thread : FailStop(t)
    PROVE  PlanInv'
<1>1. ASSUME NEW p \in Process, Crash(p) PROVE PlanInv'
  <2>1. budget.crashes \in Nat /\ budget.crashes - 1 \in Nat /\ budget \in Budget
    BY <1>1 DEF Crash, PlanInv, TypeOK, Budget
  <2>2. budget' \in Budget
    BY <1>1, <2>1 DEF Crash, Budget
  <2> QED BY <1>1, <2>2, DieWhole DEF Crash
<1>2. ASSUME NEW t \in Thread, FailStop(t) PROVE PlanInv'
  <2>1. budget' \in Budget
    BY <1>2 DEF FailStop, PlanInv, TypeOK
  <2> QED BY <1>2, <2>1, DieWhole DEF FailStop
<1> QED BY <1>1, <1>2

LEMMA InitWhole == Init => PlanInv
<1> SUFFICES ASSUME Init PROVE PlanInv
  OBVIOUS
<1>1. TypeOK
  <2>1. <<>> \in Seq(Key) /\ {} \in SUBSET Key /\ "idle" \in Phase
    BY DEF Phase
  <2>2. budget \in Budget
    BY BudgetAssumption DEF Init
  <2> QED BY <2>1, <2>2 DEF Init, TypeOK
<1>2. ASSUME NEW t \in Thread PROVE ThreadOK(t)
  <2>1. /\ phase[t] = "idle" /\ held[t] = <<>>
        /\ \A k \in Key : set[t][k] = "none" /\ proj[t][k] = "none"
    BY DEF Init
  <2>2. Len(held[t]) = 0
    BY <2>1
  <2>3. HandleShape(t)
    BY <2>1, <2>2 DEF HandleShape, Owns
  <2>4. PlanShape(t) /\ PhaseShape(t)
    BY <2>1 DEF PlanShape, PhaseShape, Trying
  <2> QED BY <2>3, <2>4 DEF ThreadOK
<1> QED BY <1>1, <1>2 DEF PlanInv

LEMMA StepWhole == PlanInv /\ [Next]_vars => PlanInv'
<1> SUFFICES ASSUME PlanInv, [Next]_vars PROVE PlanInv'
  OBVIOUS
<1>1. ASSUME NEW t \in Thread, Step(t) PROVE PlanInv'
  BY <1>1, ReserveWhole, BusyWhole, GotWhole, FinishWhole, ReleaseWhole, UndoneWhole, EndedWhole
     DEF Step
<1>2. CASE UNCHANGED vars
  <2>1. TypeOK'
    BY <1>2 DEF PlanInv, TypeOK, vars, request, locks
  <2> QED BY <1>2, <2>1, NothingMoves DEF vars
<1>3. CASE Rest \/ \E t \in Thread : Again(t)
  BY <1>2, <1>3 DEF Rest, Again
<1>4. CASE \E t \in Thread, S \in Requests, o \in BOOLEAN : Begin(t, S, o)
  BY <1>4, BeginWhole
<1>5. CASE \E t \in Thread : Take(t) \/ AcquireFails(t) \/ Cancel(t)
  BY <1>5, TakeWhole, FailureWhole, CancelWhole
<1>6. CASE \E t \in Thread, k \in Key : KernelCloses(t, k)
  BY <1>6, ClosesWhole
<1>7. CASE \E p \in Process : Restart(p)
  BY <1>7, RestartWhole
<1> QED BY <1>1, <1>2, <1>3, <1>4, <1>5, <1>6, <1>7, EndsWhole DEF Next

\* Threads keep to their plans and to their handles, in every reachable state.
THEOREM WholeInvariance == Spec => []PlanInv
BY InitWhole, StepWhole, PTL DEF Spec

LEMMA PlanInvWhole == PlanInv => LeasesWhole
<1> SUFFICES ASSUME PlanInv PROVE LeasesWhole
  OBVIOUS
<1>1. \A t \in Thread : DOMAIN held[t] = 1..Len(held[t]) /\ Len(held[t]) \in Nat
  BY DEF PlanInv, TypeOK
<1>2. \A t \in Thread : PlanShape(t) /\ HandleShape(t) /\ PhaseShape(t)
  BY DEF PlanInv, ThreadOK
<1>3. MutationsOwn
  <2> SUFFICES ASSUME NEW t \in Thread, phase[t] = "mutating"
               PROVE  /\ \A n \in want[t] : \E i \in DOMAIN held[t] : Folded(held[t][i]) = Folded(n)
                      /\ \A i \in DOMAIN held[t] : Whole(t, held[t][i])
    BY DEF MutationsOwn
  <2>1. /\ want[t] \in Requests /\ todo[t] = <<>> /\ Len(held[t]) + Len(todo[t]) = Len(Plan(t))
        /\ \A i \in 1..Len(held[t]) : held[t][i] = Plan(t)[i]
    BY <1>2 DEF PlanShape, Trying
  <2>2. Len(held[t]) = Len(Plan(t))
    <3>1. Len(todo[t]) = 0 /\ Len(held[t]) \in Nat
      BY <1>1, <2>1
    <3> QED BY <2>1, <3>1
  <2>3. \A n \in want[t] : \E i \in 1..Len(Plan(t)) : Folded(Plan(t)[i]) = Folded(n)
    BY <2>1, Plans DEF Plan
  <2>4. \A i \in 1..Len(held[t]) : Whole(t, held[t][i])
    BY <1>2 DEF HandleShape
  <2> QED BY <1>1, <2>1, <2>2, <2>3, <2>4
<1>4. NothingForgotten
  <2> SUFFICES ASSUME NEW t \in Thread, NEW k \in Key, phase[t] # "dead", Owns(t, k)
               PROVE  \/ \E i \in DOMAIN held[t] : held[t][i] = k
                      \/ phase[t] \in {"set", "drain", "project", "got", "undo"} /\ Head(todo[t]) = k
    BY DEF NothingForgotten
  <2>1. Near(t, k)
    BY <1>2 DEF HandleShape
  <2>2. phase[t] = "reserve" => Head(todo[t]) # k
    BY <1>2 DEF PhaseShape
  <2> QED BY <1>1, <2>1, <2>2 DEF Near, Trying
<1>5. SetOutlasts /\ ReservationOutlasts
  BY <1>2 DEF SetOutlasts, ReservationOutlasts, HandleShape
<1>6. OrderKept
  <2> SUFFICES ASSUME NEW t \in Thread, phase[t] = "project", NEW i \in 1..Len(held[t])
               PROVE  Rank[Fold[held[t][i]]] < Rank[Fold[Head(todo[t])]]
    BY <1>1 DEF OrderKept
  <2>1. PICK h \in Nat, m \in Nat :
          /\ h = Len(held[t]) /\ m > 0 /\ h + m = Len(Plan(t))
          /\ Head(todo[t]) = Plan(t)[h + 1] /\ held[t][i] = Plan(t)[i]
    <3> DEFINE h == Len(held[t]) m == Len(todo[t])
    <3>1. /\ h \in Nat /\ m \in Nat \ {0} /\ h + m = Len(Plan(t))
          /\ Head(todo[t]) = Plan(t)[h + 1] /\ held[t][i] = Plan(t)[i]
      BY NextKey DEF Trying
    <3> HIDE DEF h, m
    <3>2. m \in Nat /\ m > 0 /\ h = Len(held[t])
      BY <3>1 DEF h
    <3> QED BY <3>1, <3>2
  <2>2. i \in 1..Len(Plan(t)) /\ h + 1 \in 1..Len(Plan(t)) /\ i < h + 1
    BY <2>1
  <2>3. want[t] \in Requests
    BY <1>2 DEF PlanShape
  <2>4. Rank[Fold[Plan(t)[i]]] < Rank[Fold[Plan(t)[h + 1]]]
    BY <2>2, <2>3, Plans DEF Plan
  <2> QED BY <2>1, <2>4
<1> QED BY <1>3, <1>4, <1>5, <1>6 DEF LeasesWhole

\* An operation runs with all its leases and whole ones, loses none, takes them in order
\* and gives up the set and the reservation last, through failures, crashes and restarts.
THEOREM LeasesAreWhole == Spec => []LeasesWhole
BY WholeInvariance, PlanInvWhole, PTL

\* Every variable keeps its type.
THEOREM TypeCorrect == Spec => []TypeOK
<1>1. PlanInv => TypeOK
  BY DEF PlanInv
<1> QED BY <1>1, WholeInvariance, PTL
=============================================================================
