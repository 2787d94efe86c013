------------------------- MODULE LockRegistryProofs -------------------------
(***************************************************************************)
(* Mutual exclusion of the lock registry for every number of processes,    *)
(* threads and keys, and every bound on calls, failures and crashes.       *)
(*                                                                         *)
(* The argument: the phase of a thread says which native handles it holds, *)
(* the kernel never grants conflicting handles, and a thread keeps its key *)
(* and mode as long as it holds any handle.  The queues and counters of    *)
(* the registry play no part in it; they are the subject of the second     *)
(* part, and the sleepers on its condition of the last.                    *)
(***************************************************************************)
EXTENDS LockRegistry, FiniteSetTheorems, TLAPS

LeaseType ==
    /\ phase \in [Caller -> Phase]
    /\ call \in [Caller -> [key : Key, mode : Mode, tryOnce : BOOLEAN]]
    /\ turn \in [Caller -> Handle]
    /\ rw \in [Caller -> Handle]
    /\ active \in [Caller -> BOOLEAN]

\* What the phase of a thread says about its handles.
PhaseHandles ==
    \A c \in Caller :
        /\ phase[c] \in {"idle", "queued", "turn"} => rw[c] = "none" /\ turn[c] = "none"
        /\ phase[c] = "rw" => rw[c] = "none" /\ turn[c] = TurnMode(c)
        /\ phase[c] = "drop" => rw[c] = "SH" /\ call[c].mode = "SH"
        /\ phase[c] \in {"ready", "held"} =>
              /\ rw[c] = call[c].mode
              /\ turn[c] = IF call[c].mode = "SH" THEN "none" ELSE "SH"

\* Native rw locks on one key: many shared or one exclusive.
NativeCompatible ==
    \A c, d \in Caller :
        /\ c # d /\ call[c].key = call[d].key
        /\ rw[c] \in Mode /\ rw[d] \in Mode
        => rw[c] = "SH" /\ rw[d] = "SH"

IInv == LeaseType /\ PhaseHandles /\ NativeCompatible

\* The phases from which nothing is known about the handles.
Unwinding == {"abort", "release", "unlockRw", "unlockTurn", "settle", "cleanup"}

-----------------------------------------------------------------------------

LEMMA BlankType == Blank \in [key : Key, mode : Mode, tryOnce : BOOLEAN]
BY KeyAssumption DEF Blank, Mode

LEMMA InitInv == Init => IInv
BY BlankType DEF Init, IInv, LeaseType, PhaseHandles, NativeCompatible, Phase, Waiting,
   Handle, Mode

\* A thread that moves on to unwinding keeps the invariant, if its handles and
\* its call stay what they are.
LEMMA MoveUnwinding ==
    ASSUME IInv, NEW c \in Caller, NEW q \in Unwinding,
           phase' = [phase EXCEPT ![c] = q],
           UNCHANGED <<call, turn, rw>>, active' \in [Caller -> BOOLEAN]
    PROVE  IInv'
<1>1. LeaseType'
  BY DEF IInv, LeaseType, Unwinding, Phase
<1>2. PhaseHandles'
  <2> SUFFICES ASSUME NEW d \in Caller PROVE TurnMode(d)' = TurnMode(d) /\ (d # c => phase'[d] = phase[d])
    BY DEF IInv, LeaseType, PhaseHandles, Unwinding
  <2> QED
    BY DEF IInv, LeaseType, TurnMode
<1>3. NativeCompatible'
  BY DEF IInv, NativeCompatible
<1> QED
  BY <1>1, <1>2, <1>3 DEF IInv

\* So does one whose handles only get weaker.
LEMMA WeakerHandles ==
    ASSUME IInv, NEW c \in Caller, NEW q \in Unwinding,
           phase' = [phase EXCEPT ![c] = q],
           turn' \in [Caller -> Handle], rw' \in [Caller -> Handle],
           \A d \in Caller \ {c} : turn'[d] = turn[d] /\ rw'[d] = rw[d],
           rw'[c] \in {rw[c], "none", "shut"},
           UNCHANGED <<call, active>>
    PROVE  IInv'
<1>1. LeaseType'
  BY DEF IInv, LeaseType, Unwinding, Phase
<1>2. PhaseHandles'
  BY DEF IInv, LeaseType, PhaseHandles, Unwinding, TurnMode
<1>3. NativeCompatible'
  BY DEF IInv, LeaseType, NativeCompatible, Mode
<1> QED BY <1>1, <1>2, <1>3 DEF IInv

\* A thread without handles may leave, and its call be forgotten.
LEMMA Leaving ==
    ASSUME IInv, NEW c \in Caller, Idle(c), ~HasNative(c),
           UNCHANGED <<turn, rw>>, active' \in [Caller -> BOOLEAN]
    PROVE  IInv'
<1>1. LeaseType'
  BY BlankType DEF IInv, LeaseType, Idle, Goto, Phase
<1>2. PhaseHandles'
  BY DEF IInv, LeaseType, PhaseHandles, Idle, Goto, HasNative, TurnMode
<1>3. NativeCompatible'
  BY DEF IInv, LeaseType, NativeCompatible, Idle, Goto, HasNative, Mode
<1> QED BY <1>1, <1>2, <1>3 DEF IInv

-----------------------------------------------------------------------------
(* The actions, one by one. *)

LEMMA AcquireInv ==
    ASSUME IInv, NEW c \in Caller, NEW k \in Key, NEW m \in Mode, NEW t \in BOOLEAN,
           Acquire(c, k, m, t)
    PROVE  IInv'
<1>1. LeaseType'
  BY DEF IInv, LeaseType, Acquire, Goto, Phase, Waiting
<1>2. PhaseHandles'
  BY DEF IInv, LeaseType, PhaseHandles, Acquire, Goto, TurnMode
<1>3. NativeCompatible'
  BY DEF IInv, LeaseType, PhaseHandles, NativeCompatible, Acquire, Goto, Mode
<1> QED BY <1>1, <1>2, <1>3 DEF IInv

\* Before the native phase a thread has no handle.
LEMMA QueueInv ==
    ASSUME IInv, NEW c \in Caller,
           StartAttempt(c) \/ LeaveQueue(c) \/ SleepInQueue(c) \/ WaitFails(c)
    PROVE  IInv'
<1>1. CASE StartAttempt(c)
  BY <1>1 DEF IInv, LeaseType, PhaseHandles, NativeCompatible, StartAttempt, Goto, Phase,
     Waiting, TurnMode
<1>2. CASE LeaveQueue(c)
  <2>1. Idle(c) /\ UNCHANGED <<turn, rw, active>> /\ phase[c] = "queued"
    BY <1>2 DEF LeaveQueue
  <2>2. ~HasNative(c)
    BY <2>1 DEF IInv, PhaseHandles, HasNative
  <2> QED BY <2>1, <2>2, Leaving DEF IInv, LeaseType
<1>3. CASE SleepInQueue(c)
  BY <1>3 DEF IInv, LeaseType, PhaseHandles, NativeCompatible, SleepInQueue, TurnMode
<1>4. CASE WaitFails(c)
  BY <1>4, MoveUnwinding DEF WaitFails, Goto, Unwinding, IInv, LeaseType
<1> QED BY <1>1, <1>2, <1>3, <1>4

LEMMA TakeTurnInv ==
    ASSUME IInv, NEW c \in Caller, TakeTurn(c)
    PROVE  IInv'
<1>1. LeaseType'
  BY DEF IInv, LeaseType, TakeTurn, Goto, TurnMode, Handle, Phase, Waiting
<1>2. PhaseHandles'
  BY DEF IInv, LeaseType, PhaseHandles, TakeTurn, Goto, TurnMode
<1>3. NativeCompatible'
  BY DEF IInv, NativeCompatible, TakeTurn
<1> QED BY <1>1, <1>2, <1>3 DEF IInv

\* The only step that adds a native rw lock: the kernel checks the others.
LEMMA TakeRwInv ==
    ASSUME IInv, NEW c \in Caller, TakeRw(c)
    PROVE  IInv'
<1>0. /\ phase[c] = "rw" /\ Grantable(rw, c, call[c].mode)
      /\ rw' = [rw EXCEPT ![c] = call[c].mode]
      /\ phase' = [phase EXCEPT ![c] = IF call[c].mode = "SH" THEN "drop" ELSE "ready"]
      /\ UNCHANGED <<call, turn, active>>
  BY DEF TakeRw, Goto, RwMode
<1>1. call[c].mode \in Mode
  BY DEF IInv, LeaseType
<1>2. LeaseType'
  BY <1>0, <1>1 DEF IInv, LeaseType, Handle, Phase, Waiting, Mode
<1>3. PhaseHandles'
  BY <1>0, <1>1 DEF IInv, LeaseType, PhaseHandles, TurnMode, Mode
<1>4. NativeCompatible'
  BY <1>0, <1>1 DEF IInv, LeaseType, NativeCompatible, Grantable, Locked, Mode
<1> QED BY <1>2, <1>3, <1>4 DEF IInv

LEMMA GiveUpInv ==
    ASSUME IInv, NEW c \in Caller, GiveUp(c) \/ BackOut(c) \/ ReadyWaitFails(c)
    PROVE  IInv'
BY MoveUnwinding DEF GiveUp, BackOut, ReadyWaitFails, Goto, Unwinding, IInv, LeaseType

LEMMA AcquireFailsInv ==
    ASSUME IInv, NEW c \in Caller, AcquireFails(c)
    PROVE  IInv'
<1>0. /\ phase' = [phase EXCEPT ![c] = "abort"]
      /\ UNCHANGED <<call, active>>
  BY DEF AcquireFails, Goto
<1>1. CASE phase[c] = "turn"
  <2>1. PICK h \in Handle : turn' = [turn EXCEPT ![c] = h] /\ rw' = rw
    BY <1>1 DEF AcquireFails, Handle, TurnMode
  <2> QED BY <1>0, <2>1, WeakerHandles DEF Unwinding, IInv, LeaseType
<1>2. CASE phase[c] = "rw"
  <2>1. call[c].mode \in Mode
    BY DEF IInv, LeaseType
  <2>2. PICK h \in {"none", "shut"} \cup
                   (IF Grantable(rw, c, call[c].mode) THEN {call[c].mode} ELSE {}) :
           rw' = [rw EXCEPT ![c] = h] /\ turn' = turn
    BY <1>2 DEF AcquireFails, RwMode
  <2>3. CASE h \in {"none", "shut"}
    BY <1>0, <2>2, <2>3, WeakerHandles DEF Unwinding, IInv, LeaseType, Handle
  <2>4. CASE h \notin {"none", "shut"}
    <3>1. h = call[c].mode /\ Grantable(rw, c, h)
      BY <2>2, <2>4
    <3>2. LeaseType'
      BY <1>0, <2>1, <2>2, <3>1 DEF IInv, LeaseType, Handle, Phase, Mode
    <3>3. PhaseHandles'
      BY <1>0, <2>2 DEF IInv, LeaseType, PhaseHandles, TurnMode
    <3>4. NativeCompatible'
      BY <1>0, <2>1, <2>2, <3>1 DEF IInv, LeaseType, NativeCompatible, Grantable, Locked, Mode
    <3> QED BY <3>2, <3>3, <3>4 DEF IInv
  <2> QED BY <2>3, <2>4
<1> QED BY <1>1, <1>2 DEF AcquireFails

LEMMA DropTurnInv ==
    ASSUME IInv, NEW c \in Caller, DropTurn(c)
    PROVE  IInv'
<1>0. phase[c] = "drop" /\ UNCHANGED <<call, rw, active>>
  BY DEF DropTurn
<1>1. CASE turn' = [turn EXCEPT ![c] = "none"] /\ Goto(c, "ready")
  <2>1. LeaseType'
    BY <1>0, <1>1 DEF IInv, LeaseType, Goto, Handle, Phase, Waiting
  <2>2. PhaseHandles'
    BY <1>0, <1>1 DEF IInv, LeaseType, PhaseHandles, Goto, TurnMode
  <2>3. NativeCompatible'
    BY <1>0 DEF IInv, NativeCompatible
  <2> QED BY <2>1, <2>2, <2>3 DEF IInv
<1>2. CASE Goto(c, "abort") /\
           \E h \in {turn[c], "shut", "none"} : turn' = [turn EXCEPT ![c] = h]
  <2>1. PICK h \in Handle : turn' = [turn EXCEPT ![c] = h]
    BY <1>2 DEF Handle, IInv, LeaseType
  <2> QED BY <1>0, <1>2, <2>1, WeakerHandles DEF Unwinding, IInv, LeaseType, Goto
<1> QED BY <1>1, <1>2 DEF DropTurn

LEMMA ReadyInv ==
    ASSUME IInv, NEW c \in Caller, Activate(c) \/ SleepReady(c)
    PROVE  IInv'
<1>1. CASE Activate(c)
  BY <1>1 DEF IInv, LeaseType, PhaseHandles, NativeCompatible, Activate, Goto, Phase, Waiting,
     TurnMode
<1>2. CASE SleepReady(c)
  BY <1>2 DEF IInv, LeaseType, PhaseHandles, NativeCompatible, SleepReady, TurnMode
<1> QED BY <1>1, <1>2

LEMMA AbortInv ==
    ASSUME IInv, NEW c \in Caller, Abort(c) \/ ReleaseCleanup(c)
    PROVE  IInv'
<1>0. UNCHANGED <<turn, rw, active>> /\ active \in [Caller -> BOOLEAN]
  BY DEF Abort, ReleaseCleanup, IInv, LeaseType
<1>1. CASE Goto(c, "unlockRw") /\ UNCHANGED call
  BY <1>0, <1>1, MoveUnwinding DEF Goto, Unwinding
<1>2. CASE Idle(c) /\ ~HasNative(c)
  BY <1>0, <1>2, Leaving
<1> QED BY <1>1, <1>2 DEF Abort, ReleaseCleanup

LEMMA ReleaseInv ==
    ASSUME IInv, NEW c \in Caller, Release(c)
    PROVE  IInv'
BY MoveUnwinding DEF Release, Goto, Unwinding, IInv, LeaseType

LEMMA UnlockInv ==
    ASSUME IInv, NEW c \in Caller, UnlockRw(c) \/ UnlockTurn(c)
    PROVE  IInv'
<1>1. CASE UnlockRw(c)
  <2>1. PICK h \in {rw[c], "none", "shut"} : rw' = [rw EXCEPT ![c] = h]
    BY <1>1 DEF UnlockRw, Released
  <2>2. PICK q \in Unwinding : phase' = [phase EXCEPT ![c] = q]
    BY <1>1 DEF UnlockRw, Goto, Unwinding
  <2>3. UNCHANGED <<call, turn, active>>
    BY <1>1 DEF UnlockRw
  <2>4. rw' \in [Caller -> Handle] /\ rw'[c] \in {rw[c], "none", "shut"}
    BY <2>1 DEF IInv, LeaseType, Handle
  <2> QED BY <2>1, <2>2, <2>3, <2>4, WeakerHandles DEF IInv, LeaseType
<1>2. CASE UnlockTurn(c)
  <2>1. PICK h \in {turn[c], "none", "shut"} : turn' = [turn EXCEPT ![c] = h]
    BY <1>2 DEF UnlockTurn, Released
  <2>2. phase' = [phase EXCEPT ![c] = "settle"] /\ UNCHANGED <<call, rw, active>>
    BY <1>2 DEF UnlockTurn, Goto
  <2>3. turn' \in [Caller -> Handle]
    BY <2>1 DEF IInv, LeaseType, Handle
  <2> QED BY <2>1, <2>2, <2>3, WeakerHandles DEF IInv, LeaseType, Unwinding
<1> QED BY <1>1, <1>2

LEMMA SettleInv ==
    ASSUME IInv, NEW c \in Caller, Discharge(c) \/ CleanupSettled(c)
    PROVE  IInv'
<1>0. UNCHANGED <<turn, rw>> /\ active' \in [Caller -> BOOLEAN]
  BY DEF Discharge, CleanupSettled, IInv, LeaseType
<1>1. CASE Goto(c, "cleanup") /\ UNCHANGED call
  BY <1>0, <1>1, MoveUnwinding DEF Goto, Unwinding
<1>2. CASE Idle(c) /\ ~HasNative(c)
  BY <1>0, <1>2, Leaving
<1> QED BY <1>1, <1>2 DEF Discharge, CleanupSettled

\* Steps of other parties, which leave every lease alone.
LEMMA BystanderInv ==
    ASSUME IInv, UNCHANGED <<phase, call, turn, rw, active>>
    PROVE  IInv'
BY DEF IInv, LeaseType, PhaseHandles, NativeCompatible, TurnMode

LEMMA CrashInv ==
    ASSUME IInv, NEW p \in Proc, Crash(p)
    PROVE  IInv'
<1>0. /\ phase' = [c \in Caller |-> IF Home[c] = p THEN "idle" ELSE phase[c]]
      /\ call' = [c \in Caller |-> IF Home[c] = p THEN Blank ELSE call[c]]
      /\ turn' = [c \in Caller |-> IF Home[c] = p THEN "none" ELSE turn[c]]
      /\ rw' = [c \in Caller |-> IF Home[c] = p THEN "none" ELSE rw[c]]
      /\ active' = [c \in Caller |-> IF Home[c] = p THEN FALSE ELSE active[c]]
  BY DEF Crash
<1>1. LeaseType'
  BY <1>0, BlankType DEF IInv, LeaseType, Phase, Handle
<1>2. PhaseHandles'
  BY <1>0 DEF IInv, LeaseType, PhaseHandles, TurnMode
<1>3. NativeCompatible'
  BY <1>0 DEF IInv, LeaseType, NativeCompatible, Mode
<1> QED BY <1>1, <1>2, <1>3 DEF IInv

LEMMA NextInv == IInv /\ [Next]_vars => IInv'
<1> SUFFICES ASSUME IInv, [Next]_vars PROVE IInv'
  OBVIOUS
<1>1. ASSUME NEW c \in Caller, NEW k \in Key, NEW m \in Mode, NEW t \in BOOLEAN,
             Acquire(c, k, m, t)
      PROVE  IInv'
  BY <1>1, AcquireInv
<1>2. ASSUME NEW c \in Caller, Step(c) PROVE IInv'
  BY <1>2, QueueInv, TakeTurnInv, TakeRwInv, GiveUpInv, DropTurnInv, ReadyInv, AbortInv,
     UnlockInv, SettleInv DEF Step
<1>3. ASSUME NEW c \in Caller, Failure(c) PROVE IInv'
  BY <1>3, QueueInv, AcquireFailsInv, GiveUpInv DEF Failure
<1>4. ASSUME NEW c \in Caller, Release(c) PROVE IInv'
  BY <1>4, ReleaseInv
<1>5. ASSUME NEW c \in Caller, DeadlinePasses(c) \/ RequestCancel(c) \/ CancelBroadcast(c)
      PROVE  IInv'
  BY <1>5, BystanderInv DEF DeadlinePasses, RequestCancel, CancelBroadcast
<1>6. ASSUME NEW p \in Proc, RegistryFree(p) \/ RegistryNew(p) PROVE IInv'
  BY <1>6, BystanderInv DEF RegistryFree, RegistryNew
<1>7. ASSUME NEW p \in Proc, Crash(p) PROVE IInv'
  BY <1>7, CrashInv
<1>8. CASE UNCHANGED vars
  BY <1>8, BystanderInv DEF vars
<1> QED BY <1>1, <1>2, <1>3, <1>4, <1>5, <1>6, <1>7, <1>8 DEF Next

LEMMA Invariance == Spec => []IInv
BY InitInv, NextInv, PTL DEF Spec

-----------------------------------------------------------------------------

\* A native handle is never lost, and a lease holds exactly the handles its mode
\* calls for (lock_registry_attempt_native, lock_registry_abort_attempt).
THEOREM HandlesOwned == Spec => []NativeOwned
<1>1. IInv => NativeOwned
  BY DEF IInv, PhaseHandles, NativeOwned
<1> QED BY <1>1, Invariance, PTL

\* Mutual exclusion: the lease of a writer is alone on its key, over all
\* processes, through failed releases and crashes.
THEOREM MutualExclusion == Spec => []WriterAlone
<1>1. IInv => WriterAlone
  BY DEF IInv, LeaseType, PhaseHandles, NativeCompatible, WriterAlone, Mode
<1> QED BY <1>1, Invariance, PTL

-----------------------------------------------------------------------------
(* The registry implements the reader-writer lock of its header.            *)

\* A thread that is not in the critical section before or after its step.
Elsewhere(c) ==
    /\ phase[c] # "held" /\ phase'[c] # "held"
    /\ \A d \in Caller \ {c} : phase'[d] = phase[d] /\ call'[d] = call[d]

LEMMA QuietGrants ==
    ASSUME NEW c \in Caller, Elsewhere(c)
    PROVE  Grants' = Grants
BY DEF Elsewhere, Grants

LEMMA MoveElsewhere ==
    ASSUME IInv, NEW c \in Caller, NEW q, phase[c] # "held", q # "held",
           phase' = [phase EXCEPT ![c] = q],
           call' = call \/ call' = [call EXCEPT ![c] = Blank]
    PROVE  Elsewhere(c)
BY DEF IInv, LeaseType, Elsewhere

\* Whatever a thread does inside the registry, short of becoming a holder.
LEMMA StepElsewhere ==
    ASSUME IInv, NEW c \in Caller, Step(c) \/ Failure(c), ~Activate(c)
    PROVE  Grants' = Grants
<1>1. CASE UNCHANGED <<phase, call>>
  BY <1>1 DEF Grants
<1>2. ASSUME NEW q, phase[c] # "held", q # "held", Goto(c, q), UNCHANGED call
      PROVE  Grants' = Grants
  BY <1>2, MoveElsewhere, QuietGrants DEF Goto
<1>3. CASE phase[c] # "held" /\ Idle(c)
  BY <1>3, MoveElsewhere, QuietGrants DEF Goto, Idle
<1>4. CASE StartAttempt(c) \/ LeaveQueue(c) \/ SleepInQueue(c)
  BY <1>4, <1>1, <1>2, <1>3 DEF StartAttempt, LeaveQueue, SleepInQueue
<1>5. CASE TakeTurn(c) \/ GiveUp(c) \/ SleepReady(c) \/ BackOut(c)
  BY <1>5, <1>1, <1>2 DEF TakeTurn, GiveUp, SleepReady, BackOut
<1>6. CASE TakeRw(c)
  <2>1. phase[c] # "held" /\ UNCHANGED call /\ (Goto(c, "drop") \/ Goto(c, "ready"))
    BY <1>6 DEF TakeRw, Goto
  <2> QED BY <2>1, <1>2
<1>7. CASE DropTurn(c)
  <2>1. phase[c] # "held" /\ UNCHANGED call /\ (Goto(c, "ready") \/ Goto(c, "abort"))
    BY <1>7 DEF DropTurn
  <2> QED BY <2>1, <1>2
<1>8. CASE Abort(c) \/ ReleaseCleanup(c)
  <2>1. phase[c] # "held" /\ ((Goto(c, "unlockRw") /\ UNCHANGED call) \/ Idle(c))
    BY <1>8 DEF Abort, ReleaseCleanup
  <2> QED BY <2>1, <1>2, <1>3
<1>9. CASE UnlockRw(c)
  <2>1. PICK q \in Unwinding : Goto(c, q)
    BY <1>9 DEF UnlockRw, Unwinding, Goto
  <2>2. phase[c] # "held" /\ UNCHANGED call
    BY <1>9 DEF UnlockRw
  <2> QED BY <2>1, <2>2, <1>2 DEF Unwinding
<1>10. CASE UnlockTurn(c)
  BY <1>10, <1>2 DEF UnlockTurn
<1>11. CASE Discharge(c) \/ CleanupSettled(c)
  <2>1. phase[c] # "held" /\ ((Goto(c, "cleanup") /\ UNCHANGED call) \/ Idle(c))
    BY <1>11 DEF Discharge, CleanupSettled
  <2> QED BY <2>1, <1>2, <1>3
<1>12. CASE Failure(c)
  <2>1. phase[c] # "held" /\ (Goto(c, "cleanup") \/ Goto(c, "abort")) /\ UNCHANGED call
    BY <1>12 DEF Failure, WaitFails, AcquireFails, ReadyWaitFails
  <2> QED BY <2>1, <1>2
<1> QED BY <1>4, <1>5, <1>6, <1>7, <1>8, <1>9, <1>10, <1>11, <1>12 DEF Step

LEMMA ActivateGrants ==
    ASSUME IInv, NEW c \in Caller, Activate(c)
    PROVE  Lock!Grant(c, call[c].key, call[c].mode)
<1> DEFINE g == <<c, call[c].key, call[c].mode>>
<1>0. phase[c] = "ready" /\ phase' = [phase EXCEPT ![c] = "held"] /\ UNCHANGED <<call, turn, rw>>
  BY DEF Activate, Goto
<1>1. Grants' = Grants \cup {g}
  BY <1>0 DEF Grants, IInv, LeaseType
<1>2. \A h \in Grants : h[1] # c
  BY <1>0 DEF Grants
<1>3. ASSUME NEW h \in Grants, h[2] = call[c].key
      PROVE  call[c].mode = "SH" /\ h[3] = "SH"
  <2>1. PICK d \in Caller : phase[d] = "held" /\ h = <<d, call[d].key, call[d].mode>>
    BY <1>3 DEF Grants
  <2>2. d # c /\ call[d].key = call[c].key
    BY <2>1, <1>0, <1>3
  <2>3. rw[d] = call[d].mode /\ rw[c] = call[c].mode /\ rw[d] \in Mode /\ rw[c] \in Mode
    BY <2>1, <1>0 DEF IInv, LeaseType, PhaseHandles
  <2> QED BY <2>1, <2>2, <2>3 DEF IInv, NativeCompatible
<1> QED BY <1>1, <1>2, <1>3 DEF Lock!Grant, Lock!Compatible

LEMMA ReleaseGrants ==
    ASSUME IInv, NEW c \in Caller, Release(c)
    PROVE  Lock!Return({c}) \/ Grants' = Grants
<1>0. phase' = [phase EXCEPT ![c] = "unlockRw"] /\ UNCHANGED call
  BY DEF Release, Goto
<1>1. CASE phase[c] = "held"
  <2>1. <<c, call[c].key, call[c].mode>> \in Grants
    BY <1>1 DEF Grants
  <2>2. Grants' = {h \in Grants : h[1] \notin {c}}
    BY <1>0 DEF Grants, IInv, LeaseType
  <2> QED BY <2>1, <2>2 DEF Lock!Return
<1>2. CASE phase[c] # "held"
  BY <1>0, <1>2, MoveElsewhere, QuietGrants
<1> QED BY <1>1, <1>2

LEMMA CrashGrants ==
    ASSUME IInv, NEW p \in Proc, Crash(p)
    PROVE  Lock!Return(Peers(p)) \/ Grants' = Grants
<1>0. /\ phase' = [c \in Caller |-> IF Home[c] = p THEN "idle" ELSE phase[c]]
      /\ call' = [c \in Caller |-> IF Home[c] = p THEN Blank ELSE call[c]]
  BY DEF Crash
<1>1. Grants' = {h \in Grants : h[1] \notin Peers(p)}
  BY <1>0 DEF Grants, Peers
<1>2. CASE \E h \in Grants : h[1] \in Peers(p)
  BY <1>1, <1>2 DEF Lock!Return
<1>3. CASE ~\E h \in Grants : h[1] \in Peers(p)
  BY <1>1, <1>3
<1> QED BY <1>2, <1>3

LEMMA NextRefines == IInv /\ [Next]_vars => [Lock!Next]_Grants
<1> SUFFICES ASSUME IInv, [Next]_vars PROVE [Lock!Next]_Grants
  OBVIOUS
<1>1. ASSUME NEW c \in Caller, NEW k \in Key, NEW m \in Mode, NEW t \in BOOLEAN,
             Acquire(c, k, m, t)
      PROVE  Grants' = Grants
  BY <1>1, QuietGrants DEF Acquire, Goto, Elsewhere, IInv, LeaseType
<1>2. ASSUME NEW c \in Caller, Step(c) \/ Failure(c) PROVE [Lock!Next]_Grants
  <2>1. CASE Activate(c)
    <3>1. call[c].key \in Key /\ call[c].mode \in Mode
      BY DEF IInv, LeaseType
    <3> QED BY <2>1, <3>1, ActivateGrants DEF Lock!Next, Lock!Mode, Mode
  <2>2. CASE ~Activate(c)
    BY <1>2, <2>2, StepElsewhere
  <2> QED BY <2>1, <2>2
<1>3. ASSUME NEW c \in Caller, Release(c) PROVE [Lock!Next]_Grants
  BY <1>3, ReleaseGrants DEF Lock!Next
<1>4. ASSUME NEW c \in Caller, DeadlinePasses(c) \/ RequestCancel(c) \/ CancelBroadcast(c)
      PROVE  Grants' = Grants
  BY <1>4 DEF DeadlinePasses, RequestCancel, CancelBroadcast, Grants
<1>5. ASSUME NEW p \in Proc, RegistryFree(p) \/ RegistryNew(p) PROVE Grants' = Grants
  BY <1>5 DEF RegistryFree, RegistryNew, Grants
<1>6. ASSUME NEW p \in Proc, Crash(p) PROVE [Lock!Next]_Grants
  BY <1>6, CrashGrants DEF Lock!Next, Peers
<1>7. CASE UNCHANGED vars
  BY <1>7 DEF vars, Grants
<1> QED BY <1>1, <1>2, <1>3, <1>4, <1>5, <1>6, <1>7 DEF Next

\* Every behaviour of the registry, seen through the leases in force, is one of
\* the reader-writer lock: acquisition is a grant, the start of a release or a
\* crash is a return, everything else is invisible.
THEOREM Refinement == Spec => ImplementsReadWriteLock
<1>1. Init => Lock!Init
  BY DEF Init, Lock!Init, Grants
<1> QED BY <1>1, NextRefines, Invariance, PTL DEF Spec, ImplementsReadWriteLock, Lock!Spec

-----------------------------------------------------------------------------
(***************************************************************************)
(* The books of the lock registry: the queue of each entry, its active     *)
(* holders and the registry's three counters describe the leases and       *)
(* waiters that exist, for every number of processes, threads and keys and *)
(* through every failure and crash.                                        *)
(*                                                                         *)
(* The argument: a thread is on a line exactly where its phase says, and   *)
(* on one line only (Lines, Places); a step of a thread changes what the   *)
(* thread itself counts for, and each counter by as much (ProcCounts,      *)
(* EntryCounts).  A writer becomes active only when the counters say that  *)
(* nobody else is, so they need not be more than a boolean and a number.   *)
(***************************************************************************)

OnLine(e, c) == \E i \in 1..Len(queue[e]) : queue[e][i] = c

BooksType ==
    /\ queue \in [Entry -> Seq(Caller)]
    /\ attempt \in [Entry -> Caller \cup {None}]
    /\ readers \in [Entry -> Int] /\ writer \in [Entry -> BOOLEAN]
    /\ waiters \in [Proc -> Int] /\ leases \in [Proc -> Int] /\ pending \in [Proc -> Int]

\* Each line holds threads of its own entry that wait or clean up, each once.
StandsOn(e, c) == At(c) = e /\ phase[c] \in Waiting \cup {"abort", "cleanup"} /\ ~active[c]
Lines ==
    \A e \in Entry :
        /\ \A i \in 1..Len(queue[e]) : StandsOn(e, queue[e][i])
        /\ \A i, j \in 1..Len(queue[e]) : queue[e][i] = queue[e][j] => i = j

Places ==
    \A c \in Caller :
        /\ phase[c] \in Waiting \cup {"abort"} => OnLine(At(c), c)
        /\ phase[c] \in {"held", "release"} => active[c]
        /\ active[c] => phase[c] \in {"held", "release", "unlockRw", "unlockTurn", "settle"}

Owes(c) ==
    /\ ~active[c] /\ ~OnLine(At(c), c)
    /\ phase[c] \in {"unlockRw", "unlockTurn", "settle", "cleanup"}

\* Who counts for what.
Lined == [p \in Proc |-> {c \in Peers(p) : OnLine(At(c), c)}]
Leased == [p \in Proc |-> {c \in Peers(p) : active[c]}]
Owing == [p \in Proc |-> {c \in Peers(p) : Owes(c)}]
Reading == [e \in Entry |-> {c \in Caller : At(c) = e /\ active[c] /\ call[c].mode = "SH"}]

Counts ==
    /\ \A p \in Proc : waiters[p] = Cardinality(Lined[p])
    /\ \A p \in Proc : leases[p] = Cardinality(Leased[p])
    /\ \A p \in Proc : pending[p] = Cardinality(Owing[p])
    /\ \A e \in Entry : readers[e] = Cardinality(Reading[e])
    /\ \A e \in Entry :
          writer[e] <=> \E c \in Caller : At(c) = e /\ active[c] /\ call[c].mode = "EX"

Books == BooksType /\ Lines /\ Places
BInv == Books /\ Counts /\ BookkeepingExclusive

-----------------------------------------------------------------------------
(* Counting.                                                                *)

\* A set that loses or gains one element, or neither.
LEMMA Tallied ==
    ASSUME NEW S \in SUBSET Caller, NEW T \in SUBSET Caller, NEW c \in Caller,
           \A d \in Caller \ {c} : d \in T <=> d \in S
    PROVE  /\ Cardinality(S) \in Nat
           /\ (c \in T <=> c \in S) => Cardinality(T) = Cardinality(S)
           /\ c \in T /\ c \notin S => Cardinality(T) = Cardinality(S) + 1
           /\ c \notin T /\ c \in S => Cardinality(T) = Cardinality(S) - 1
<1>1. IsFiniteSet(S) /\ IsFiniteSet(T)
  BY CallerAssumption, FS_Subset
<1>2. CASE c \in T <=> c \in S
  <2>1. T = S
    BY <1>2
  <2> QED BY <1>1, <1>2, <2>1, FS_CardinalityType
<1>3. CASE c \in T /\ c \notin S
  <2>1. T = S \cup {c}
    BY <1>3
  <2> QED BY <1>1, <1>3, <2>1, FS_AddElement, FS_CardinalityType
<1>4. CASE c \notin T /\ c \in S
  <2>1. T = S \ {c}
    BY <1>4
  <2> QED BY <1>1, <1>4, <2>1, FS_RemoveElement, FS_CardinalityType
<1> QED BY <1>2, <1>3, <1>4

-----------------------------------------------------------------------------
(* The invariant, step by step.  What a step leaves alone keeps its count.  *)

\* A thread that changes nothing but its place, and counts for the same there.
LEMMA MoveBooks ==
    ASSUME BInv, IInv, NEW c \in Caller, NEW q \in Phase, Goto(c, q),
           UNCHANGED <<call, active, queue, readers, writer, waiters, leases, pending>>,
           attempt' \in [Entry -> Caller \cup {None}],
           OnLine(At(c), c) => q \in Waiting \cup {"abort", "cleanup"},
           q \in Waiting \cup {"abort"} => OnLine(At(c), c),
           q \in {"held", "release"} => active[c],
           active[c] => q \in {"held", "release", "unlockRw", "unlockTurn", "settle"},
           Owes(c) <=> /\ ~active[c] /\ ~OnLine(At(c), c)
                       /\ q \in {"unlockRw", "unlockTurn", "settle", "cleanup"}
    PROVE  BInv'
<1>1. \A d \in Caller : /\ At(d)' = At(d)
                        /\ OnLine(At(d), d)' <=> OnLine(At(d), d)
                        /\ d # c => phase'[d] = phase[d]
  BY DEF At, OnLine, Goto, IInv, LeaseType
<1>2. phase'[c] = q /\ At(c) \in Entry
  BY HomeAssumption DEF Goto, IInv, LeaseType, At, Entry
<1>3. BooksType'
  BY DEF BInv, Books, BooksType
<1>4. Lines'
  <2> SUFFICES ASSUME NEW e \in Entry, NEW i \in 1..Len(queue[e])
               PROVE  phase'[queue[e][i]] \in Waiting \cup {"abort", "cleanup"}
    BY DEF BInv, Books, Lines, StandsOn, At
  <2>1. queue[e][i] = c => OnLine(At(c), c)
    BY DEF OnLine, BInv, Books, Lines, StandsOn
  <2>2. queue[e][i] \in Caller
    BY DEF BInv, Books, BooksType
  <2> QED BY <1>1, <1>2, <2>1, <2>2 DEF BInv, Books, Lines, StandsOn
<1>5. Places'
  <2> SUFFICES ASSUME NEW d \in Caller
               PROVE  /\ phase'[d] \in Waiting \cup {"abort"} => OnLine(At(d), d)
                      /\ phase'[d] \in {"held", "release"} => active[d]
                      /\ active[d] => phase'[d] \in {"held", "release", "unlockRw", "unlockTurn",
                                                     "settle"}
    BY <1>1 DEF Places
  <2> QED BY <1>1, <1>2 DEF BInv, Books, Places
<1>6. Owing' = Owing
  <2>1. ASSUME NEW d \in Caller PROVE Owes(d)' <=> Owes(d)
    <3>1. CASE d = c
      BY <1>1, <1>2, <3>1 DEF Owes
    <3>2. CASE d # c
      BY <1>1, <3>2 DEF Owes
    <3> QED BY <3>1, <3>2
  <2> QED BY <2>1 DEF Owing, Peers
<1>7. Lined' = Lined /\ Leased' = Leased /\ Reading' = Reading
  BY DEF Lined, Leased, Reading, OnLine, At
<1>8. Counts'
  BY <1>6, <1>7 DEF BInv, Counts, At
<1>9. BookkeepingExclusive'
  BY DEF BInv, BookkeepingExclusive, At
<1> QED BY <1>3, <1>4, <1>5, <1>8, <1>9 DEF BInv, Books

\* A thread that leaves its line (lock_registry_waiter_remove).
LEMMA DequeueLines ==
    ASSUME BInv, IInv, IInv', NEW c \in Caller, Dequeue(c),
           \A d \in Caller \ {c} :
              call'[d] = call[d] /\ active'[d] = active[d] /\ phase'[d] = phase[d]
    PROVE  /\ queue' \in [Entry -> Seq(Caller)] /\ Lines'
           /\ OnLine(At(c), c) /\ ~OnLine(At(c), c)'
           /\ \A d \in Caller \ {c} : OnLine(At(d), d)' <=> OnLine(At(d), d)
<1>1. PICK e \in Entry : e = At(c)
  BY HomeAssumption DEF IInv, LeaseType, At, Entry
<1>2. PICK line \in Seq(Caller) : line = queue[e] /\ queue \in [Entry -> Seq(Caller)]
  BY DEF BInv, Books, BooksType
<1>3. PICK n \in 1..Len(line) :
         /\ line[n] = c
         /\ Unlinked(c) = [i \in 1..(Len(line) - 1) |-> line[IF i < n THEN i ELSE i + 1]]
  BY <1>1, <1>2 DEF Dequeue, Queued, Unlinked
<1>4. \A i, j \in 1..Len(line) : line[i] = line[j] => i = j
  BY <1>2 DEF BInv, Books, Lines
<1>5. Len(line) \in Nat /\ Len(line) - 1 \in Nat
  OBVIOUS
<1>6. \A i \in 1..(Len(line) - 1) : line[IF i < n THEN i ELSE i + 1] \in Caller
  BY <1>5
<1>7. PICK s \in Seq(Caller) :
         /\ queue' = [queue EXCEPT ![e] = s] /\ Len(s) = Len(line) - 1
         /\ \A i \in 1..Len(s) : s[i] = line[IF i < n THEN i ELSE i + 1]
  <2>1. /\ Unlinked(c) \in Seq(Caller) /\ Len(Unlinked(c)) = Len(line) - 1
        /\ \A i \in 1..(Len(line) - 1) : Unlinked(c)[i] = line[IF i < n THEN i ELSE i + 1]
    BY <1>3, <1>5, <1>6
  <2> QED BY <1>1, <2>1 DEF Dequeue
<1>7a. /\ \A i \in 1..Len(s) : \E j \in 1..Len(line) : s[i] = line[j] /\ s[i] # line[n]
       /\ \A j \in 1..Len(line) \ {n} : \E i \in 1..Len(s) : s[i] = line[j]
       /\ \A i, j \in 1..Len(s) : s[i] = s[j] => i = j
  <2>1. Len(line) \in Nat /\ Len(line) - 1 \in Nat
    OBVIOUS
  <2>2. \A i \in 1..Len(s) : (IF i < n THEN i ELSE i + 1) \in 1..Len(line) \ {n}
    BY <1>7, <2>1
  <2>3. \A i \in 1..Len(s) : \E j \in 1..Len(line) : s[i] = line[j] /\ s[i] # line[n]
    BY <1>4, <1>7, <2>2
  <2>4. \A j \in 1..Len(line) \ {n} : \E i \in 1..Len(s) : s[i] = line[j]
    <3> SUFFICES ASSUME NEW j \in 1..Len(line), j # n
                 PROVE  \E i \in 1..Len(s) : s[i] = line[j]
      OBVIOUS
    <3>1. CASE j < n
      <4>1. j \in 1..Len(s)
        BY <1>7, <3>1, <2>1
      <4> QED BY <1>7, <3>1, <4>1
    <3>2. CASE j > n
      <4>1. j - 1 \in 1..Len(s) /\ ~(j - 1 < n) /\ (j - 1) + 1 = j
        BY <1>7, <3>2, <2>1
      <4>2. s[j - 1] = line[j]
        BY <1>7, <4>1
      <4> QED BY <4>1, <4>2
    <3> QED BY <3>1, <3>2
  <2>5. \A i, j \in 1..Len(s) : s[i] = s[j] => i = j
    BY <1>4, <1>7, <2>1, <2>2
  <2> QED BY <2>3, <2>4, <2>5
<1>8. OnLine(At(c), c)
  BY <1>1, <1>2, <1>3 DEF OnLine
<1>9. queue' \in [Entry -> Seq(Caller)]
  BY <1>2, <1>7
\* Whoever is not c, and only who is not c, is where he was.
<1>10. ASSUME NEW f \in Entry, NEW d \in Caller
       PROVE  (\E i \in 1..Len(queue'[f]) : queue'[f][i] = d) <=> OnLine(f, d) /\ d # c
  <2>1. CASE f # e
    <3>1. queue'[f] = queue[f]
      BY <1>2, <1>7, <2>1
    <3>2. OnLine(f, c) => f = e
      BY <1>1 DEF OnLine, BInv, Books, Lines, StandsOn
    <3> QED BY <2>1, <3>1, <3>2 DEF OnLine
  <2>2. CASE f = e
    <3>1. queue'[f] = s
      BY <1>2, <1>7, <2>2
    <3>2. OnLine(f, d) <=> \E j \in 1..Len(line) : line[j] = d
      BY <1>2, <2>2 DEF OnLine
    <3>3. (\E i \in 1..Len(s) : s[i] = d) => OnLine(f, d) /\ d # c
      BY <1>3, <1>7a, <3>2
    <3>4. ASSUME OnLine(f, d), d # c PROVE \E i \in 1..Len(s) : s[i] = d
      <4>1. PICK j \in 1..Len(line) : line[j] = d
        BY <3>2, <3>4
      <4>2. j # n
        BY <1>3, <3>4, <4>1
      <4> QED BY <1>7a, <4>1, <4>2
    <3> QED BY <3>1, <3>3, <3>4
  <2> QED BY <2>1, <2>2
<1>11. ASSUME NEW d \in Caller \ {c}
       PROVE  OnLine(At(d), d)' <=> OnLine(At(d), d)
  <2>1. At(d) \in Entry
    BY HomeAssumption DEF IInv, LeaseType, At, Entry
  <2>2. At(d)' = At(d)
    BY DEF At
  <2>3. OnLine(At(d), d)' <=> \E i \in 1..Len(queue'[At(d)]) : queue'[At(d)][i] = d
    BY <2>2 DEF OnLine
  <2> QED BY <1>10, <2>1, <2>3
<1>12. ~OnLine(At(c), c)'
  <2>1. At(c)' \in Entry
    BY HomeAssumption DEF IInv, LeaseType, At, Entry
  <2> QED BY <1>10, <2>1 DEF OnLine
<1>13. ASSUME NEW f \in Entry
       PROVE  \A i, j \in 1..Len(queue'[f]) : queue'[f][i] = queue'[f][j] => i = j
  <2>1. CASE f = e
    <3>1. queue'[f] = s
      BY <1>2, <1>7, <2>1
    <3> QED BY <1>7a, <3>1
  <2>2. CASE f # e
    <3>1. queue'[f] = queue[f]
      BY <1>2, <1>7, <2>2
    <3> QED BY <3>1 DEF BInv, Books, Lines
  <2> QED BY <2>1, <2>2
<1>14. ASSUME NEW f \in Entry, NEW i \in 1..Len(queue'[f]), NEW d \in Caller, queue'[f][i] = d
       PROVE  /\ <<Home[d], call'[d].key>> = f
              /\ phase'[d] \in Waiting \cup {"abort", "cleanup"} /\ ~active'[d]
  <2>1. OnLine(f, d) /\ d # c
    BY <1>10, <1>14
  <2>2. At(d) = f /\ phase[d] \in Waiting \cup {"abort", "cleanup"} /\ ~active[d]
    BY <2>1 DEF OnLine, BInv, Books, Lines, StandsOn
  <2> QED BY <2>1, <2>2 DEF At
<1>15. Lines'
  <2>1. \A f \in Entry : \A i \in 1..Len(queue'[f]) : queue'[f][i] \in Caller
    BY <1>9
  <2> QED BY <1>13, <1>14, <2>1 DEF Lines, StandsOn, At
<1> QED BY <1>8, <1>9, <1>11, <1>12, <1>15

-----------------------------------------------------------------------------

\* A step of c leaves what all others count for alone.
Steady(c) ==
    \A d \in Caller \ {c} :
        /\ call'[d] = call[d] /\ active'[d] = active[d] /\ phase'[d] = phase[d]
        /\ OnLine(At(d), d)' <=> OnLine(At(d), d)

\* The counters of the registry, when c changes what it counts for there.
LEMMA ProcCounts ==
    ASSUME BInv, NEW c \in Caller, Steady(c),
           \/ (OnLine(At(c), c)' <=> OnLine(At(c), c)) /\ waiters' = waiters
           \/ OnLine(At(c), c)' /\ ~OnLine(At(c), c) /\ waiters' = [waiters EXCEPT ![Home[c]] = @ + 1]
           \/ ~OnLine(At(c), c)' /\ OnLine(At(c), c) /\ waiters' = [waiters EXCEPT ![Home[c]] = @ - 1],
           \/ (active'[c] <=> active[c]) /\ leases' = leases
           \/ active'[c] /\ ~active[c] /\ leases' = [leases EXCEPT ![Home[c]] = @ + 1]
           \/ ~active'[c] /\ active[c] /\ leases' = [leases EXCEPT ![Home[c]] = @ - 1],
           \/ (Owes(c)' <=> Owes(c)) /\ pending' = pending
           \/ Owes(c)' /\ ~Owes(c) /\ pending' = [pending EXCEPT ![Home[c]] = @ + 1]
           \/ ~Owes(c)' /\ Owes(c) /\ pending' = [pending EXCEPT ![Home[c]] = @ - 1]
    PROVE  /\ waiters' \in [Proc -> Int] /\ \A p \in Proc : waiters'[p] = Cardinality(Lined'[p])
           /\ leases' \in [Proc -> Int] /\ \A p \in Proc : leases'[p] = Cardinality(Leased'[p])
           /\ pending' \in [Proc -> Int] /\ \A p \in Proc : pending'[p] = Cardinality(Owing'[p])
<1>1. /\ \A d \in Caller : Home[d] \in Proc
      /\ waiters \in [Proc -> Int] /\ leases \in [Proc -> Int] /\ pending \in [Proc -> Int]
  BY HomeAssumption DEF BInv, Books, BooksType
<1>2. waiters' \in [Proc -> Int] /\ leases' \in [Proc -> Int] /\ pending' \in [Proc -> Int]
  BY <1>1
<1>3. ASSUME NEW p \in Proc PROVE waiters'[p] = Cardinality(Lined'[p])
  <2>1. Lined[p] \in SUBSET Caller /\ Lined'[p] \in SUBSET Caller
    BY DEF Lined, Peers
  <2>2. \A q \in Proc, d \in Caller : /\ d \in Lined[q] <=> Home[d] = q /\ OnLine(At(d), d)
                                      /\ d \in Lined'[q] <=> Home[d] = q /\ OnLine(At(d), d)'
    BY DEF Lined, Peers
  <2>3. \A d \in Caller \ {c} : d \in Lined'[p] <=> d \in Lined[p]
    BY <2>2 DEF Steady
  <2>4. waiters[p] = Cardinality(Lined[p])
    BY DEF BInv, Counts
  <2>5. /\ Cardinality(Lined[p]) \in Nat
        /\ (c \in Lined'[p] <=> c \in Lined[p]) => Cardinality(Lined'[p]) = Cardinality(Lined[p])
        /\ c \in Lined'[p] /\ c \notin Lined[p] => Cardinality(Lined'[p]) = Cardinality(Lined[p]) + 1
        /\ c \notin Lined'[p] /\ c \in Lined[p] => Cardinality(Lined'[p]) = Cardinality(Lined[p]) - 1
    BY <2>1, <2>3, Tallied
  <2>6. /\ c \in Lined[p] <=> Home[c] = p /\ OnLine(At(c), c)
        /\ c \in Lined'[p] <=> Home[c] = p /\ OnLine(At(c), c)'
    BY <2>2
  <2> QED BY <1>1, <2>4, <2>5, <2>6
<1>4. ASSUME NEW p \in Proc PROVE leases'[p] = Cardinality(Leased'[p])
  <2>1. Leased[p] \in SUBSET Caller /\ Leased'[p] \in SUBSET Caller
    BY DEF Leased, Peers
  <2>2. \A q \in Proc, d \in Caller : /\ d \in Leased[q] <=> Home[d] = q /\ active[d]
                                      /\ d \in Leased'[q] <=> Home[d] = q /\ active'[d]
    BY DEF Leased, Peers
  <2>3. \A d \in Caller \ {c} : d \in Leased'[p] <=> d \in Leased[p]
    BY <2>2 DEF Steady
  <2>4. leases[p] = Cardinality(Leased[p])
    BY DEF BInv, Counts
  <2>5. /\ Cardinality(Leased[p]) \in Nat
        /\ (c \in Leased'[p] <=> c \in Leased[p]) => Cardinality(Leased'[p]) = Cardinality(Leased[p])
        /\ c \in Leased'[p] /\ c \notin Leased[p] => Cardinality(Leased'[p]) = Cardinality(Leased[p]) + 1
        /\ c \notin Leased'[p] /\ c \in Leased[p] => Cardinality(Leased'[p]) = Cardinality(Leased[p]) - 1
    BY <2>1, <2>3, Tallied
  <2>6. /\ c \in Leased[p] <=> Home[c] = p /\ active[c]
        /\ c \in Leased'[p] <=> Home[c] = p /\ active'[c]
    BY <2>2
  <2> QED BY <1>1, <2>4, <2>5, <2>6
<1>5. ASSUME NEW p \in Proc PROVE pending'[p] = Cardinality(Owing'[p])
  <2>1. Owing[p] \in SUBSET Caller /\ Owing'[p] \in SUBSET Caller
    BY DEF Owing, Peers
  <2>2. \A q \in Proc, d \in Caller : /\ d \in Owing[q] <=> Home[d] = q /\ Owes(d)
                                      /\ d \in Owing'[q] <=> Home[d] = q /\ Owes(d)'
    BY DEF Owing, Peers
  <2>3. \A d \in Caller \ {c} : d \in Owing'[p] <=> d \in Owing[p]
    BY <2>2 DEF Steady, Owes, At
  <2>4. pending[p] = Cardinality(Owing[p])
    BY DEF BInv, Counts
  <2>5. /\ Cardinality(Owing[p]) \in Nat
        /\ (c \in Owing'[p] <=> c \in Owing[p]) => Cardinality(Owing'[p]) = Cardinality(Owing[p])
        /\ c \in Owing'[p] /\ c \notin Owing[p] => Cardinality(Owing'[p]) = Cardinality(Owing[p]) + 1
        /\ c \notin Owing'[p] /\ c \in Owing[p] => Cardinality(Owing'[p]) = Cardinality(Owing[p]) - 1
    BY <2>1, <2>3, Tallied
  <2>6. /\ c \in Owing[p] <=> Home[c] = p /\ Owes(c)
        /\ c \in Owing'[p] <=> Home[c] = p /\ Owes(c)'
    BY <2>2
  <2> QED BY <1>1, <2>4, <2>5, <2>6
<1> QED BY <1>2, <1>3, <1>4, <1>5

\* The books of an entry, when c joins it, leaves it, or does neither.
LEMMA EntryCounts ==
    ASSUME BInv, IInv, NEW c \in Caller, Steady(c), active'[c] \in BOOLEAN,
           \/ /\ active'[c] = active[c] /\ (active[c] => call'[c] = call[c])
              /\ readers' = readers /\ writer' = writer
           \/ /\ ~active[c] /\ active'[c] /\ call'[c] = call[c]
              /\ IF call[c].mode = "SH"
                 THEN readers' = [readers EXCEPT ![At(c)] = @ + 1] /\ writer' = writer
                 ELSE writer' = [writer EXCEPT ![At(c)] = TRUE] /\ readers' = readers
           \/ /\ active[c] /\ ~active'[c]
              /\ IF call[c].mode = "SH"
                 THEN readers' = [readers EXCEPT ![At(c)] = @ - 1] /\ writer' = writer
                 ELSE writer' = [writer EXCEPT ![At(c)] = FALSE] /\ readers' = readers
    PROVE  /\ readers' \in [Entry -> Int] /\ \A e \in Entry : readers'[e] = Cardinality(Reading'[e])
           /\ writer' \in [Entry -> BOOLEAN]
           /\ (\A e \in Entry :
                  writer[e] <=> \E d \in Caller : At(d) = e /\ active[d] /\ call[d].mode = "EX")'
<1>1. /\ \A d \in Caller : At(d) \in Entry /\ call[d].mode \in Mode
      /\ readers \in [Entry -> Int] /\ writer \in [Entry -> BOOLEAN]
      /\ active \in [Caller -> BOOLEAN]
  BY HomeAssumption DEF BInv, Books, BooksType, IInv, LeaseType, At, Entry
<1>2. readers' \in [Entry -> Int] /\ writer' \in [Entry -> BOOLEAN]
  <2>1. \/ readers' = readers \/ readers' = [readers EXCEPT ![At(c)] = @ + 1]
        \/ readers' = [readers EXCEPT ![At(c)] = @ - 1]
    OBVIOUS
  <2>2. \/ writer' = writer \/ writer' = [writer EXCEPT ![At(c)] = TRUE]
        \/ writer' = [writer EXCEPT ![At(c)] = FALSE]
    OBVIOUS
  <2>3. readers' \in [Entry -> Int]
    BY <1>1, <2>1
  <2>4. writer' \in [Entry -> BOOLEAN]
    BY <1>1, <2>2
  <2> QED BY <2>3, <2>4
<1>3. ASSUME NEW e \in Entry PROVE readers'[e] = Cardinality(Reading'[e])
  <2>1. Reading[e] \in SUBSET Caller /\ Reading'[e] \in SUBSET Caller
    BY DEF Reading
  <2>2. \A f \in Entry, d \in Caller :
           /\ d \in Reading[f] <=> At(d) = f /\ active[d] /\ call[d].mode = "SH"
           /\ d \in Reading'[f] <=> <<Home[d], call'[d].key>> = f /\ active'[d] /\ call'[d].mode = "SH"
    BY DEF Reading, At
  <2>3. ASSUME NEW d \in Caller \ {c} PROVE d \in Reading'[e] <=> d \in Reading[e]
    <3>1. call'[d] = call[d] /\ active'[d] = active[d]
      BY DEF Steady
    <3>2. /\ d \in Reading[e] <=> At(d) = e /\ active[d] /\ call[d].mode = "SH"
          /\ d \in Reading'[e] <=> <<Home[d], call'[d].key>> = e /\ active'[d] /\ call'[d].mode = "SH"
      BY <2>2
    <3> QED BY <3>1, <3>2 DEF At
  <2>4. readers[e] = Cardinality(Reading[e])
    BY DEF BInv, Counts
  <2>5. /\ Cardinality(Reading[e]) \in Nat
        /\ (c \in Reading'[e] <=> c \in Reading[e]) => Cardinality(Reading'[e]) = Cardinality(Reading[e])
        /\ c \in Reading'[e] /\ c \notin Reading[e] => Cardinality(Reading'[e]) = Cardinality(Reading[e]) + 1
        /\ c \notin Reading'[e] /\ c \in Reading[e] => Cardinality(Reading'[e]) = Cardinality(Reading[e]) - 1
    BY <2>1, <2>3, Tallied
  <2>6. /\ c \in Reading[e] <=> At(c) = e /\ active[c] /\ call[c].mode = "SH"
        /\ c \in Reading'[e] <=> <<Home[c], call'[c].key>> = e /\ active'[c] /\ call'[c].mode = "SH"
    BY <2>2
  <2>7. At(c) = <<Home[c], call[c].key>>
    BY DEF At
  <2> QED BY <1>1, <2>4, <2>5, <2>6, <2>7
<1>4. ASSUME NEW e \in Entry
      PROVE  writer'[e] <=> \E d \in Caller :
                 <<Home[d], call'[d].key>> = e /\ active'[d] /\ call'[d].mode = "EX"
  <2> DEFINE W(d) == At(d) = e /\ active[d] /\ call[d].mode = "EX"
             V(d) == <<Home[d], call'[d].key>> = e /\ active'[d] /\ call'[d].mode = "EX"
  <2> SUFFICES writer'[e] <=> \E d \in Caller : V(d)
    OBVIOUS
  <2>1. writer[e] <=> \E d \in Caller : W(d)
    BY DEF BInv, Counts
  <2>2. \A d \in Caller \ {c} : V(d) <=> W(d)
    BY DEF Steady, At
  <2>3. CASE (V(c) <=> W(c)) /\ writer' = writer
    BY <2>1, <2>2, <2>3
  <2>4. CASE ~active[c] /\ active'[c] /\ call'[c] = call[c] /\ call[c].mode = "EX"
             /\ writer' = [writer EXCEPT ![At(c)] = TRUE]
    <3>1. V(c) <=> e = At(c)
      BY <2>4 DEF At
    <3>2. ~W(c)
      BY <2>4
    <3>3. writer'[e] = IF e = At(c) THEN TRUE ELSE writer[e]
      BY <1>1, <2>4
    <3> HIDE DEF V, W
    <3>4. CASE e = At(c)
      <4>1. writer'[e] = TRUE
        BY <3>3, <3>4
      <4> QED BY <3>1, <3>4, <4>1
    <3>5. CASE e # At(c)
      <4>1. writer'[e] = writer[e]
        BY <3>3, <3>5
      <4> QED BY <2>1, <2>2, <3>1, <3>2, <3>5, <4>1
    <3> QED BY <3>4, <3>5
  <2>5. CASE active[c] /\ ~active'[c] /\ call[c].mode = "EX"
             /\ writer' = [writer EXCEPT ![At(c)] = FALSE]
    <3>1. ~V(c) /\ (W(c) <=> e = At(c))
      BY <2>5
    <3>2. \A d \in Caller \ {c} : W(d) => e # At(c)
      BY <2>5 DEF BInv, BookkeepingExclusive
    <3>3. writer'[e] = IF e = At(c) THEN FALSE ELSE writer[e]
      BY <1>1, <2>5
    <3> HIDE DEF V, W
    <3>4. CASE e = At(c)
      <4>1. writer'[e] = FALSE
        BY <3>3, <3>4
      <4> QED BY <2>2, <3>1, <3>2, <3>4, <4>1
    <3>5. CASE e # At(c)
      <4>1. writer'[e] = writer[e]
        BY <3>3, <3>5
      <4> QED BY <2>1, <2>2, <3>1, <3>2, <3>5, <4>1
    <3> QED BY <3>4, <3>5
  <2> QED BY <1>1, <2>3, <2>4, <2>5 DEF Mode, At
<1>5. (\A e \in Entry :
          writer[e] <=> \E d \in Caller : At(d) = e /\ active[d] /\ call[d].mode = "EX")'
  BY <1>4 DEF At
<1> QED BY <1>2, <1>3, <1>5

\* Whoever becomes active is alone, or reads among readers.
LEMMA ExclusiveStep ==
    ASSUME BookkeepingExclusive, NEW c \in Caller, Steady(c),
           active'[c] => /\ call'[c] = call[c]
                         /\ \/ active[c]
                            \/ \A d \in Caller \ {c} : active[d] /\ At(d) = At(c)
                                  => call[c].mode = "SH" /\ call[d].mode = "SH"
    PROVE  BookkeepingExclusive'
<1> SUFFICES ASSUME NEW a \in Caller, NEW b \in Caller, a # b, active'[a], active'[b],
                    Home[a] = Home[b], call'[a].key = call'[b].key
             PROVE  call'[a].mode = "SH" /\ call'[b].mode = "SH"
  BY DEF BookkeepingExclusive, At
<1>1. \A d \in Caller \ {c} : call'[d] = call[d] /\ active'[d] = active[d]
  BY DEF Steady
<1>2. \A d, f \in Caller : d # f /\ active[d] /\ active[f]
                          /\ Home[d] = Home[f] /\ call[d].key = call[f].key
                          => call[d].mode = "SH" /\ call[f].mode = "SH"
  BY DEF BookkeepingExclusive, At
<1>3. active'[c] => /\ call'[c] = call[c]
                    /\ \/ active[c]
                       \/ \A d \in Caller \ {c} :
                             active[d] /\ Home[d] = Home[c] /\ call[d].key = call[c].key
                             => call[c].mode = "SH" /\ call[d].mode = "SH"
  BY DEF At
<1>4. CASE a # c /\ b # c
  BY <1>1, <1>2, <1>4
<1>5. CASE a = c
  BY <1>1, <1>2, <1>3, <1>5
<1>6. CASE b = c
  BY <1>1, <1>2, <1>3, <1>6
<1> QED BY <1>4, <1>5, <1>6

\* A step of c that keeps its line and changes each counter by what c counts for.
LEMMA StepBooks ==
    ASSUME BInv, IInv, IInv', NEW c \in Caller, Steady(c),
           queue' \in [Entry -> Seq(Caller)], attempt' \in [Entry -> Caller \cup {None}], Lines',
           /\ phase'[c] \in Waiting \cup {"abort"} => OnLine(At(c), c)'
           /\ phase'[c] \in {"held", "release"} => active'[c]
           /\ active'[c] => phase'[c] \in {"held", "release", "unlockRw", "unlockTurn", "settle"},
           /\ waiters' \in [Proc -> Int] /\ \A p \in Proc : waiters'[p] = Cardinality(Lined'[p])
           /\ leases' \in [Proc -> Int] /\ \A p \in Proc : leases'[p] = Cardinality(Leased'[p])
           /\ pending' \in [Proc -> Int] /\ \A p \in Proc : pending'[p] = Cardinality(Owing'[p]),
           /\ readers' \in [Entry -> Int] /\ \A e \in Entry : readers'[e] = Cardinality(Reading'[e])
           /\ writer' \in [Entry -> BOOLEAN]
           /\ (\A e \in Entry :
                  writer[e] <=> \E d \in Caller : At(d) = e /\ active[d] /\ call[d].mode = "EX")',
           active'[c] => /\ call'[c] = call[c]
                         /\ \/ active[c]
                            \/ \A d \in Caller \ {c} : active[d] /\ At(d) = At(c)
                                  => call[c].mode = "SH" /\ call[d].mode = "SH"
    PROVE  BInv'
<1>1. BooksType'
  BY DEF BooksType
<1>2. Places'
  <2> SUFFICES ASSUME NEW d \in Caller
               PROVE  /\ phase'[d] \in Waiting \cup {"abort"} => OnLine(At(d), d)'
                      /\ phase'[d] \in {"held", "release"} => active'[d]
                      /\ active'[d] => phase'[d] \in {"held", "release", "unlockRw", "unlockTurn",
                                                      "settle"}
    BY DEF Places
  <2>1. CASE d # c
    BY <2>1 DEF Steady, BInv, Books, Places
  <2>2. CASE d = c
    BY <2>2
  <2> QED BY <2>1, <2>2
<1>3. Counts'
  BY DEF Counts
<1>4. BookkeepingExclusive'
  BY ExclusiveStep DEF BInv
<1> QED BY <1>1, <1>2, <1>3, <1>4 DEF BInv, Books

\* A thread that is on no line, and does not enter one.
LEMMA OffLine ==
    ASSUME BInv, IInv, IInv', NEW c \in Caller, queue' = queue,
           phase[c] \notin Waiting \cup {"abort", "cleanup"},
           \A d \in Caller \ {c} :
              call'[d] = call[d] /\ active'[d] = active[d] /\ phase'[d] = phase[d]
    PROVE  /\ Lines' /\ Steady(c)
           /\ ~OnLine(At(c), c) /\ ~OnLine(At(c), c)'
<1>1. \A e \in Entry : ~OnLine(e, c)
  BY DEF BInv, Books, Lines, StandsOn, OnLine
<1>2. At(c) \in Entry /\ <<Home[c], call'[c].key>> \in Entry
  BY HomeAssumption DEF IInv, LeaseType, At, Entry
<1>3. ~OnLine(At(c), c) /\ ~OnLine(At(c), c)'
  BY <1>1, <1>2 DEF OnLine, At
<1>4. Steady(c)
  BY DEF Steady, OnLine, At
<1>5. Lines'
  <2> SUFFICES ASSUME NEW e \in Entry, NEW i \in 1..Len(queue[e])
               PROVE  LET d == queue[e][i] IN
                      /\ <<Home[d], call'[d].key>> = e
                      /\ phase'[d] \in Waiting \cup {"abort", "cleanup"} /\ ~active'[d]
    BY DEF BInv, Books, Lines, StandsOn, At
  <2>1. queue[e][i] \in Caller \ {c}
    BY <1>1 DEF BInv, Books, BooksType, OnLine
  <2> QED BY <2>1 DEF BInv, Books, Lines, StandsOn, At
<1> QED BY <1>3, <1>4, <1>5

-----------------------------------------------------------------------------
(* The steps. *)

LEMMA AcquireBooks ==
    ASSUME BInv, IInv, IInv', NEW c \in Caller, NEW k \in Key, NEW m \in Mode, NEW t \in BOOLEAN,
           Acquire(c, k, m, t)
    PROVE  BInv'
<1>1. PICK e \in Entry : e = <<Home[c], k>>
  BY HomeAssumption DEF Entry
<1>2. PICK line \in Seq(Caller) : line = queue[e] /\ queue \in [Entry -> Seq(Caller)]
  BY DEF BInv, Books, BooksType
<1>3. PICK s \in Seq(Caller) : s = Append(line, c)
  <2>1. Append(line, c) \in Seq(Caller)
    BY <1>2
  <2> QED BY <2>1
<1>4. /\ phase[c] = "idle" /\ ~active[c] /\ call'[c].key = k /\ phase'[c] = "queued"
      /\ \A d \in Caller \ {c} : call'[d] = call[d] /\ phase'[d] = phase[d]
      /\ active' = active /\ queue' = [queue EXCEPT ![e] = s]
      /\ waiters' = [waiters EXCEPT ![Home[c]] = @ + 1]
      /\ UNCHANGED <<attempt, readers, writer, leases, pending>>
  BY <1>1, <1>2, <1>3 DEF Acquire, Goto, IInv, LeaseType, BInv, Books, Places
<1>5. /\ Len(line) \in Nat /\ Len(s) = Len(line) + 1 /\ s[Len(line) + 1] = c
      /\ \A i \in 1..Len(line) : s[i] = line[i] /\ i \in 1..Len(s)
      /\ Len(line) + 1 \in 1..Len(s)
      /\ \A i \in 1..Len(s) : i \in 1..Len(line) \/ i = Len(line) + 1
  BY <1>3
<1>6. \A f \in Entry : ~OnLine(f, c)
  BY <1>4 DEF BInv, Books, Lines, StandsOn, OnLine, Waiting
<1>7. queue' \in [Entry -> Seq(Caller)] /\ queue'[e] = s
      /\ \A f \in Entry : f # e => queue'[f] = queue[f]
  BY <1>2, <1>4
<1>8. Steady(c)
  <2> SUFFICES ASSUME NEW d \in Caller \ {c}
               PROVE  OnLine(At(d), d)' <=> OnLine(At(d), d)
    BY <1>4 DEF Steady
  <2> SUFFICES (\E i \in 1..Len(queue'[At(d)]) : queue'[At(d)][i] = d)
               <=> \E i \in 1..Len(queue[At(d)]) : queue[At(d)][i] = d
    BY <1>4 DEF OnLine, At
  <2>1. At(d) \in Entry
    BY HomeAssumption DEF IInv, LeaseType, At, Entry
  <2>2. CASE At(d) # e
    BY <1>7, <2>1, <2>2
  <2>3. CASE At(d) = e
    <3>1. queue'[At(d)] = s /\ queue[At(d)] = line
      BY <1>2, <1>7, <2>3
    <3>2. (\E i \in 1..Len(s) : s[i] = d) <=> \E i \in 1..Len(line) : line[i] = d
      BY <1>5
    <3> QED BY <3>1, <3>2
  <2> QED BY <2>2, <2>3
<1>9. OnLine(At(c), c)' /\ ~OnLine(At(c), c)
  <2>1. At(c) \in Entry
    BY HomeAssumption DEF IInv, LeaseType, At, Entry
  <2>2. ~OnLine(At(c), c)
    BY <1>6, <2>1
  <2>3. \E i \in 1..Len(queue'[e]) : queue'[e][i] = c
    BY <1>5, <1>7
  <2>4. OnLine(At(c), c)'
    BY <1>1, <1>4, <2>3 DEF OnLine, At
  <2> QED BY <2>2, <2>4
<1>10. Lines'
  <2> SUFFICES ASSUME NEW f \in Entry
               PROVE  /\ \A i \in 1..Len(queue'[f]) :
                            LET d == queue'[f][i] IN
                            /\ <<Home[d], call'[d].key>> = f
                            /\ phase'[d] \in Waiting \cup {"abort", "cleanup"} /\ ~active[d]
                      /\ \A i, j \in 1..Len(queue'[f]) : queue'[f][i] = queue'[f][j] => i = j
    BY <1>4 DEF Lines, StandsOn, At
  <2>1. /\ \A i \in 1..Len(queue[f]) :
             LET d == queue[f][i] IN
             /\ d \in Caller \ {c} /\ <<Home[d], call'[d].key>> = f
             /\ phase'[d] \in Waiting \cup {"abort", "cleanup"} /\ ~active[d]
        /\ \A i, j \in 1..Len(queue[f]) : queue[f][i] = queue[f][j] => i = j
    <3>1. \A i \in 1..Len(queue[f]) : queue[f][i] \in Caller \ {c}
      BY <1>2, <1>6 DEF OnLine
    <3> QED BY SMTT(30), <1>4, <3>1 DEF BInv, Books, Lines, StandsOn, At
  <2>2. CASE f # e
    <3>1. queue'[f] = queue[f]
      BY <1>2, <1>7, <2>2
    <3> QED BY <2>1, <3>1
  <2>3. CASE f = e
    <3>1. queue'[f] = s /\ queue[f] = line
      BY <1>2, <1>7, <2>3
    <3>2. \A i \in 1..Len(s) :
             LET d == s[i] IN
             /\ <<Home[d], call'[d].key>> = f
             /\ phase'[d] \in Waiting \cup {"abort", "cleanup"} /\ ~active[d]
      BY <1>1, <1>4, <1>5, <2>1, <2>3, <3>1 DEF Waiting
    <3>3. \A i, j \in 1..Len(s) : s[i] = s[j] => i = j
      BY <1>5, <2>1, <3>1
    <3> QED BY <3>1, <3>2, <3>3
  <2> QED BY <2>2, <2>3
<1>11. ~Owes(c)' /\ ~Owes(c)
  BY <1>4 DEF Owes
<1>12. /\ waiters' \in [Proc -> Int] /\ \A p \in Proc : waiters'[p] = Cardinality(Lined'[p])
       /\ leases' \in [Proc -> Int] /\ \A p \in Proc : leases'[p] = Cardinality(Leased'[p])
       /\ pending' \in [Proc -> Int] /\ \A p \in Proc : pending'[p] = Cardinality(Owing'[p])
  BY <1>4, <1>8, <1>9, <1>11, ProcCounts
<1>13. /\ readers' \in [Entry -> Int] /\ \A f \in Entry : readers'[f] = Cardinality(Reading'[f])
       /\ writer' \in [Entry -> BOOLEAN]
       /\ (\A f \in Entry :
              writer[f] <=> \E d \in Caller : At(d) = f /\ active[d] /\ call[d].mode = "EX")'
  BY <1>4, <1>8, EntryCounts DEF IInv, LeaseType
<1>14. attempt' \in [Entry -> Caller \cup {None}]
  BY <1>4 DEF BInv, Books, BooksType
<1>15. phase'[c] \notin {"held", "release"}
  BY <1>4
<1> QED BY <1>4, <1>7, <1>8, <1>9, <1>10, <1>12, <1>13, <1>14, <1>15, StepBooks

\* A thread that leaves its line for good, or to unlock what it holds
\* (lock_registry_acquire_internal, lock_registry_abort_attempt, cbm_lock_lease_release).
LEMMA LeaveBooks ==
    ASSUME BInv, IInv, IInv', NEW c \in Caller, Dequeue(c),
           \A d \in Caller \ {c} : call'[d] = call[d] /\ phase'[d] = phase[d],
           UNCHANGED <<active, readers, writer, leases>>,
           attempt' \in [Entry -> Caller \cup {None}],
           \/ phase'[c] = "idle" /\ pending' = pending
           \/ /\ phase'[c] = "unlockRw" /\ pending' = [pending EXCEPT ![Home[c]] = @ + 1]
    PROVE  BInv'
<1>1. /\ queue' \in [Entry -> Seq(Caller)] /\ Lines'
      /\ OnLine(At(c), c) /\ ~OnLine(At(c), c)'
      /\ \A d \in Caller \ {c} : OnLine(At(d), d)' <=> OnLine(At(d), d)
  BY DequeueLines
<1>2. Steady(c)
  BY <1>1 DEF Steady
<1>3. ~active[c]
  <2>1. PICK i \in 1..Len(queue[At(c)]) : queue[At(c)][i] = c
    BY <1>1 DEF OnLine
  <2>2. At(c) \in Entry
    BY HomeAssumption DEF IInv, LeaseType, At, Entry
  <2> QED BY <2>1, <2>2 DEF BInv, Books, Lines, StandsOn
<1>4. ~Owes(c) /\ (Owes(c)' <=> phase'[c] = "unlockRw")
  BY <1>1, <1>3 DEF Owes
<1>5. waiters' = [waiters EXCEPT ![Home[c]] = @ - 1]
  BY DEF Dequeue
<1>6. /\ waiters' \in [Proc -> Int] /\ \A p \in Proc : waiters'[p] = Cardinality(Lined'[p])
      /\ leases' \in [Proc -> Int] /\ \A p \in Proc : leases'[p] = Cardinality(Leased'[p])
      /\ pending' \in [Proc -> Int] /\ \A p \in Proc : pending'[p] = Cardinality(Owing'[p])
  BY <1>1, <1>2, <1>4, <1>5, ProcCounts
<1>7. /\ readers' \in [Entry -> Int] /\ \A f \in Entry : readers'[f] = Cardinality(Reading'[f])
      /\ writer' \in [Entry -> BOOLEAN]
      /\ (\A f \in Entry :
             writer[f] <=> \E d \in Caller : At(d) = f /\ active[d] /\ call[d].mode = "EX")'
  BY <1>2, <1>3, EntryCounts DEF IInv, LeaseType
<1>8. phase'[c] \notin Waiting \cup {"abort", "held", "release"} /\ ~active'[c]
  BY <1>3 DEF Waiting
<1> QED BY <1>1, <1>2, <1>6, <1>7, <1>8, StepBooks

\* A waiter that becomes a holder.
LEMMA ActivateBooks ==
    ASSUME BInv, IInv, IInv', NEW c \in Caller, Activate(c)
    PROVE  BInv'
<1>1. /\ Dequeue(c) /\ LocalStateReady(c) /\ phase' = [phase EXCEPT ![c] = "held"]
      /\ active' = [active EXCEPT ![c] = TRUE] /\ UNCHANGED <<call, pending>>
      /\ leases' = [leases EXCEPT ![Home[c]] = @ + 1]
      /\ attempt' = [attempt EXCEPT ![At(c)] = None]
      /\ IF call[c].mode = "SH"
         THEN readers' = [readers EXCEPT ![At(c)] = @ + 1] /\ writer' = writer
         ELSE writer' = [writer EXCEPT ![At(c)] = TRUE] /\ readers' = readers
  BY DEF Activate, Goto
<1>2. phase'[c] = "held" /\ active'[c] = TRUE /\ At(c) \in Entry /\ call[c].mode \in Mode
      /\ \A d \in Caller \ {c} : call'[d] = call[d] /\ active'[d] = active[d] /\ phase'[d] = phase[d]
  BY <1>1, HomeAssumption DEF IInv, LeaseType, At, Entry
<1>3. /\ queue' \in [Entry -> Seq(Caller)] /\ Lines'
      /\ OnLine(At(c), c) /\ ~OnLine(At(c), c)'
      /\ \A d \in Caller \ {c} : OnLine(At(d), d)' <=> OnLine(At(d), d)
  BY <1>1, <1>2, DequeueLines
<1>4. Steady(c)
  BY <1>2, <1>3 DEF Steady
<1>5. ~active[c]
  <2>1. PICK i \in 1..Len(queue[At(c)]) : queue[At(c)][i] = c
    BY <1>3 DEF OnLine
  <2> QED BY <1>2, <2>1 DEF BInv, Books, Lines, StandsOn
<1>6. ~Owes(c) /\ ~Owes(c)'
  BY <1>2, <1>3 DEF Owes
<1>7. waiters' = [waiters EXCEPT ![Home[c]] = @ - 1]
  BY <1>1 DEF Dequeue
<1>8. /\ waiters' \in [Proc -> Int] /\ \A p \in Proc : waiters'[p] = Cardinality(Lined'[p])
      /\ leases' \in [Proc -> Int] /\ \A p \in Proc : leases'[p] = Cardinality(Leased'[p])
      /\ pending' \in [Proc -> Int] /\ \A p \in Proc : pending'[p] = Cardinality(Owing'[p])
  BY <1>1, <1>2, <1>3, <1>4, <1>5, <1>6, <1>7, ProcCounts
<1>9. /\ readers' \in [Entry -> Int] /\ \A f \in Entry : readers'[f] = Cardinality(Reading'[f])
      /\ writer' \in [Entry -> BOOLEAN]
      /\ (\A f \in Entry :
             writer[f] <=> \E d \in Caller : At(d) = f /\ active[d] /\ call[d].mode = "EX")'
  BY <1>1, <1>2, <1>4, <1>5, EntryCounts
\* The counters say that nobody else is active, or that who is reads.
<1>10. \A d \in Caller \ {c} : active[d] /\ At(d) = At(c)
          => call[c].mode = "SH" /\ call[d].mode = "SH"
  <2> SUFFICES ASSUME NEW d \in Caller \ {c}, active[d], At(d) = At(c)
               PROVE  call[c].mode = "SH" /\ call[d].mode = "SH"
    OBVIOUS
  <2>1. call[d].mode \in Mode
    BY DEF IInv, LeaseType
  <2>2. call[d].mode = "SH"
    <3>1. ~writer[At(c)]
      BY <1>1 DEF LocalStateReady
    <3>2. writer[At(c)] <=> \E f \in Caller : At(f) = At(c) /\ active[f] /\ call[f].mode = "EX"
      BY <1>2 DEF BInv, Counts
    <3>3. call[d].mode # "EX"
      BY <3>1, <3>2
    <3> QED BY <2>1, <3>3 DEF Mode
  <2>3. d \in Reading[At(c)]
    BY <1>2, <2>2 DEF Reading
  <2>4. readers[At(c)] # 0
    <3>1. readers[At(c)] = Cardinality(Reading[At(c)])
      BY <1>2 DEF BInv, Counts
    <3>2. IsFiniteSet(Reading[At(c)])
      <4>1. Reading[At(c)] \in SUBSET Caller
        BY <1>2 DEF Reading
      <4> QED BY <4>1, CallerAssumption, FS_Subset
    <3>3. Cardinality(Reading[At(c)]) # 0
      BY <2>3, <3>2, FS_EmptySet
    <3> QED BY <3>1, <3>3
  <2>5. call[c].mode # "EX"
    BY <1>1, <2>4 DEF LocalStateReady
  <2> QED BY <1>2, <2>2, <2>5 DEF Mode
<1>11. attempt' \in [Entry -> Caller \cup {None}]
  BY <1>1 DEF BInv, Books, BooksType
<1>12. /\ phase'[c] \in Waiting \cup {"abort"} => OnLine(At(c), c)'
       /\ phase'[c] \in {"held", "release"} => active'[c]
       /\ active'[c] => phase'[c] \in {"held", "release", "unlockRw", "unlockTurn", "settle"}
  BY <1>2 DEF Waiting
<1>13. active'[c] => /\ call'[c] = call[c]
                     /\ \/ active[c]
                        \/ \A d \in Caller \ {c} : active[d] /\ At(d) = At(c)
                              => call[c].mode = "SH" /\ call[d].mode = "SH"
  BY <1>1, <1>10
<1> QED BY <1>3, <1>4, <1>8, <1>9, <1>11, <1>12, <1>13, StepBooks

\* The end of a release: the bookkeeping of an active lease, or of one that is
\* only good for cleaning up.
LEMMA SettleBooks ==
    ASSUME BInv, IInv, IInv', NEW c \in Caller, phase[c] = "settle",
           \A d \in Caller \ {c} :
              call'[d] = call[d] /\ active'[d] = active[d] /\ phase'[d] = phase[d],
           UNCHANGED <<queue, attempt, waiters>>, ~active'[c],
           phase'[c] \in {"idle", "cleanup"},
           \/ /\ active[c] /\ leases' = [leases EXCEPT ![Home[c]] = @ - 1]
              /\ IF call[c].mode = "SH"
                 THEN readers' = [readers EXCEPT ![At(c)] = @ - 1] /\ writer' = writer
                 ELSE writer' = [writer EXCEPT ![At(c)] = FALSE] /\ readers' = readers
              /\ pending' = IF phase'[c] = "idle" THEN pending
                            ELSE [pending EXCEPT ![Home[c]] = @ + 1]
           \/ /\ ~active[c] /\ UNCHANGED <<leases, readers, writer>>
              /\ pending' = IF phase'[c] = "idle" THEN [pending EXCEPT ![Home[c]] = @ - 1]
                            ELSE pending
    PROVE  BInv'
<1>1. Lines' /\ Steady(c) /\ ~OnLine(At(c), c) /\ ~OnLine(At(c), c)'
  BY OffLine DEF Waiting
<1>2. (Owes(c) <=> ~active[c]) /\ (Owes(c)' <=> phase'[c] = "cleanup")
  BY <1>1 DEF Owes
<1>3. /\ waiters' \in [Proc -> Int] /\ \A p \in Proc : waiters'[p] = Cardinality(Lined'[p])
      /\ leases' \in [Proc -> Int] /\ \A p \in Proc : leases'[p] = Cardinality(Leased'[p])
      /\ pending' \in [Proc -> Int] /\ \A p \in Proc : pending'[p] = Cardinality(Owing'[p])
  <2>1. CASE active[c]
    BY <1>1, <1>2, <2>1, ProcCounts
  <2>2. CASE ~active[c]
    BY <1>1, <1>2, <2>2, ProcCounts
  <2> QED BY <2>1, <2>2
<1>4. active'[c] \in BOOLEAN /\ active[c] \in BOOLEAN
  BY DEF IInv, LeaseType
<1>5. /\ readers' \in [Entry -> Int] /\ \A f \in Entry : readers'[f] = Cardinality(Reading'[f])
      /\ writer' \in [Entry -> BOOLEAN]
      /\ (\A f \in Entry :
             writer[f] <=> \E d \in Caller : At(d) = f /\ active[d] /\ call[d].mode = "EX")'
  <2>1. CASE active[c]
    BY <1>1, <1>4, <2>1, EntryCounts
  <2>2. CASE ~active[c]
    BY <1>1, <1>4, <2>2, EntryCounts
  <2> QED BY <2>1, <2>2
<1>6. queue' \in [Entry -> Seq(Caller)] /\ attempt' \in [Entry -> Caller \cup {None}]
  BY DEF BInv, Books, BooksType
<1>7. phase'[c] \notin Waiting \cup {"abort", "held", "release"}
  BY DEF Waiting
<1> QED BY <1>1, <1>3, <1>5, <1>6, <1>7, StepBooks

-----------------------------------------------------------------------------
(* The actions. *)

\* What the books say of one thread.
LEMMA Standing ==
    ASSUME BInv, IInv, NEW c \in Caller
    PROVE  /\ OnLine(At(c), c) => phase[c] \in Waiting \cup {"abort", "cleanup"} /\ ~active[c]
           /\ phase[c] \in Waiting \cup {"abort"} => OnLine(At(c), c)
           /\ phase[c] \in {"held", "release"} => active[c]
           /\ active[c] => phase[c] \in {"held", "release", "unlockRw", "unlockTurn", "settle"}
           /\ Queued(c) <=> OnLine(At(c), c)
<1>1. At(c) \in Entry
  BY HomeAssumption DEF IInv, LeaseType, At, Entry
<1>2. Queued(c) <=> OnLine(At(c), c)
  BY <1>1 DEF Queued, OnLine, BInv, Books, BooksType
<1>3. ASSUME OnLine(At(c), c)
      PROVE  phase[c] \in Waiting \cup {"abort", "cleanup"} /\ ~active[c]
  BY <1>1, <1>3 DEF OnLine, BInv, Books, Lines, StandsOn
<1> QED BY <1>2, <1>3 DEF BInv, Books, Places

\* A waiter that goes on waiting, fails, or is about to back out.
LEMMA WaitingBooks ==
    ASSUME BInv, IInv, NEW c \in Caller, phase[c] \in Waiting,
           NEW q \in Waiting \cup {"abort", "cleanup"}, Goto(c, q),
           UNCHANGED <<call, active, queue, readers, writer, waiters, leases, pending>>,
           attempt' \in [Entry -> Caller \cup {None}]
    PROVE  BInv'
<1>1. OnLine(At(c), c) /\ ~active[c]
  BY Standing
<1>2. ~Owes(c)
  BY <1>1 DEF Owes
<1>3. q \in Phase /\ q \notin {"held", "release"}
  BY DEF Phase, Waiting
<1> QED BY <1>1, <1>2, <1>3, MoveBooks

\* A holder or a lease good only for cleaning up, on its way through a release.
LEMMA UnwindingBooks ==
    ASSUME BInv, IInv, NEW c \in Caller,
           phase[c] \in {"held", "release", "unlockRw", "unlockTurn", "cleanup"},
           ~OnLine(At(c), c),
           NEW q \in {"release", "unlockRw", "unlockTurn", "settle", "cleanup"}, Goto(c, q),
           q = "release" => active[c], q = "cleanup" => ~active[c],
           UNCHANGED <<call, active, queue, readers, writer, waiters, leases, pending, attempt>>
    PROVE  BInv'
<1>1. attempt' \in [Entry -> Caller \cup {None}]
  BY DEF BInv, Books, BooksType
<1>2. phase[c] \in {"held", "release"} => active[c]
  BY Standing
<1>3. Owes(c) <=> ~active[c]
  BY <1>2 DEF Owes
<1>4. /\ q \in Phase /\ q \notin Waiting \cup {"abort"}
      /\ ~active[c] => q \in {"unlockRw", "unlockTurn", "settle", "cleanup"}
      /\ active[c] => q \in {"held", "release", "unlockRw", "unlockTurn", "settle"}
  BY DEF Phase, Waiting
<1> QED BY <1>1, <1>3, <1>4, MoveBooks

LEMMA BystanderBooks ==
    ASSUME BInv, UNCHANGED <<phase, call, active, registry>>
    PROVE  BInv'
<1>1. UNCHANGED <<queue, attempt, readers, writer, waiters, leases, pending>>
  BY DEF registry
<1>2. BooksType'
  BY <1>1 DEF BInv, Books, BooksType
<1>3. Lines'
  BY <1>1 DEF BInv, Books, Lines, StandsOn, At
<1>4. Places'
  BY <1>1 DEF BInv, Books, Places, OnLine, At
<1>5. Lined' = Lined /\ Leased' = Leased /\ Owing' = Owing /\ Reading' = Reading
  BY <1>1 DEF Lined, Leased, Owing, Reading, Owes, OnLine, At
<1>6. Counts'
  BY <1>1, <1>5 DEF BInv, Counts, At
<1>7. BookkeepingExclusive'
  BY DEF BInv, BookkeepingExclusive, At
<1> QED BY <1>2, <1>3, <1>4, <1>6, <1>7 DEF BInv, Books

\* The attempt: from the head of the line to both native locks.
LEMMA AttemptBooks ==
    ASSUME BInv, IInv, NEW c \in Caller,
           \/ StartAttempt(c) \/ TakeTurn(c) \/ TakeRw(c) \/ GiveUp(c) \/ DropTurn(c)
           \/ BackOut(c) \/ Failure(c)
    PROVE  BInv'
<1>1. phase[c] \in Waiting
  BY DEF StartAttempt, TakeTurn, TakeRw, GiveUp, DropTurn, BackOut, Failure, WaitFails,
     AcquireFails, ReadyWaitFails, Waiting
<1>2. PICK q \in Waiting \cup {"abort", "cleanup"} : Goto(c, q)
  BY DEF StartAttempt, TakeTurn, TakeRw, GiveUp, DropTurn, BackOut, Failure, WaitFails,
     AcquireFails, ReadyWaitFails, Waiting
<1>3. UNCHANGED <<call, active, queue, readers, writer, waiters, leases, pending>>
  BY DEF StartAttempt, TakeTurn, TakeRw, GiveUp, DropTurn, BackOut, Failure, WaitFails,
     AcquireFails, ReadyWaitFails, registry
<1>4. attempt' = attempt \/ attempt' = [attempt EXCEPT ![At(c)] = c]
  BY DEF StartAttempt, TakeTurn, TakeRw, GiveUp, DropTurn, BackOut, Failure, WaitFails,
     AcquireFails, ReadyWaitFails, registry
<1>5. attempt' \in [Entry -> Caller \cup {None}]
  BY <1>4 DEF BInv, Books, BooksType
<1> QED BY <1>1, <1>2, <1>3, <1>5, WaitingBooks

\* A release up to its bookkeeping.
LEMMA ReleaseBooks ==
    ASSUME BInv, IInv, NEW c \in Caller, Release(c) \/ UnlockRw(c) \/ UnlockTurn(c)
    PROVE  BInv'
<1>1. phase[c] \in {"held", "release", "unlockRw", "unlockTurn"}
  BY DEF Release, UnlockRw, UnlockTurn
<1>2. ~OnLine(At(c), c)
  BY <1>1, Standing DEF Waiting
<1>3. UNCHANGED <<call, active, queue, readers, writer, waiters, leases, pending, attempt>>
  BY DEF Release, UnlockRw, UnlockTurn, registry
<1>4. PICK q \in {"release", "unlockRw", "unlockTurn", "settle", "cleanup"} :
         Goto(c, q) /\ (q = "release" => active[c]) /\ (q = "cleanup" => ~active[c])
  BY DEF Release, UnlockRw, UnlockTurn
<1> QED BY <1>1, <1>2, <1>3, <1>4, UnwindingBooks

\* Giving up, and the first release of a lease that is good only for cleaning up.
LEMMA AbandonBooks ==
    ASSUME BInv, IInv, IInv', NEW c \in Caller, LeaveQueue(c) \/ Abort(c) \/ ReleaseCleanup(c)
    PROVE  BInv'
<1>1. /\ UNCHANGED <<active, readers, writer, leases>>
      /\ phase \in [Caller -> Phase] /\ call \in [Caller -> [key : Key, mode : Mode, tryOnce : BOOLEAN]]
      /\ attempt \in [Entry -> Caller \cup {None}]
  BY DEF LeaveQueue, Abort, ReleaseCleanup, IInv, LeaseType, BInv, Books, BooksType
<1>2. CASE LeaveQueue(c)
  <2>1. Dequeue(c) /\ Idle(c) /\ UNCHANGED <<attempt, pending>>
    BY <1>2 DEF LeaveQueue
  <2>2. /\ phase'[c] = "idle"
        /\ \A d \in Caller \ {c} : call'[d] = call[d] /\ phase'[d] = phase[d]
    BY <1>1, <2>1 DEF Idle, Goto
  <2>3. attempt' \in [Entry -> Caller \cup {None}]
    BY <1>1, <2>1
  <2> QED BY <1>1, <2>1, <2>2, <2>3, LeaveBooks
<1>3. CASE ReleaseCleanup(c) /\ ~Queued(c)
  <2>1. /\ phase[c] = "cleanup" /\ Goto(c, "unlockRw")
        /\ UNCHANGED <<call, active, queue, readers, writer, waiters, leases, pending, attempt>>
    BY <1>3 DEF ReleaseCleanup
  <2>2. ~OnLine(At(c), c)
    BY <1>3, Standing
  <2> QED BY <2>1, <2>2, UnwindingBooks
<1>4. CASE Abort(c) \/ (ReleaseCleanup(c) /\ Queued(c))
  <2>1. /\ Dequeue(c) /\ Unclaim(c) /\ PendingUp(c)
        /\ IF HasNative(c) THEN Goto(c, "unlockRw") /\ UNCHANGED <<call, stop>> ELSE Idle(c)
    BY <1>4 DEF Abort, ReleaseCleanup
  <2>2. attempt' \in [Entry -> Caller \cup {None}]
    <3>1. attempt' = [attempt EXCEPT ![At(c)] = IF attempt[At(c)] = c THEN None ELSE attempt[At(c)]]
      BY <2>1 DEF Unclaim
    <3>2. At(c) \in Entry
      BY HomeAssumption DEF IInv, LeaseType, At, Entry
    <3> QED BY <1>1, <3>1, <3>2
  <2>3. \A d \in Caller \ {c} : call'[d] = call[d] /\ phase'[d] = phase[d]
    BY <1>1, <2>1 DEF Idle, Goto
  <2>4. \/ phase'[c] = "idle" /\ pending' = pending
        \/ phase'[c] = "unlockRw" /\ pending' = [pending EXCEPT ![Home[c]] = @ + 1]
    BY <1>1, <2>1 DEF Idle, Goto, PendingUp
  <2> QED BY <1>1, <2>1, <2>2, <2>3, <2>4, LeaveBooks
<1> QED BY <1>2, <1>3, <1>4

LEMMA DischargeBooks ==
    ASSUME BInv, IInv, IInv', NEW c \in Caller, Discharge(c) \/ CleanupSettled(c)
    PROVE  BInv'
<1>1. /\ active \in [Caller -> BOOLEAN] /\ phase \in [Caller -> Phase]
      /\ call \in [Caller -> [key : Key, mode : Mode, tryOnce : BOOLEAN]]
  BY DEF IInv, LeaseType
<1>2. CASE Discharge(c)
  <2>1. /\ phase[c] = "settle" /\ active[c]
        /\ active' = [active EXCEPT ![c] = FALSE]
        /\ leases' = [leases EXCEPT ![Home[c]] = @ - 1]
        /\ IF call[c].mode = "SH"
           THEN readers' = [readers EXCEPT ![At(c)] = @ - 1] /\ writer' = writer
           ELSE writer' = [writer EXCEPT ![At(c)] = FALSE] /\ readers' = readers
        /\ PendingUp(c)
        /\ IF HasNative(c) THEN Goto(c, "cleanup") /\ UNCHANGED <<call, stop>> ELSE Idle(c)
        /\ UNCHANGED <<queue, attempt, waiters>>
    BY <1>2 DEF Discharge
  <2>2. /\ phase'[c] \in {"idle", "cleanup"} /\ ~active'[c]
        /\ \A d \in Caller \ {c} :
              call'[d] = call[d] /\ active'[d] = active[d] /\ phase'[d] = phase[d]
    BY <1>1, <2>1 DEF Idle, Goto
  <2>3. pending' = IF phase'[c] = "idle" THEN pending ELSE [pending EXCEPT ![Home[c]] = @ + 1]
    BY <1>1, <2>1 DEF Idle, Goto, PendingUp
  <2> QED BY <2>1, <2>2, <2>3, SettleBooks
<1>3. CASE CleanupSettled(c)
  <2>1. /\ phase[c] = "settle" /\ ~active[c]
        /\ \/ Goto(c, "cleanup") /\ UNCHANGED <<call, pending>>
           \/ Idle(c) /\ pending' = [pending EXCEPT ![Home[c]] = @ - 1]
        /\ UNCHANGED <<active, queue, attempt, waiters, leases, readers, writer>>
    BY <1>3 DEF CleanupSettled
  <2>2. /\ phase'[c] \in {"idle", "cleanup"} /\ ~active'[c]
        /\ \A d \in Caller \ {c} :
              call'[d] = call[d] /\ active'[d] = active[d] /\ phase'[d] = phase[d]
    BY <1>1, <2>1 DEF Idle, Goto
  <2>3. pending' = IF phase'[c] = "idle" THEN [pending EXCEPT ![Home[c]] = @ - 1] ELSE pending
    BY <1>1, <2>1 DEF Idle, Goto
  <2> QED BY <2>1, <2>2, <2>3, SettleBooks
<1> QED BY <1>2, <1>3

\* A process dies: its threads count for nothing any more, and its books are new.
LEMMA CrashBooks ==
    ASSUME BInv, IInv, NEW p \in Proc, Crash(p)
    PROVE  BInv'
<1>0. /\ phase' = [c \in Caller |-> IF Home[c] = p THEN "idle" ELSE phase[c]]
      /\ call' = [c \in Caller |-> IF Home[c] = p THEN Blank ELSE call[c]]
      /\ active' = [c \in Caller |-> IF Home[c] = p THEN FALSE ELSE active[c]]
      /\ queue' = [e \in Entry |-> IF e[1] = p THEN <<>> ELSE queue[e]]
      /\ attempt' = [e \in Entry |-> IF e[1] = p THEN None ELSE attempt[e]]
      /\ readers' = [e \in Entry |-> IF e[1] = p THEN 0 ELSE readers[e]]
      /\ writer' = [e \in Entry |-> IF e[1] = p THEN FALSE ELSE writer[e]]
      /\ waiters' = [waiters EXCEPT ![p] = 0] /\ leases' = [leases EXCEPT ![p] = 0]
      /\ pending' = [pending EXCEPT ![p] = 0]
  BY DEF Crash
<1>1. \A c \in Caller : Home[c] = p => ~active'[c] /\ phase'[c] = "idle"
  BY <1>0
<1>2. \A c \in Caller : Home[c] # p => /\ active'[c] = active[c] /\ phase'[c] = phase[c]
                                       /\ call'[c] = call[c] /\ At(c)' = At(c)
  BY <1>0 DEF At
<1>3. \A c \in Caller : Home[c] # p => (OnLine(At(c), c)' <=> OnLine(At(c), c))
  <2> SUFFICES ASSUME NEW c \in Caller, Home[c] # p
               PROVE  OnLine(At(c), c)' <=> OnLine(At(c), c)
    OBVIOUS
  <2>1. At(c) \in Entry /\ At(c)[1] # p
    BY HomeAssumption DEF IInv, LeaseType, At, Entry
  <2>2. queue'[At(c)] = queue[At(c)] /\ At(c)' = At(c)
    BY <1>0, <1>2, <2>1
  <2> QED BY <2>2 DEF OnLine
<1>4. \A c \in Caller : Home[c] = p => ~OnLine(At(c), c)'
  <2> SUFFICES ASSUME NEW c \in Caller, Home[c] = p PROVE ~OnLine(At(c), c)'
    OBVIOUS
  <2>1. At(c)' \in Entry /\ At(c)'[1] = p
    BY <1>0, BlankType DEF At, Entry
  <2>2. queue'[At(c)'] = <<>>
    BY <1>0, <2>1
  <2> QED BY <2>2 DEF OnLine
<1>5. BooksType'
  <2>1. /\ queue \in [Entry -> Seq(Caller)] /\ attempt \in [Entry -> Caller \cup {None}]
        /\ readers \in [Entry -> Int] /\ writer \in [Entry -> BOOLEAN]
        /\ waiters \in [Proc -> Int] /\ leases \in [Proc -> Int] /\ pending \in [Proc -> Int]
    BY DEF BInv, Books, BooksType
  <2>2. <<>> \in Seq(Caller)
    OBVIOUS
  <2>3. queue' \in [Entry -> Seq(Caller)]
    BY <1>0, <2>1, <2>2
  <2>4. attempt' \in [Entry -> Caller \cup {None}] /\ writer' \in [Entry -> BOOLEAN]
    BY <1>0, <2>1
  <2>5. /\ readers' \in [Entry -> Int]
        /\ waiters' \in [Proc -> Int] /\ leases' \in [Proc -> Int] /\ pending' \in [Proc -> Int]
    BY <1>0, <2>1
  <2> QED BY <2>3, <2>4, <2>5 DEF BooksType
<1>6. Lines'
  <2> SUFFICES ASSUME NEW e \in Entry
               PROVE  /\ \A i \in 1..Len(queue'[e]) : StandsOn(e, queue[e][i])'
                      /\ \A i, j \in 1..Len(queue'[e]) : queue'[e][i] = queue'[e][j] => i = j
    BY DEF Lines
  <2>1. CASE e[1] = p
    <3>1. queue'[e] = <<>>
      BY <1>0, <2>1
    <3> QED BY <3>1
  <2>2. CASE e[1] # p
    <3>1. queue'[e] = queue[e] /\ queue[e] \in Seq(Caller)
      BY <1>0, <2>2 DEF BInv, Books, BooksType
    <3>2. ASSUME NEW i \in 1..Len(queue[e])
          PROVE  /\ queue[e][i] \in Caller /\ Home[queue[e][i]] # p
                 /\ StandsOn(e, queue[e][i])
      <4>1. queue[e][i] \in Caller /\ StandsOn(e, queue[e][i])
        BY <3>1 DEF BInv, Books, Lines
      <4> QED BY <2>2, <4>1 DEF StandsOn, At
    <3>3. ASSUME NEW i \in 1..Len(queue[e]) PROVE StandsOn(e, queue[e][i])'
      <4>1. PICK c \in Caller : c = queue[e][i] /\ Home[c] # p /\ StandsOn(e, c)
        BY <3>2
      <4>2. At(c)' = At(c) /\ phase'[c] = phase[c] /\ active'[c] = active[c] /\ queue'[e][i] = c
        BY <1>2, <3>1, <4>1
      <4> QED BY <4>1, <4>2 DEF StandsOn, At
    <3> QED BY <3>1, <3>3 DEF BInv, Books, Lines
  <2> QED BY <2>1, <2>2
<1>7. Places'
  <2> SUFFICES ASSUME NEW c \in Caller
               PROVE  /\ phase'[c] \in Waiting \cup {"abort"} => OnLine(At(c), c)'
                      /\ phase'[c] \in {"held", "release"} => active'[c]
                      /\ active'[c] => phase'[c] \in {"held", "release", "unlockRw", "unlockTurn",
                                                      "settle"}
    BY DEF Places
  <2>1. CASE Home[c] = p
    BY <1>1, <2>1 DEF Waiting
  <2>2. CASE Home[c] # p
    BY <1>2, <1>3, <2>2 DEF BInv, Books, Places
  <2> QED BY <2>1, <2>2
<1>8. \A q \in Proc : /\ q = p => Lined'[q] = {} /\ Leased'[q] = {} /\ Owing'[q] = {}
                      /\ q # p => /\ Lined'[q] = Lined[q] /\ Leased'[q] = Leased[q]
                                  /\ Owing'[q] = Owing[q]
  <2> SUFFICES ASSUME NEW q \in Proc
               PROVE  /\ q = p => Lined'[q] = {} /\ Leased'[q] = {} /\ Owing'[q] = {}
                      /\ q # p => /\ Lined'[q] = Lined[q] /\ Leased'[q] = Leased[q]
                                  /\ Owing'[q] = Owing[q]
    OBVIOUS
  <2>1. ASSUME NEW c \in Caller, Home[c] = q
        PROVE  /\ q = p => ~OnLine(At(c), c)' /\ ~active'[c] /\ ~Owes(c)'
               /\ q # p => /\ OnLine(At(c), c)' <=> OnLine(At(c), c)
                           /\ active'[c] = active[c] /\ (Owes(c)' <=> Owes(c))
    BY <1>1, <1>2, <1>3, <1>4, <2>1 DEF Owes
  <2> QED BY <2>1 DEF Lined, Leased, Owing, Peers
<1>9. \A e \in Entry : /\ e[1] = p => Reading'[e] = {}
                       /\ e[1] # p => Reading'[e] = Reading[e]
  <2> SUFFICES ASSUME NEW e \in Entry
               PROVE  /\ e[1] = p => Reading'[e] = {}
                      /\ e[1] # p => Reading'[e] = Reading[e]
    OBVIOUS
  <2>1. ASSUME NEW c \in Caller
        PROVE  /\ Home[c] = p => ~active'[c]
               /\ Home[c] # p => /\ active'[c] = active[c] /\ call'[c] = call[c]
                                 /\ At(c)' = At(c)
               /\ At(c) = e => Home[c] = e[1]
               /\ At(c)' = e => Home[c] = e[1]
    BY <1>1, <1>2 DEF At
  <2> QED BY <2>1 DEF Reading
<1>10. ASSUME NEW e \in Entry
       PROVE  writer'[e] <=> \E c \in Caller : At(c)' = e /\ active'[c] /\ call'[c].mode = "EX"
  <2>1. ASSUME NEW c \in Caller PROVE (At(c) = e \/ At(c)' = e) => Home[c] = e[1]
    BY <2>1 DEF At
  <2>2. CASE e[1] = p
    <3>1. writer'[e] = FALSE
      BY <1>0, <2>2
    <3> QED BY <1>1, <2>1, <2>2, <3>1
  <2>3. CASE e[1] # p
    <3>1. writer'[e] = writer[e]
      BY <1>0, <2>3
    <3>2. writer[e] <=> \E c \in Caller : At(c) = e /\ active[c] /\ call[c].mode = "EX"
      BY DEF BInv, Counts
    <3>3. ASSUME NEW c \in Caller
          PROVE  (At(c)' = e /\ active'[c] /\ call'[c].mode = "EX")
                 <=> (At(c) = e /\ active[c] /\ call[c].mode = "EX")
      BY <1>1, <1>2, <2>1, <2>3
    <3> QED BY <3>1, <3>2, <3>3
  <2> QED BY <2>2, <2>3
<1>11. Counts'
  <2>1. Cardinality({}) = 0
    BY FS_EmptySet
  <2>2. /\ waiters \in [Proc -> Int] /\ leases \in [Proc -> Int] /\ pending \in [Proc -> Int]
        /\ \A q \in Proc : waiters[q] = Cardinality(Lined[q])
        /\ \A q \in Proc : leases[q] = Cardinality(Leased[q])
        /\ \A q \in Proc : pending[q] = Cardinality(Owing[q])
        /\ \A e \in Entry : readers[e] = Cardinality(Reading[e])
    BY DEF BInv, Counts, Books, BooksType
  <2>3. \A q \in Proc : waiters'[q] = Cardinality(Lined'[q])
    BY <1>0, <1>8, <2>1, <2>2
  <2>4. \A q \in Proc : leases'[q] = Cardinality(Leased'[q])
    BY <1>0, <1>8, <2>1, <2>2
  <2>5. \A q \in Proc : pending'[q] = Cardinality(Owing'[q])
    BY <1>0, <1>8, <2>1, <2>2
  <2>6. \A e \in Entry : readers'[e] = Cardinality(Reading'[e])
    BY <1>0, <1>9, <2>1, <2>2
  <2> QED BY <1>10, <2>3, <2>4, <2>5, <2>6 DEF Counts
<1>12. BookkeepingExclusive'
  <2> SUFFICES ASSUME NEW c \in Caller, NEW d \in Caller, c # d, active'[c], active'[d],
                      At(c)' = At(d)'
               PROVE  call'[c].mode = "SH" /\ call'[d].mode = "SH"
    BY DEF BookkeepingExclusive
  <2>1. Home[c] # p /\ Home[d] # p
    BY <1>1
  <2> QED BY <1>2, <2>1 DEF BInv, BookkeepingExclusive
<1> QED BY <1>5, <1>6, <1>7, <1>11, <1>12 DEF BInv, Books

LEMMA InitBooks == Init => BInv
<1> SUFFICES ASSUME Init PROVE BInv
  OBVIOUS
<1>1. /\ \A e \in Entry : queue[e] = <<>>
      /\ \A c \in Caller : ~active[c] /\ phase[c] = "idle" /\ ~OnLine(At(c), c)
  <2>1. \A c \in Caller : At(c) \in Entry
    BY HomeAssumption, BlankType DEF Init, At, Entry
  <2> QED BY <2>1 DEF Init, OnLine
<1>2. BooksType
  BY DEF Init, BooksType
<1>3. Lines /\ Places /\ BookkeepingExclusive
  BY <1>1 DEF Lines, Places, BookkeepingExclusive, Waiting
<1>4. /\ \A p \in Proc : Lined[p] = {} /\ Leased[p] = {} /\ Owing[p] = {}
      /\ \A e \in Entry : Reading[e] = {}
  BY <1>1 DEF Lined, Leased, Owing, Reading, Owes, Peers
<1>5. Counts
  BY <1>1, <1>4, FS_EmptySet DEF Counts, Init
<1> QED BY <1>2, <1>3, <1>5 DEF BInv, Books

LEMMA NextBooks == BInv /\ IInv /\ [Next]_vars => BInv'
<1> SUFFICES ASSUME BInv, IInv, [Next]_vars PROVE BInv'
  OBVIOUS
<1>0. IInv'
  BY NextInv
<1>1. ASSUME NEW c \in Caller, NEW k \in Key, NEW m \in Mode, NEW t \in BOOLEAN,
             Acquire(c, k, m, t)
      PROVE  BInv'
  BY <1>0, <1>1, AcquireBooks
<1>2. ASSUME NEW c \in Caller, Step(c) PROVE BInv'
  <2>1. CASE SleepInQueue(c) \/ SleepReady(c)
    BY <2>1, BystanderBooks DEF SleepInQueue, SleepReady
  <2>2. CASE ~(SleepInQueue(c) \/ SleepReady(c))
    BY <1>0, <1>2, <2>2, AttemptBooks, ActivateBooks, AbandonBooks, ReleaseBooks, DischargeBooks
       DEF Step
  <2> QED BY <2>1, <2>2
<1>3. ASSUME NEW c \in Caller, Failure(c) PROVE BInv'
  BY <1>3, AttemptBooks
<1>4. ASSUME NEW c \in Caller, Release(c) PROVE BInv'
  BY <1>4, ReleaseBooks
<1>5. ASSUME NEW c \in Caller, DeadlinePasses(c) \/ RequestCancel(c) \/ CancelBroadcast(c)
      PROVE  BInv'
  BY <1>5, BystanderBooks DEF DeadlinePasses, RequestCancel, CancelBroadcast
<1>6. ASSUME NEW p \in Proc, RegistryFree(p) \/ RegistryNew(p) PROVE BInv'
  BY <1>6, BystanderBooks DEF RegistryFree, RegistryNew
<1>7. ASSUME NEW p \in Proc, Crash(p) PROVE BInv'
  BY <1>7, CrashBooks
<1>8. CASE UNCHANGED vars
  BY <1>8, BystanderBooks DEF vars
<1> QED BY <1>1, <1>2, <1>3, <1>4, <1>5, <1>6, <1>7, <1>8 DEF Next

LEMMA BooksInvariance == Spec => []BInv
BY InitInv, NextInv, InitBooks, NextBooks, PTL DEF Spec

-----------------------------------------------------------------------------

\* The counters that gate cbm_lock_registry_free and local admission, and the
\* entry's active holders, agree with the leases and waiters that exist: in a
\* registry that is freed nobody waits, holds or owes a handle.
LEMMA CountersFollow == BInv /\ IInv => CountersMatch
<1> SUFFICES ASSUME BInv, IInv PROVE CountersMatch
  OBVIOUS
<1>1. ASSUME NEW c \in Caller
      PROVE  /\ phase[c] # "idle" /\ Queued(c) <=> OnLine(At(c), c)
             /\ Pending(c) <=> Owes(c)
  BY <1>1, Standing DEF Pending, Owes, Waiting
<1>2. ASSUME NEW p \in Proc
      PROVE  /\ {c \in Peers(p) : active[c]} = Leased[p]
             /\ {c \in Peers(p) : phase[c] # "idle" /\ Queued(c)} = Lined[p]
             /\ {c \in Peers(p) : Pending(c)} = Owing[p]
  <2>1. Peers(p) \subseteq Caller
    BY DEF Peers
  <2> QED BY <1>1, <2>1 DEF Lined, Leased, Owing
<1>3. ASSUME NEW e \in Entry
      PROVE  {c \in Caller : At(c) = e /\ active[c] /\ call[c].mode = "SH"} = Reading[e]
  BY DEF Reading
<1>4. \A p \in Proc : /\ leases[p] = Tally({c \in Peers(p) : active[c]})
                      /\ waiters[p] = Tally({c \in Peers(p) : phase[c] # "idle" /\ Queued(c)})
                      /\ pending[p] = Tally({c \in Peers(p) : Pending(c)})
  BY <1>2 DEF BInv, Counts, Tally
<1>5. \A e \in Entry :
         /\ readers[e] = Tally({c \in Caller : At(c) = e /\ active[c] /\ call[c].mode = "SH"})
         /\ writer[e] <=> \E c \in Caller : At(c) = e /\ active[c] /\ call[c].mode = "EX"
  BY <1>3 DEF BInv, Counts, Tally
<1> QED BY <1>4, <1>5 DEF CountersMatch

-----------------------------------------------------------------------------
(* Type correctness: a counter is natural because it is the size of a set.  *)

\* What the registry keeps besides its books.
RestType ==
    /\ asleep \subseteq Caller /\ stop \subseteq Caller /\ cancelling \subseteq Caller
    /\ closed \subseteq Proc
    /\ calls \in Nat /\ faults \in Nat /\ crashes \in Nat /\ stops \in Nat

\* What a step of a thread does to it.
RestStep(c) ==
    /\ asleep' \subseteq asleep \cup {c} /\ stop' \subseteq stop \cup {c}
    /\ cancelling' \subseteq cancelling \cup {c} /\ closed' = closed
    /\ calls' \in {calls, calls + 1} /\ faults' \in {faults, faults + 1} /\ crashes' = crashes
    /\ stops' \in {stops, stops + 1}

LEMMA RestKept ==
    ASSUME RestType, NEW c \in Caller, RestStep(c)
    PROVE  RestType'
BY DEF RestType, RestStep

LEMMA RestNext == RestType /\ [Next]_vars => RestType'
<1> SUFFICES ASSUME RestType, [Next]_vars PROVE RestType'
  OBVIOUS
<1>1. ASSUME NEW c \in Caller, NEW k \in Key, NEW m \in Mode, NEW t \in BOOLEAN,
             Acquire(c, k, m, t)
      PROVE  RestStep(c)
  BY <1>1 DEF Acquire, RestStep
<1>2. ASSUME NEW c \in Caller, Step(c) PROVE RestStep(c)
  <2>1. CASE StartAttempt(c) \/ LeaveQueue(c) \/ SleepInQueue(c)
    BY <2>1 DEF StartAttempt, LeaveQueue, SleepInQueue, RestStep, budget, Idle, Dequeue, Broadcast
  <2>2. CASE TakeTurn(c) \/ TakeRw(c) \/ GiveUp(c) \/ DropTurn(c)
    BY <2>2 DEF TakeTurn, TakeRw, GiveUp, DropTurn, Fault, RestStep, budget
  <2>3. CASE Activate(c) \/ SleepReady(c) \/ BackOut(c)
    BY <2>3 DEF Activate, SleepReady, BackOut, RestStep, budget, Dequeue, Broadcast
  <2>4. CASE Abort(c) \/ ReleaseCleanup(c)
    BY <2>4 DEF Abort, ReleaseCleanup, RestStep, budget, Idle, Dequeue, Broadcast
  <2>5. CASE UnlockRw(c) \/ UnlockTurn(c)
    BY <2>5 DEF UnlockRw, UnlockTurn, Released, Fault, RestStep
  <2>6. CASE Discharge(c) \/ CleanupSettled(c)
    BY <2>6 DEF Discharge, CleanupSettled, RestStep, budget, Idle, Broadcast
  <2> QED BY <1>2, <2>1, <2>2, <2>3, <2>4, <2>5, <2>6 DEF Step
<1>3. ASSUME NEW c \in Caller, Failure(c) PROVE RestStep(c)
  BY <1>3 DEF Failure, WaitFails, AcquireFails, ReadyWaitFails, Fault, RestStep
<1>4. ASSUME NEW c \in Caller,
             Release(c) \/ DeadlinePasses(c) \/ RequestCancel(c) \/ CancelBroadcast(c)
      PROVE  RestStep(c)
  BY <1>4 DEF Release, DeadlinePasses, RequestCancel, Stopped, CancelBroadcast, Broadcast, RestStep, budget
<1>5. ASSUME NEW p \in Proc, RegistryFree(p) \/ RegistryNew(p) \/ Crash(p) PROVE RestType'
  <2>1. /\ asleep' \subseteq asleep /\ stop' \subseteq stop /\ cancelling' \subseteq cancelling
        /\ closed' \subseteq closed \cup {p}
        /\ calls' = calls /\ faults' = faults /\ crashes' \in {crashes, crashes + 1}
        /\ stops' = stops
    <3>1. CASE RegistryFree(p) \/ RegistryNew(p)
      BY <3>1 DEF RegistryFree, RegistryNew, budget
    <3>2. CASE Crash(p)
      BY <3>2 DEF Crash
    <3> QED BY <1>5, <3>1, <3>2
  <2> QED BY <2>1 DEF RestType
<1>6. CASE UNCHANGED vars
  BY <1>6 DEF vars, budget, RestType
<1> QED BY <1>1, <1>2, <1>3, <1>4, <1>5, <1>6, RestKept DEF Next

LEMMA TypesFollow == BInv /\ IInv /\ RestType => TypeOK
<1> SUFFICES ASSUME BInv, IInv, RestType PROVE TypeOK
  OBVIOUS
<1>1. ASSUME NEW S \in SUBSET Caller PROVE Cardinality(S) \in Nat
  BY CallerAssumption, FS_Subset, FS_CardinalityType
<1>2. /\ \A p \in Proc : /\ Lined[p] \in SUBSET Caller /\ Leased[p] \in SUBSET Caller
                         /\ Owing[p] \in SUBSET Caller
      /\ \A e \in Entry : Reading[e] \in SUBSET Caller
  BY DEF Lined, Leased, Owing, Reading, Peers
<1>3. /\ \A p \in Proc : waiters[p] \in Nat /\ leases[p] \in Nat /\ pending[p] \in Nat
      /\ \A e \in Entry : readers[e] \in Nat
  BY <1>1, <1>2 DEF BInv, Counts
<1>4. /\ readers \in [Entry -> Nat]
      /\ waiters \in [Proc -> Nat] /\ leases \in [Proc -> Nat] /\ pending \in [Proc -> Nat]
  BY <1>3 DEF BInv, Books, BooksType
<1> QED BY <1>4 DEF TypeOK, IInv, LeaseType, RestType, BInv, Books, BooksType

\* Every variable keeps its type; no counter of the registry goes below zero.
THEOREM TypeCorrect == Spec => []TypeOK
<1>1. Init => RestType
  BY DEF Init, RestType
<1> QED BY <1>1, RestNext, TypesFollow, BooksInvariance, Invariance, PTL DEF Spec

-----------------------------------------------------------------------------
(***************************************************************************)
(* No wake-up is lost.                                                     *)
(*                                                                         *)
(* The argument: the attempt of an entry is the head of its line and is    *)
(* busy with the native locks, so a head that may not attempt is not       *)
(* asleep in the queue, and one that sleeps at the end of its attempt      *)
(* waits for an active lease of its own process.  Whatever such a sleeper  *)
(* waits for changes only in steps that wake the whole process (Woken);    *)
(* every other step leaves it as it is (Passed).                           *)
(***************************************************************************)

HeadOf(e, c) == queue[e] # <<>> /\ Head(queue[e]) = c
Attempting == {"turn", "rw", "drop", "ready", "abort"}

\* The attempt stands at the head of its line.
Attempts ==
    \A e \in Entry : attempt[e] # None =>
        HeadOf(e, attempt[e]) /\ phase[attempt[e]] \in Attempting

\* Nobody waits in a registry that is freed.
Open == \A c \in Caller : phase[c] \in Waiting => Home[c] \notin closed

Rests(c) ==
    /\ c \in stop => c \in cancelling
    /\ \/ phase[c] = "queued" /\ ~CanAttempt(c)
       \/ phase[c] = "ready" /\ OwnsAttempt(c) /\ ~LocalStateReady(c)
Sleepers == asleep \subseteq Caller /\ \A c \in asleep : Rests(c)
HeadsWait ==
    \A e \in Entry : queue[e] # <<>> /\ Head(queue[e]) \in asleep =>
       \E c \in Caller : active[c] /\ At(c) = e

Sound == BInv /\ IInv
WInv == Attempts /\ Open /\ Sleepers /\ HeadsWait

\* Who stands on a line, its head for one, belongs there.
LEMMA OnItsLine ==
    ASSUME Sound, NEW e \in Entry, NEW c
    PROVE  /\ HeadOf(e, c) => c \in Caller /\ StandsOn(e, c)
           /\ c \in Caller => At(c) \in Entry /\ At(c)[1] = Home[c]
           /\ c \in Caller /\ phase[c] \in Waiting \cup {"abort"} => queue[At(c)] # <<>>
<1>1. c \in Caller => At(c) \in Entry /\ At(c)[1] = Home[c]
  BY HomeAssumption DEF Sound, IInv, LeaseType, At, Entry
<1>2. queue \in [Entry -> Seq(Caller)]
  BY DEF Sound, BInv, Books, BooksType
<1>3. ASSUME HeadOf(e, c) PROVE c \in Caller /\ StandsOn(e, c)
  <2>1. PICK s \in Seq(Caller) : s = queue[e]
    BY <1>2
  <2>2. 1 \in 1..Len(s) /\ s[1] = c
    BY <1>3, <2>1 DEF HeadOf
  <2> QED BY <2>1, <2>2 DEF Sound, BInv, Books, Lines
<1>4. ASSUME c \in Caller, phase[c] \in Waiting \cup {"abort"} PROVE queue[At(c)] # <<>>
  <2>1. OnLine(At(c), c)
    BY <1>4 DEF Sound, BInv, Books, Places
  <2> QED BY <2>1 DEF OnLine
<1> QED BY <1>1, <1>3, <1>4

\* A process whose sleepers are all awake, or dead, may have its entries changed.
LEMMA Woken ==
    ASSUME Sound, Sound', WInv, NEW p \in Proc,
           asleep' \subseteq asleep \ Peers(p),
           \A d \in Caller : Home[d] # p =>
              /\ phase'[d] = phase[d] /\ call'[d] = call[d] /\ active'[d] = active[d]
              /\ d \in stop' => d \in stop
              /\ d \in cancelling => d \in cancelling',
           \A e \in Entry : e[1] # p =>
              /\ queue'[e] = queue[e] /\ attempt'[e] = attempt[e]
              /\ readers'[e] = readers[e] /\ writer'[e] = writer[e]
    PROVE  Sleepers' /\ HeadsWait'
<1>1. ASSUME NEW d \in Caller, Home[d] # p PROVE At(d)' = At(d)
  BY <1>1 DEF At
<1>2. ASSUME NEW d \in asleep' PROVE d \in Caller /\ Rests(d)'
  <2>1. d \in Caller /\ d \in asleep /\ Home[d] # p /\ Rests(d)
    BY <1>2 DEF Peers, WInv, Sleepers
  <2>2. At(d)' = At(d) /\ At(d) \in Entry /\ At(d)[1] # p
    BY <1>1, <2>1, HomeAssumption DEF Sound, IInv, LeaseType, At, Entry
  <2>3. /\ queue'[At(d)] = queue[At(d)] /\ attempt'[At(d)] = attempt[At(d)]
        /\ readers'[At(d)] = readers[At(d)] /\ writer'[At(d)] = writer[At(d)]
        /\ phase'[d] = phase[d] /\ call'[d] = call[d]
    BY <2>1, <2>2
  <2>4. /\ CanAttempt(d)' <=> CanAttempt(d)
        /\ OwnsAttempt(d)' <=> OwnsAttempt(d)
        /\ LocalStateReady(d)' <=> LocalStateReady(d)
    BY <2>2, <2>3 DEF CanAttempt, OwnsAttempt, LocalStateReady, AtHead
  <2> QED BY <2>1, <2>3, <2>4 DEF Rests
<1>3. ASSUME NEW e \in Entry, queue'[e] # <<>>, Head(queue'[e]) \in asleep'
      PROVE  \E c \in Caller : active'[c] /\ At(c)' = e
  <2>1. PICK h \in Caller : h = Head(queue'[e]) /\ h \in asleep /\ Home[h] # p
    BY <1>2, <1>3 DEF Peers
  <2>2. At(h)' = e
    <3>1. HeadOf(e, h)'
      BY <1>3, <2>1 DEF HeadOf
    <3>2. StandsOn(e, h)'
      <4>1. Sound' => (HeadOf(e, h)' => StandsOn(e, h)')
        <5>1. PICK s \in Seq(Caller) : s = queue'[e]
          BY DEF Sound, BInv, Books, BooksType
        <5>2. HeadOf(e, h)' => 1 \in 1..Len(s) /\ s[1] = h
          BY <5>1 DEF HeadOf
        <5> QED BY <5>1, <5>2 DEF Sound, BInv, Books, Lines
      <4> QED BY <3>1, <4>1
    <3> QED BY <3>2 DEF StandsOn
  <2>3. e[1] # p
    BY <2>1, <2>2, <1>1, HomeAssumption DEF At, Entry
  <2>4. PICK c \in Caller : active[c] /\ At(c) = e
    BY <1>3, <2>1, <2>3 DEF WInv, HeadsWait
  <2>5. Home[c] # p
    BY <2>3, <2>4 DEF At
  <2> QED BY <1>1, <2>4, <2>5
<1> QED BY <1>2, <1>3 DEF Sleepers, HeadsWait

\* A step of a thread that is awake and changes nothing that others wait for.
LEMMA Passed ==
    ASSUME Sound, WInv, NEW c \in Caller,
           asleep' \subseteq asleep \ {c},
           \A d \in Caller \ {c} : phase'[d] = phase[d] /\ (d \in stop' => d \in stop),
           UNCHANGED <<call, active, queue, readers, writer, cancelling, closed>>,
           \/ attempt' = attempt
           \/ /\ CanAttempt(c) /\ attempt' = [attempt EXCEPT ![At(c)] = c]
              /\ phase'[c] \in Attempting,
           phase[c] \in Attempting => phase'[c] \in Attempting,
           phase'[c] \in Waiting => phase[c] \in Waiting
    PROVE  WInv'
<1>0. attempt \in [Entry -> Caller \cup {None}] /\ At(c) \in Entry
  BY HomeAssumption DEF Sound, BInv, Books, BooksType, IInv, LeaseType, At, Entry
<1>1. \A d \in Caller : At(d)' = At(d) /\ At(d) \in Entry
  BY HomeAssumption DEF Sound, IInv, LeaseType, At, Entry
<1>2. ASSUME NEW d \in asleep' PROVE d \in Caller /\ Rests(d)'
  <2>1. d \in Caller \ {c} /\ d \in asleep /\ Rests(d)
    BY <1>2 DEF WInv, Sleepers
  <2>2. \/ attempt'[At(d)] = attempt[At(d)]
        \/ CanAttempt(c) /\ At(c) = At(d) /\ attempt'[At(d)] = c
    <3>1. At(d) \in Entry
      BY <1>1, <2>1
    <3>2. CASE attempt' = attempt BY <3>2
    <3>3. CASE CanAttempt(c) /\ attempt' = [attempt EXCEPT ![At(c)] = c]
      BY <1>0, <3>1, <3>3
    <3> QED BY <3>2, <3>3
  <2>3. AtHead(d)' <=> AtHead(d)
    BY <1>1, <2>1 DEF AtHead
  <2>4. LocalStateReady(d)' <=> LocalStateReady(d)
    BY <1>1, <2>1 DEF LocalStateReady
  <2>5. CanAttempt(d)' => CanAttempt(d)
    BY <1>1, <2>1, <2>2, <2>3, NoneAssumption DEF CanAttempt
  <2>6. OwnsAttempt(d) => OwnsAttempt(d)'
    BY <1>1, <2>1, <2>2, <2>3, NoneAssumption DEF CanAttempt, OwnsAttempt
  <2> QED BY <2>1, <2>4, <2>5, <2>6 DEF Rests
<1>3. HeadsWait'
  BY <1>1 DEF WInv, HeadsWait
<1>4. Open'
  BY DEF WInv, Open
<1>5. Attempts'
  <2> SUFFICES ASSUME NEW e \in Entry, attempt'[e] # None
               PROVE  HeadOf(e, attempt'[e]) /\ phase'[attempt'[e]] \in Attempting
    BY DEF Attempts, HeadOf
  <2>1. CASE attempt'[e] = attempt[e]
    <3>1. HeadOf(e, attempt[e]) /\ phase[attempt[e]] \in Attempting /\ attempt[e] \in Caller
      BY <1>0, <2>1 DEF WInv, Attempts
    <3> QED BY <2>1, <3>1
  <2>2. CASE attempt'[e] # attempt[e]
    <3>1. CanAttempt(c) /\ At(c) = e /\ attempt'[e] = c /\ phase'[c] \in Attempting
      BY <1>0, <2>2
    <3> QED BY <3>1 DEF CanAttempt, AtHead, HeadOf
  <2> QED BY <2>1, <2>2
<1> QED BY <1>2, <1>3, <1>4, <1>5 DEF WInv, Sleepers

\* A thread that starts to wait: the head of a line has no attempt to wait for,
\* and an entry that is taken has an active lease.
LEMMA SleepWakes ==
    ASSUME Sound, WInv, NEW c \in Caller, SleepInQueue(c) \/ SleepReady(c)
    PROVE  WInv'
<1>1. /\ c \notin stop /\ ~call[c].tryOnce /\ asleep' = asleep \cup {c}
      /\ UNCHANGED <<phase, call, active, stop, cancelling, closed>>
      /\ UNCHANGED <<queue, attempt, readers, writer>>
  BY DEF SleepInQueue, SleepReady, registry
<1>2. \A d \in Caller : At(d)' = At(d) /\ At(d) \in Entry
  BY <1>1, HomeAssumption DEF Sound, IInv, LeaseType, At, Entry
<1>3. Attempts' /\ Open'
  BY <1>1 DEF WInv, Attempts, HeadOf, Open
<1>4. Rests(c)
  BY <1>1 DEF SleepInQueue, SleepReady, Rests
<1>5. ASSUME NEW d \in Caller, Rests(d) PROVE Rests(d)'
  <2>1. /\ CanAttempt(d)' <=> CanAttempt(d)
        /\ OwnsAttempt(d)' <=> OwnsAttempt(d)
        /\ LocalStateReady(d)' <=> LocalStateReady(d)
    BY <1>1, <1>2 DEF CanAttempt, OwnsAttempt, LocalStateReady, AtHead
  <2> QED BY <1>1, <1>5, <2>1 DEF Rests
<1>6. Sleepers'
  BY <1>1, <1>4, <1>5 DEF WInv, Sleepers
<1>7. AtHead(c) => \E d \in Caller : active[d] /\ At(d) = At(c)
  <2>1. CASE SleepInQueue(c)
    <3>1. phase[c] = "queued" /\ ~CanAttempt(c)
      BY <2>1 DEF SleepInQueue
    <3>2. AtHead(c) => attempt[At(c)] # None
      BY <3>1 DEF CanAttempt
    <3>3. attempt[At(c)] # None => HeadOf(At(c), attempt[At(c)]) /\ phase[attempt[At(c)]] \in Attempting
      BY <1>2 DEF WInv, Attempts
    <3> QED BY <3>1, <3>2, <3>3 DEF HeadOf, AtHead, Attempting
  <2>2. CASE SleepReady(c)
    <3>1. writer[At(c)] \/ readers[At(c)] # 0
      BY <2>2 DEF SleepReady, LocalStateReady
    <3>2. At(c) \in Entry
      BY <1>2
    <3>3. writer[At(c)] => \E d \in Caller : active[d] /\ At(d) = At(c)
      BY <3>2 DEF Sound, BInv, Counts
    <3>4. ASSUME readers[At(c)] # 0 PROVE \E d \in Caller : active[d] /\ At(d) = At(c)
      <4>1. Cardinality(Reading[At(c)]) # 0
        BY <3>2, <3>4 DEF Sound, BInv, Counts
      <4>2. Reading[At(c)] # {}
        BY <4>1, FS_EmptySet
      <4> QED BY <3>2, <4>2 DEF Reading
    <3> QED BY <3>1, <3>3, <3>4
  <2> QED BY <2>1, <2>2
<1>8. HeadsWait'
  <2> SUFFICES ASSUME NEW e \in Entry, queue[e] # <<>>, Head(queue[e]) \in asleep \cup {c}
               PROVE  \E d \in Caller : active[d] /\ At(d) = e
    BY <1>1, <1>2 DEF HeadsWait
  <2>1. CASE Head(queue[e]) \in asleep
    BY <2>1 DEF WInv, HeadsWait
  <2>2. CASE Head(queue[e]) = c
    <3>1. StandsOn(e, c)
      BY <2>2, OnItsLine DEF HeadOf
    <3> QED BY <1>7, <2>2, <3>1 DEF StandsOn, AtHead
  <2> QED BY <2>1, <2>2
<1> QED BY <1>3, <1>6, <1>8 DEF WInv

\* Through the native locks, to a lease or to backing out.
LEMMA AttemptWakes ==
    ASSUME Sound, WInv, NEW c \in Caller,
           \/ StartAttempt(c) \/ TakeTurn(c) \/ TakeRw(c) \/ GiveUp(c) \/ DropTurn(c)
           \/ BackOut(c) \/ Failure(c)
    PROVE  WInv'
<1>1. c \notin asleep' /\ asleep' \subseteq asleep
  <2>1. c \in asleep => phase[c] \in {"queued", "ready"}
    BY DEF WInv, Sleepers, Rests
  <2>2. CASE StartAttempt(c) \/ BackOut(c) BY <2>2 DEF StartAttempt, BackOut
  <2>3. CASE TakeTurn(c) \/ TakeRw(c) \/ GiveUp(c) \/ DropTurn(c) \/ AcquireFails(c)
    BY <2>1, <2>3 DEF TakeTurn, TakeRw, GiveUp, DropTurn, AcquireFails
  <2>4. CASE WaitFails(c) \/ ReadyWaitFails(c) BY <2>4 DEF WaitFails, ReadyWaitFails
  <2> QED BY <2>2, <2>3, <2>4 DEF Failure
<1>2. /\ UNCHANGED <<call, active, queue, readers, writer, stop, cancelling, closed>>
      /\ phase \in [Caller -> Phase]
  BY DEF StartAttempt, TakeTurn, TakeRw, GiveUp, DropTurn, BackOut, Failure, WaitFails,
     AcquireFails, ReadyWaitFails, registry, Sound, IInv, LeaseType
<1>3. \A d \in Caller \ {c} : phase'[d] = phase[d]
  BY <1>2 DEF StartAttempt, TakeTurn, TakeRw, GiveUp, DropTurn, BackOut, Failure, WaitFails,
     AcquireFails, ReadyWaitFails, Goto
<1>4. /\ phase[c] \in Waiting
      /\ phase[c] \in Attempting => phase'[c] \in Attempting
  <2>1. CASE StartAttempt(c) BY <1>2, <2>1 DEF StartAttempt, Goto, Waiting, Attempting
  <2>2. CASE TakeTurn(c) \/ TakeRw(c) \/ DropTurn(c)
    BY <1>2, <2>2 DEF TakeTurn, TakeRw, DropTurn, Goto, Waiting, Attempting
  <2>3. CASE GiveUp(c) \/ BackOut(c) \/ AcquireFails(c)
    BY <1>2, <2>3 DEF GiveUp, BackOut, AcquireFails, Goto, Waiting, Attempting
  <2>4. CASE WaitFails(c) \/ ReadyWaitFails(c)
    BY <1>2, <2>4 DEF WaitFails, ReadyWaitFails, Goto, Waiting, Attempting
  <2> QED BY <2>1, <2>2, <2>3, <2>4 DEF Failure
<1>5. \/ attempt' = attempt
      \/ /\ CanAttempt(c) /\ attempt' = [attempt EXCEPT ![At(c)] = c]
         /\ phase'[c] \in Attempting
  <2>1. CASE StartAttempt(c) BY <1>2, <2>1 DEF StartAttempt, Goto, Attempting
  <2>2. CASE ~StartAttempt(c)
    BY <2>2 DEF TakeTurn, TakeRw, GiveUp, DropTurn, BackOut, Failure, WaitFails,
       AcquireFails, ReadyWaitFails, registry
  <2> QED BY <2>1, <2>2
<1> HIDE DEF Attempting
<1> QED BY <1>1, <1>2, <1>3, <1>4, <1>5, Passed

\* A release up to its bookkeeping, and a deadline, which wakes its own waiter.
LEMMA QuietWakes ==
    ASSUME Sound, WInv, NEW c \in Caller,
           \/ Release(c) \/ UnlockRw(c) \/ UnlockTurn(c) \/ DeadlinePasses(c)
           \/ ReleaseCleanup(c) /\ ~Queued(c)
           \/ CleanupSettled(c) /\ HasNative(c)
    PROVE  WInv'
<1>1. c \in asleep => phase[c] \in {"queued", "ready"}
  BY DEF WInv, Sleepers, Rests
<1>2. /\ UNCHANGED <<call, active, queue, attempt, readers, writer, cancelling, closed>>
      /\ stop' \subseteq stop \cup {c} /\ phase \in [Caller -> Phase]
  BY DEF Release, UnlockRw, UnlockTurn, DeadlinePasses, Stopped, ReleaseCleanup, CleanupSettled, registry,
     Sound, IInv, LeaseType
<1>3. CASE DeadlinePasses(c)
  <2>1. asleep' = asleep \ {c} /\ phase' = phase
    BY <1>3 DEF DeadlinePasses, Stopped
  <2> QED BY <1>2, <2>1, Passed
<1>4. CASE ~DeadlinePasses(c)
  <2>1. /\ phase[c] \in {"held", "release", "unlockRw", "unlockTurn", "cleanup", "settle"}
        /\ phase'[c] \in {"unlockRw", "unlockTurn", "release", "cleanup", "settle"}
        /\ asleep' = asleep
        /\ \A d \in Caller \ {c} : phase'[d] = phase[d]
    BY <1>2, <1>4 DEF Release, UnlockRw, UnlockTurn, ReleaseCleanup, CleanupSettled, Goto
  <2>2. /\ phase[c] \notin Attempting /\ phase'[c] \notin Waiting /\ c \notin asleep
    BY <1>1, <2>1 DEF Attempting, Waiting
  <2> QED BY <1>2, <2>1, <2>2, Passed
<1> QED BY <1>3, <1>4

\* Who leaves a line leaves its head alone, unless it is the head.
LEMMA HeadStays ==
    ASSUME Sound, NEW c \in Caller, Dequeue(c), NEW e \in Entry, NEW h \in Caller \ {c},
           HeadOf(e, h)
    PROVE  HeadOf(e, h)'
<1>1. queue \in [Entry -> Seq(Caller)] /\ At(c) \in Entry
  BY HomeAssumption DEF Sound, BInv, Books, BooksType, IInv, LeaseType, At, Entry
<1>2. CASE e # At(c)
  <2>1. queue'[e] = queue[e]
    BY <1>1, <1>2 DEF Dequeue
  <2> QED BY <2>1 DEF HeadOf
<1>3. CASE e = At(c)
  <2>1. PICK line \in Seq(Caller) : line = queue[e]
    BY <1>1
  <2>2. PICK n \in 1..Len(line) :
           /\ line[n] = c
           /\ Unlinked(c) = [i \in 1..(Len(line) - 1) |-> line[IF i < n THEN i ELSE i + 1]]
    <3>1. queue[At(c)] = line /\ DOMAIN line = 1..Len(line)
      BY <1>3, <2>1
    <3>2. \E i \in DOMAIN line : line[i] = c
      BY <3>1 DEF Dequeue, Queued
    <3>3. PICK n \in DOMAIN line : line[n] = c /\ n = CHOOSE i \in DOMAIN line : line[i] = c
      BY <3>2
    <3>4. Unlinked(c) = [i \in 1..(Len(line) - 1) |-> line[IF i < n THEN i ELSE i + 1]]
      BY <3>1, <3>3 DEF Unlinked
    <3>5. n \in 1..Len(line) /\ line[n] = c
      BY <3>1, <3>3
    <3> QED BY ONLY <3>4, <3>5
  <2>3. Len(line) \in Nat /\ line # <<>> /\ line[1] = h
    BY <2>1 DEF HeadOf
  <2>4. n # 1 /\ 1 \in 1..(Len(line) - 1) /\ 1 < n
    BY <2>2, <2>3
  <2>5. PICK s : s = Unlinked(c) /\ queue'[e] = s
    BY <1>1, <1>3 DEF Dequeue
  <2>6. s \in Seq(Caller) /\ Len(s) = Len(line) - 1 /\ s[1] = h
    <3>1. \A i \in 1..(Len(line) - 1) : line[IF i < n THEN i ELSE i + 1] \in Caller
      BY <2>3
    <3> QED BY <2>2, <2>3, <2>4, <2>5, <3>1
  <2>7. s # <<>> /\ Head(s) = h
    BY <2>4, <2>6
  <2> QED BY <2>5, <2>7 DEF HeadOf
<1> QED BY <1>2, <1>3

\* Who leaves a line wakes its process (lock_registry_waiter_remove).
LEMMA DequeueWakes ==
    ASSUME Sound, Sound', WInv, NEW c \in Caller, Dequeue(c),
           \/ LeaveQueue(c) \/ Activate(c) \/ Abort(c) \/ ReleaseCleanup(c)
    PROVE  WInv'
<1>0. /\ attempt \in [Entry -> Caller \cup {None}] /\ At(c) \in Entry /\ Home[c] \in Proc
      /\ \A e \in Entry : e[1] # Home[c] => e # At(c)
      /\ phase \in [Caller -> Phase] /\ call \in [Caller -> [key : Key, mode : Mode, tryOnce : BOOLEAN]]
      /\ active \in [Caller -> BOOLEAN]
      /\ queue \in [Entry -> Seq(Caller)]
      /\ readers \in [Entry -> Int] /\ writer \in [Entry -> BOOLEAN]
  BY HomeAssumption DEF Sound, BInv, Books, BooksType, IInv, LeaseType, At, Entry
<1>1. /\ asleep' = asleep \ Peers(Home[c]) /\ stop' \subseteq stop
      /\ UNCHANGED <<cancelling, closed>>
      /\ \A d \in Caller \ {c} : phase'[d] = phase[d] /\ call'[d] = call[d] /\ active'[d] = active[d]
      /\ phase'[c] \notin Waiting
  <2>1. asleep' = asleep \ Peers(Home[c])
    BY DEF Dequeue, Broadcast
  <2>2. CASE LeaveQueue(c) BY <1>0, <2>1, <2>2 DEF LeaveQueue, Idle, Goto, Waiting
  <2>3. CASE Activate(c) BY <1>0, <2>1, <2>3 DEF Activate, Goto, Waiting
  <2>4. CASE Abort(c) \/ ReleaseCleanup(c)
    BY <1>0, <2>1, <2>4 DEF Abort, ReleaseCleanup, Idle, Goto, Waiting
  <2> QED BY <2>2, <2>3, <2>4
<1>2. attempt' = attempt \/ attempt' = [attempt EXCEPT ![At(c)] = None]
  BY <1>0 DEF LeaveQueue, Activate, Abort, ReleaseCleanup, Unclaim
<1>3. ASSUME NEW e \in Entry, e # At(c)
      PROVE  /\ queue'[e] = queue[e] /\ attempt'[e] = attempt[e]
             /\ readers'[e] = readers[e] /\ writer'[e] = writer[e]
  <2>1. queue'[e] = queue[e]
    BY <1>0, <1>3 DEF Dequeue
  <2>2. attempt'[e] = attempt[e]
    BY <1>0, <1>2, <1>3
  <2>3. readers'[e] = readers[e] /\ writer'[e] = writer[e]
    BY <1>0, <1>3 DEF LeaveQueue, Activate, Abort, ReleaseCleanup
  <2> QED BY <2>1, <2>2, <2>3
<1>4. Sleepers' /\ HeadsWait'
  <2>1. \A d \in Caller : Home[d] # Home[c] =>
              /\ phase'[d] = phase[d] /\ call'[d] = call[d] /\ active'[d] = active[d]
              /\ d \in stop' => d \in stop
              /\ d \in cancelling => d \in cancelling'
    BY <1>1
  <2> QED BY <1>0, <1>1, <1>3, <2>1, Woken
<1>5. Open'
  BY <1>1 DEF WInv, Open
<1>6. \A e \in Entry : attempt'[e] # None => attempt'[e] # c
  <2> SUFFICES ASSUME NEW e \in Entry, attempt[e] = c, attempt'[e] = c PROVE FALSE
    BY <1>0, <1>2, NoneAssumption
  <2>1. HeadOf(e, c) /\ phase[c] \in Attempting
    BY NoneAssumption DEF WInv, Attempts
  <2>2. e = At(c)
    BY <2>1, OnItsLine DEF StandsOn
  <2>3. CASE LeaveQueue(c) \/ ReleaseCleanup(c)
    BY <2>1, <2>3 DEF LeaveQueue, ReleaseCleanup, Attempting
  <2>4. CASE Activate(c) BY <1>0, <2>2, <2>4, NoneAssumption DEF Activate
  <2>5. CASE Abort(c) BY <1>0, <2>2, <2>5, NoneAssumption DEF Abort, Unclaim
  <2> QED BY <2>3, <2>4, <2>5
<1>7. Attempts'
  <2> SUFFICES ASSUME NEW e \in Entry, attempt'[e] # None
               PROVE  /\ queue'[e] # <<>> /\ Head(queue'[e]) = attempt'[e]
                      /\ phase'[attempt'[e]] \in Attempting
    BY DEF Attempts, HeadOf
  <2>1. PICK h \in Caller : h = attempt[e] /\ h = attempt'[e] /\ h # c
    BY <1>0, <1>2, <1>6
  <2>2. HeadOf(e, h) /\ phase[h] \in Attempting
    BY <2>1, NoneAssumption DEF WInv, Attempts
  <2>3. HeadOf(e, h)'
    BY <2>1, <2>2, HeadStays
  <2> QED BY <1>1, <2>1, <2>2, <2>3 DEF HeadOf
<1> QED BY <1>4, <1>5, <1>7 DEF WInv

\* So does who gives a lease or its last handles back, or stores a token.
LEMMA SettleWakes ==
    ASSUME Sound, Sound', WInv, NEW c \in Caller,
           \/ Discharge(c)
           \/ CleanupSettled(c) /\ ~HasNative(c)
           \/ CancelBroadcast(c) /\ Home[c] \notin closed
    PROVE  WInv'
<1>0. /\ Home[c] \in Proc /\ At(c) \in Entry
      /\ \A e \in Entry : e[1] # Home[c] => e # At(c)
      /\ phase \in [Caller -> Phase] /\ call \in [Caller -> [key : Key, mode : Mode, tryOnce : BOOLEAN]]
      /\ active \in [Caller -> BOOLEAN]
      /\ readers \in [Entry -> Int] /\ writer \in [Entry -> BOOLEAN]
      /\ attempt \in [Entry -> Caller \cup {None}]
  <2>1. Home[c] \in Proc /\ At(c) \in Entry /\ At(c)[1] = Home[c]
    BY HomeAssumption DEF Sound, IInv, LeaseType, At, Entry
  <2>2. /\ phase \in [Caller -> Phase] /\ call \in [Caller -> [key : Key, mode : Mode, tryOnce : BOOLEAN]]
        /\ active \in [Caller -> BOOLEAN]
    BY DEF Sound, IInv, LeaseType
  <2>3. /\ readers \in [Entry -> Int] /\ writer \in [Entry -> BOOLEAN]
        /\ attempt \in [Entry -> Caller \cup {None}]
    BY DEF Sound, BInv, Books, BooksType
  <2> QED BY <2>1, <2>2, <2>3
<1>1. /\ asleep' = asleep \ Peers(Home[c]) /\ stop' \subseteq stop /\ closed' = closed
      /\ cancelling \ {c} \subseteq cancelling'
      /\ \A d \in Caller \ {c} : phase'[d] = phase[d] /\ call'[d] = call[d] /\ active'[d] = active[d]
      /\ UNCHANGED <<queue, attempt>>
      /\ phase[c] \notin Waiting => phase'[c] \notin Waiting
      /\ phase'[c] # phase[c] => phase[c] = "settle"
  <2>1. CASE Discharge(c) BY <1>0, <2>1 DEF Discharge, Idle, Goto, Broadcast, Waiting
  <2>2. CASE CleanupSettled(c) /\ ~HasNative(c)
    BY <1>0, <2>2 DEF CleanupSettled, Idle, Goto, Broadcast, Waiting
  <2>3. CASE CancelBroadcast(c) /\ Home[c] \notin closed
    BY <1>0, <2>3 DEF CancelBroadcast, Broadcast, registry
  <2> QED BY <2>1, <2>2, <2>3
<1>2. ASSUME NEW e \in Entry, e[1] # Home[c]
      PROVE  readers'[e] = readers[e] /\ writer'[e] = writer[e]
  BY <1>0, <1>2 DEF Discharge, CleanupSettled, CancelBroadcast, registry
<1>3. Sleepers' /\ HeadsWait'
  <2>1. \A d \in Caller : Home[d] # Home[c] =>
              /\ phase'[d] = phase[d] /\ call'[d] = call[d] /\ active'[d] = active[d]
              /\ d \in stop' => d \in stop
              /\ d \in cancelling => d \in cancelling'
    BY <1>1
  <2> QED BY <1>0, <1>1, <1>2, <2>1, Woken
<1>4. Open'
  <2>1. phase'[c] \in Waiting => phase[c] \in Waiting
    BY <1>1
  <2> QED BY <1>1, <2>1 DEF WInv, Open
<1>5. Attempts'
  <2> SUFFICES ASSUME NEW e \in Entry, attempt[e] # None
               PROVE  HeadOf(e, attempt[e]) /\ phase'[attempt[e]] \in Attempting
    BY <1>1 DEF Attempts, HeadOf
  <2>1. HeadOf(e, attempt[e]) /\ phase[attempt[e]] \in Attempting /\ attempt[e] \in Caller
    BY <1>0 DEF WInv, Attempts
  <2>2. phase'[attempt[e]] = phase[attempt[e]]
    BY <1>1, <2>1 DEF Attempting
  <2> QED BY <2>1, <2>2
<1> QED BY <1>3, <1>4, <1>5 DEF WInv

\* A token is stored; its thread has yet to broadcast.  In a registry that is
\* freed there is nobody to wake.
LEMMA TokenWakes ==
    ASSUME Sound, WInv, NEW c \in Caller,
           RequestCancel(c) \/ (CancelBroadcast(c) /\ Home[c] \in closed)
    PROVE  WInv'
<1>1. /\ UNCHANGED <<phase, call, active, asleep, closed, queue, attempt, readers, writer>>
      /\ \/ stop' = stop \cup {c} /\ cancelling' = cancelling \cup {c}
         \/ stop' = stop /\ cancelling' = cancelling \ {c} /\ Home[c] \in closed
  BY DEF RequestCancel, Stopped, CancelBroadcast, registry
<1>2. Attempts' /\ Open'
  BY <1>1 DEF WInv, Attempts, HeadOf, Open
<1>3. HeadsWait'
  BY <1>1 DEF WInv, HeadsWait, At
<1>4. ASSUME NEW d \in asleep PROVE d \in Caller /\ Rests(d)'
  <2>1. d \in Caller /\ Rests(d)
    BY <1>4 DEF WInv, Sleepers
  <2>2. Home[d] \notin closed
    BY <2>1 DEF WInv, Open, Rests, Waiting
  <2>3. d \in stop' => d \in cancelling'
    <3>1. CASE stop' = stop \cup {c} /\ cancelling' = cancelling \cup {c}
      BY <2>1, <3>1 DEF Rests
    <3>2. CASE stop' = stop /\ cancelling' = cancelling \ {c} /\ Home[c] \in closed
      <4>1. d # c
        BY <2>2, <3>2
      <4> QED BY <2>1, <3>2, <4>1 DEF Rests
    <3> QED BY <1>1, <3>1, <3>2
  <2>4. /\ CanAttempt(d)' <=> CanAttempt(d)
        /\ OwnsAttempt(d)' <=> OwnsAttempt(d)
        /\ LocalStateReady(d)' <=> LocalStateReady(d)
    BY <1>1 DEF CanAttempt, OwnsAttempt, LocalStateReady, AtHead, At
  <2> QED BY <1>1, <2>1, <2>3, <2>4 DEF Rests
<1> QED BY <1>1, <1>2, <1>3, <1>4 DEF WInv, Sleepers

\* A newcomer stands at the end of its line and is awake.
LEMMA AcquireWakes ==
    ASSUME Sound, WInv, NEW c \in Caller, NEW k \in Key, NEW m \in Mode, NEW t \in BOOLEAN,
           Acquire(c, k, m, t)
    PROVE  WInv'
<1>0. PICK a \in Entry : a = <<Home[c], k>>
  BY HomeAssumption DEF Entry
<1>1. /\ phase \in [Caller -> Phase] /\ call \in [Caller -> [key : Key, mode : Mode, tryOnce : BOOLEAN]]
      /\ queue \in [Entry -> Seq(Caller)] /\ attempt \in [Entry -> Caller \cup {None}]
  BY DEF Sound, BInv, Books, BooksType, IInv, LeaseType
<1>2. /\ phase[c] = "idle" /\ Home[c] \notin closed
      /\ \A d \in Caller \ {c} : phase'[d] = phase[d] /\ call'[d] = call[d]
      /\ phase'[c] = "queued" /\ queue' = [queue EXCEPT ![a] = Append(queue[a], c)]
      /\ UNCHANGED <<active, asleep, stop, cancelling, attempt, readers, writer, closed>>
  BY <1>0, <1>1 DEF Acquire, Goto
<1>3. ASSUME NEW e \in Entry, queue[e] # <<>>
      PROVE  queue'[e] # <<>> /\ Head(queue'[e]) = Head(queue[e])
  <2>1. CASE e # a
    <3>1. queue'[e] = queue[e]
      BY <1>1, <1>2, <2>1
    <3> QED BY <1>3, <3>1
  <2>2. CASE e = a
    <3>1. PICK line \in Seq(Caller) : line = queue[e] /\ line # <<>>
      BY <1>1, <1>3
    <3>2. PICK s \in Seq(Caller) : s = Append(line, c)
      <4>1. line \in Seq(Caller) /\ c \in Caller
        BY <3>1
      <4>2. Append(line, c) \in Seq(Caller)
        BY ONLY <4>1
      <4> QED BY ONLY <4>2
    <3>3. Len(line) \in Nat /\ 1 \in 1..Len(line) /\ Len(s) = Len(line) + 1 /\ s[1] = line[1]
      BY <3>1, <3>2
    <3>4. s # <<>> /\ Head(s) = Head(line)
      BY <3>1, <3>2, <3>3
    <3>5. queue'[e] = s
      BY <1>1, <1>2, <2>2, <3>1, <3>2
    <3> QED BY <3>1, <3>4, <3>5
  <2> QED BY <2>1, <2>2
<1>4. ASSUME NEW e \in Entry, queue[e] = <<>>
      PROVE  queue'[e] # <<>> => Head(queue'[e]) = c
  <2>1. CASE e # a
    <3>1. queue'[e] = queue[e]
      BY <1>1, <1>2, <2>1
    <3> QED BY <1>4, <3>1
  <2>2. CASE e = a
    <3>1. PICK s \in Seq(Caller) : s = Append(<<>>, c)
      <4>1. c \in Caller
        OBVIOUS
      <4>2. <<>> \in Seq(Caller)
        BY ONLY TRUE
      <4>3. Append(<<>>, c) \in Seq(Caller)
        BY ONLY <4>1, <4>2
      <4> QED BY ONLY <4>3
    <3>2. Len(s) = 1 /\ s[1] = c
      BY ONLY <3>1
    <3>3. queue'[e] = s
      BY <1>1, <1>2, <1>4, <2>2, <3>1
    <3> QED BY <3>2, <3>3
  <2> QED BY <2>1, <2>2
<1>5. c \notin asleep
  BY <1>2 DEF WInv, Sleepers, Rests
<1>6. ASSUME NEW d \in asleep PROVE d \in Caller /\ Rests(d)'
  <2>1. d \in Caller \ {c} /\ Rests(d)
    BY <1>5, <1>6 DEF WInv, Sleepers
  <2>2. At(d)' = At(d) /\ At(d) \in Entry /\ queue[At(d)] # <<>>
    <3>1. phase[d] \in Waiting
      BY <2>1 DEF Rests, Waiting
    <3> QED BY <1>2, <2>1, <3>1, OnItsLine DEF At
  <2>3. AtHead(d)' <=> AtHead(d)
    BY <1>3, <2>2 DEF AtHead
  <2>4. call'[d] = call[d] /\ phase'[d] = phase[d]
    BY <1>2, <2>1
  <2>5. /\ CanAttempt(d)' <=> CanAttempt(d)
        /\ OwnsAttempt(d)' <=> OwnsAttempt(d)
        /\ LocalStateReady(d)' <=> LocalStateReady(d)
    BY <1>2, <2>2, <2>3, <2>4 DEF CanAttempt, OwnsAttempt, LocalStateReady
  <2> QED BY <1>2, <2>1, <2>4, <2>5 DEF Rests
<1>7. HeadsWait'
  <2> SUFFICES ASSUME NEW e \in Entry, queue'[e] # <<>>, Head(queue'[e]) \in asleep
               PROVE  \E d \in Caller : active[d] /\ At(d)' = e
    BY <1>2 DEF HeadsWait
  <2>1. queue[e] # <<>> /\ Head(queue[e]) \in asleep
    BY <1>3, <1>4, <1>5
  <2>2. PICK d \in Caller : active[d] /\ At(d) = e
    BY <2>1 DEF WInv, HeadsWait
  <2>3. d # c
    BY <1>2, <2>2 DEF Sound, BInv, Books, Places
  <2> QED BY <1>2, <2>2, <2>3 DEF At
<1>8. Open'
  BY <1>2 DEF WInv, Open
<1>9. Attempts'
  <2> SUFFICES ASSUME NEW e \in Entry, attempt[e] # None
               PROVE  /\ queue'[e] # <<>> /\ Head(queue'[e]) = attempt[e]
                      /\ phase'[attempt[e]] \in Attempting
    BY <1>2 DEF Attempts, HeadOf
  <2>1. HeadOf(e, attempt[e]) /\ phase[attempt[e]] \in Attempting /\ attempt[e] \in Caller
    BY <1>1 DEF WInv, Attempts
  <2>2. attempt[e] # c
    BY <1>2, <2>1 DEF Attempting
  <2> QED BY <1>2, <1>3, <2>1, <2>2 DEF HeadOf
<1> QED BY <1>2, <1>6, <1>7, <1>8, <1>9 DEF WInv, Sleepers

\* cbm_lock_registry_free goes through only when nobody waits.
LEMMA RegistryWakes ==
    ASSUME Sound, WInv, NEW p \in Proc, RegistryFree(p) \/ RegistryNew(p)
    PROVE  WInv'
<1>1. /\ UNCHANGED <<phase, call, active, asleep, stop, cancelling>>
      /\ UNCHANGED <<queue, attempt, readers, writer>>
  BY DEF RegistryFree, RegistryNew, registry
<1>2. Open'
  <2> SUFFICES ASSUME NEW c \in Caller, phase[c] \in Waiting, Home[c] \in closed' PROVE FALSE
    BY <1>1 DEF Open
  <2>1. Home[c] \notin closed
    BY DEF WInv, Open
  <2>2. RegistryIdle(p) /\ Home[c] = p
    BY <2>1 DEF RegistryFree, RegistryNew
  <2>3. queue[<<p, call[c].key>>] = <<>>
    BY <2>2 DEF RegistryIdle, Sound, IInv, LeaseType
  <2>4. queue[At(c)] # <<>>
    <3>1. phase[c] \in Waiting \cup {"abort"} /\ At(c) \in Entry
      BY HomeAssumption DEF Sound, IInv, LeaseType, At, Entry
    <3> QED BY <3>1, OnItsLine
  <2> QED BY <2>2, <2>3, <2>4 DEF At
<1>3. Attempts' /\ HeadsWait'
  BY <1>1 DEF WInv, Attempts, HeadOf, HeadsWait, At
<1>4. ASSUME NEW d \in Caller, Rests(d) PROVE Rests(d)'
  BY <1>1, <1>4 DEF Rests, CanAttempt, OwnsAttempt, LocalStateReady, AtHead, At
<1> QED BY <1>1, <1>2, <1>3, <1>4 DEF WInv, Sleepers

\* With a process die its sleepers.
LEMMA CrashWakes ==
    ASSUME Sound, Sound', WInv, NEW p \in Proc, Crash(p)
    PROVE  WInv'
<1>0. /\ phase' = [c \in Caller |-> IF Home[c] = p THEN "idle" ELSE phase[c]]
      /\ call' = [c \in Caller |-> IF Home[c] = p THEN Blank ELSE call[c]]
      /\ active' = [c \in Caller |-> IF Home[c] = p THEN FALSE ELSE active[c]]
      /\ queue' = [e \in Entry |-> IF e[1] = p THEN <<>> ELSE queue[e]]
      /\ attempt' = [e \in Entry |-> IF e[1] = p THEN None ELSE attempt[e]]
      /\ readers' = [e \in Entry |-> IF e[1] = p THEN 0 ELSE readers[e]]
      /\ writer' = [e \in Entry |-> IF e[1] = p THEN FALSE ELSE writer[e]]
      /\ asleep' = asleep \ Peers(p) /\ stop' = stop \ Peers(p)
      /\ cancelling' = cancelling \ Peers(p) /\ closed' = closed \ {p}
  BY DEF Crash
<1>1. Sleepers' /\ HeadsWait'
  <2>1. \A d \in Caller : Home[d] # p =>
              /\ phase'[d] = phase[d] /\ call'[d] = call[d] /\ active'[d] = active[d]
              /\ d \in stop' => d \in stop
              /\ d \in cancelling => d \in cancelling'
    BY <1>0 DEF Peers
  <2>2. \A e \in Entry : e[1] # p =>
              /\ queue'[e] = queue[e] /\ attempt'[e] = attempt[e]
              /\ readers'[e] = readers[e] /\ writer'[e] = writer[e]
    BY <1>0
  <2> QED BY <1>0, <2>1, <2>2, Woken
<1>2. Open'
  <2> SUFFICES ASSUME NEW c \in Caller, phase'[c] \in Waiting PROVE Home[c] \notin closed'
    BY DEF Open
  <2>1. Home[c] # p /\ phase'[c] = phase[c]
    BY <1>0 DEF Waiting
  <2> QED BY <1>0, <2>1 DEF WInv, Open
<1>3. Attempts'
  <2> SUFFICES ASSUME NEW e \in Entry, attempt'[e] # None
               PROVE  /\ queue'[e] # <<>> /\ Head(queue'[e]) = attempt'[e]
                      /\ phase'[attempt'[e]] \in Attempting
    BY DEF Attempts, HeadOf
  <2>1. e[1] # p /\ attempt'[e] = attempt[e] /\ queue'[e] = queue[e]
    BY <1>0
  <2>2. HeadOf(e, attempt[e]) /\ phase[attempt[e]] \in Attempting
    BY <2>1 DEF WInv, Attempts
  <2>3. attempt[e] \in Caller /\ Home[attempt[e]] = e[1]
    <3>1. attempt[e] \in Caller /\ StandsOn(e, attempt[e])
      BY <2>2, OnItsLine
    <3> QED BY <3>1 DEF StandsOn, At
  <2> QED BY <1>0, <2>1, <2>2, <2>3 DEF HeadOf
<1> QED BY <1>1, <1>2, <1>3 DEF WInv

LEMMA NextWakes == Sound /\ Sound' /\ WInv /\ [Next]_vars => WInv'
<1> SUFFICES ASSUME Sound, Sound', WInv, [Next]_vars PROVE WInv'
  OBVIOUS
<1>1. ASSUME NEW c \in Caller, NEW k \in Key, NEW m \in Mode, NEW t \in BOOLEAN,
             Acquire(c, k, m, t)
      PROVE  WInv'
  BY <1>1, AcquireWakes
<1>2. ASSUME NEW c \in Caller, Step(c) PROVE WInv'
  <2>1. CASE LeaveQueue(c) \/ Activate(c) \/ Abort(c) \/ (ReleaseCleanup(c) /\ Queued(c))
    <3>1. Dequeue(c)
      BY <2>1 DEF LeaveQueue, Activate, Abort, ReleaseCleanup
    <3> QED BY <2>1, <3>1, DequeueWakes
  <2>2. CASE SleepInQueue(c) \/ SleepReady(c)
    BY <2>2, SleepWakes
  <2>3. CASE UnlockRw(c) \/ UnlockTurn(c) \/ (ReleaseCleanup(c) /\ ~Queued(c))
             \/ (CleanupSettled(c) /\ HasNative(c))
    BY <2>3, QuietWakes
  <2>4. CASE Discharge(c) BY ONLY Sound, Sound', WInv, <2>4, SettleWakes
  <2>4a. CASE CleanupSettled(c) /\ ~HasNative(c) BY ONLY Sound, Sound', WInv, <2>4a, SettleWakes
  <2>5. CASE StartAttempt(c) \/ TakeTurn(c) \/ TakeRw(c) \/ GiveUp(c) \/ DropTurn(c) \/ BackOut(c)
    BY <2>5, AttemptWakes
  <2> QED BY <1>2, <2>1, <2>2, <2>3, <2>4, <2>4a, <2>5 DEF Step
<1>3. ASSUME NEW c \in Caller, Failure(c) PROVE WInv'
  BY <1>3, AttemptWakes
<1>4. ASSUME NEW c \in Caller, Release(c) \/ DeadlinePasses(c) PROVE WInv'
  BY <1>4, QuietWakes
<1>5. ASSUME NEW c \in Caller, RequestCancel(c) \/ CancelBroadcast(c) PROVE WInv'
  BY <1>5, TokenWakes, SettleWakes
<1>6. ASSUME NEW p \in Proc, RegistryFree(p) \/ RegistryNew(p) PROVE WInv'
  BY <1>6, RegistryWakes
<1>7. ASSUME NEW p \in Proc, Crash(p) PROVE WInv'
  BY <1>7, CrashWakes
<1>8. CASE UNCHANGED vars
  <2>1. /\ UNCHANGED <<phase, call, active, asleep, stop, cancelling, closed>>
        /\ UNCHANGED <<queue, attempt, readers, writer>>
    BY <1>8 DEF vars, registry
  <2>2. Attempts' /\ HeadsWait' /\ Open'
    BY <2>1 DEF WInv, Attempts, HeadOf, HeadsWait, Open, At
  <2>3. ASSUME NEW d \in Caller, Rests(d) PROVE Rests(d)'
    BY <2>1, <2>3 DEF Rests, CanAttempt, OwnsAttempt, LocalStateReady, AtHead, At
  <2> QED BY <2>1, <2>2, <2>3 DEF WInv, Sleepers
<1> QED BY <1>1, <1>2, <1>3, <1>4, <1>5, <1>6, <1>7, <1>8 DEF Next

\* No wake-up is lost, whatever is released, cancelled, timed out or crashes, and
\* in whatever order (lock_registry_broadcast_locked and its callers).
THEOREM WakeupsKept == Spec => []NoLostWakeup
<1>1. Init => WInv
  BY NoneAssumption DEF Init, WInv, Attempts, Open, Sleepers, HeadsWait, Waiting
<1>2. BInv /\ IInv => Sound
  BY DEF Sound
<1>3. WInv => NoLostWakeup
  BY DEF WInv, Sleepers, HeadsWait, Rests, NoLostWakeup
<1> HIDE DEF WInv, Sound, NoLostWakeup
<1> QED BY <1>1, <1>2, <1>3, NextWakes, BooksInvariance, Invariance, PTL DEF Spec

\* What a lease stands for: exclusion, the handles it owns, and its place in the
\* books of its entry agree on every path, the failing ones and crashes
\* included (lock_registry_attempt_native, cbm_lock_lease_release), and nobody
\* sleeps through his turn.
THEOREM BooksRight == Spec => []LeasesSound
<1>1. BInv /\ IInv => CountersMatch
  BY CountersFollow
<1>2. BInv => BookkeepingExclusive
  BY DEF BInv
<1> QED BY <1>1, <1>2, BooksInvariance, Invariance, MutualExclusion, HandlesOwned,
        WakeupsKept, PTL DEF LeasesSound
=============================================================================
