------------------------- MODULE ActivationProofs -------------------------
(***************************************************************************)
(* An activation (install, update, uninstall) changes the program's binary *)
(* while nobody runs it, and what it answers of the binary is true.  The   *)
(* first half is DaemonGeneration's: an activation that has drained the    *)
(* cohort is alone with it, and nobody is refused for nothing.  The second *)
(* is Activation's: what each call of its transaction answers agrees with  *)
(* the disk.                                                               *)
(***************************************************************************)
EXTENDS DaemonGeneration, Activation, TLAPS

-----------------------------------------------------------------------------
(***************************************************************************)
(* GenerationSound holds for any number of clients, daemons, local         *)
(* commands and activations and of deaths.                                 *)
(*                                                                         *)
(* The argument: where a process is says which of the locks it has and     *)
(* whether it has a lease (Books, StartupSound).  Who cleans up has both   *)
(* startup-v2 and the lifetime lock, so no daemon lives then, and a local  *)
(* command that has startup-v2 and the claim finds the lifetime lock free: *)
(* a daemon would need the claim and a cleaner startup-v2.  A drained      *)
(* cohort stays empty while the barrier is up, and whoever holds a lock    *)
(* other than an activation's own is in it.                                *)
(***************************************************************************)
BarrierPhases == {"first", "quiesce", "drain", "startup", "probe", "mutating", "unlock", "open"}
ClaimPhases == {"looked", "claimed", "retiring", "weigh", "absent", "foreign"} \cup Owning
LifetimePhases == {"clean", "cleaned"} \cup Owning
StartupPhases == {"prepare", "clean", "cleaned", "spawn", "yield", "seal", "presence", "weigh",
                  "absent", "foreign", "begin", "probe", "mutating", "unlock"}
Drained == {"startup", "probe", "mutating", "unlock"}
Outside == {"idle", "none", "launched", "done"}

Books ==
    \A p \in Process :
        /\ held["barrier"] = p <=> phase[p] \in BarrierPhases
        /\ held["claim"] = p <=> phase[p] \in ClaimPhases
        /\ held["lifetime"] = p <=> phase[p] \in LifetimePhases
        /\ p \in cohort <=> p \notin Activations /\ phase[p] \notin Outside

\* startup-v2 is the one lock that a process may still have on its way out.
StartupSound ==
    /\ \A p \in Process : phase[p] \in StartupPhases => held["startup"] = p
    /\ \A c \in Clients : stage[c] # "open" => held["startup"] = c
    /\ \A p \in Process : held["startup"] = p =>
          /\ p \notin Daemons /\ phase[p] # "session"
          /\ p \in cohort \/ phase[p] \in {"probe", "mutating", "unlock"}

SocketSound == \A d \in Daemons : socket = d <=> phase[d] \in {"serving", "stopping"}
DrainSound == \A a \in Activations : phase[a] \in Drained => cohort = {}
NoneForeign == \A l \in Locals : phase[l] # "foreign"

GInv == GenerationTypeOK /\ Books /\ StartupSound /\ SocketSound /\ DrainSound /\ NoneForeign

USE RolesAssumption DEF Process, Locks, GInv, GenerationTypeOK, ClientPhases, DaemonPhases,
    LocalPhases, ActivationPhases, Starting, Owning, Books, BarrierPhases, ClaimPhases, LifetimePhases, Outside,
    StartupSound, StartupPhases, SocketSound, DrainSound, Drained, NoneForeign, Go, clientVars, history

\* Cleaning up, and the way out, are the same for clients and for local commands.
LEMMA CleanupKeeps == ASSUME GInv, NEW p \in Clients \cup Locals, Cleanup(p) PROVE GInv'
<1>1. CASE PrepareCleanup(p) BY <1>1 DEF PrepareCleanup, Take
<1>2. CASE Clean(p) BY <1>2 DEF Clean
<1>3. CASE Cleaned(p) BY <1>3 DEF Cleaned, Drop
<1>. QED BY <1>1, <1>2, <1>3 DEF Cleanup

LEMMA UnwindKeeps == ASSUME GInv, NEW p \in Clients \cup Locals, Unwind(p) PROVE GInv'
BY DEF Unwind, Drop

LEMMA BootstrapKeeps == ASSUME GInv, NEW c \in Clients, Bootstrap(c) PROVE GInv'
<1>1. CASE Enter(c) BY <1>1 DEF Enter, Join, Shunned
<1>2. CASE Look(c)
  <2>1. disturbed' \in BOOLEAN BY <1>2 DEF Look, Collides
  <2>2. CASE Take(c, "claim") /\ Go(c, "looked") /\ heard' = heard
    BY <1>2, <2>1, <2>2 DEF Look, Take
  <2>3. CASE held' = held /\ Go(c, "connect") /\ heard' = heard
    BY <1>2, <2>1, <2>3 DEF Look
  <2>4. CASE heard[c] # "nothing" /\ held' = held /\ Probed(c, WhenReserved(c))
    BY <1>2, <2>1, <2>4 DEF Look, Probed, WhenReserved
  <2>. QED BY <1>2, <2>2, <2>3, <2>4 DEF Look
<1>3. CASE Looked(c) BY <1>3 DEF Looked, Drop
<1>4. CASE Lifetime(c) BY <1>4 DEF Lifetime, Probed, WhenReserved, WhenAbsent, Collides
<1>5. CASE Connect(c)
  <2>1. CASE heard' \in [Clients -> {"nothing", "error", "rejected"}] /\ Go(c, "look") /\ on' = on
    BY <1>5, <2>1 DEF Connect
  <2>2. ASSUME NEW d \in Daemons, on' = [on EXCEPT ![c] = d], Probed(c, "unwind") PROVE GInv'
    BY <1>5, <2>2 DEF Connect, Probed
  <2>3. CASE \E d \in Daemons : on' = [on EXCEPT ![c] = d] /\ Probed(c, "unwind") BY <2>2, <2>3
  <2>4. CASE \E reply \in {"error", "rejected"} :
               heard' = [heard EXCEPT ![c] = reply] /\ Go(c, "look") /\ on' = on
    <3>1. heard' \in [Clients -> {"nothing", "error", "rejected"}] BY <2>4
    <3>. QED BY <2>1, <2>4, <3>1
  <2>5. \/ \E d \in Daemons : on' = [on EXCEPT ![c] = d] /\ Probed(c, "unwind")
        \/ \E reply \in {"error", "rejected"} :
               heard' = [heard EXCEPT ![c] = reply] /\ Go(c, "look") /\ on' = on
    BY ONLY <1>5 DEF Connect
  <2>. QED BY <2>3, <2>4, <2>5
<1>6. CASE Pause(c) BY <1>6 DEF Pause
<1>7. CASE Expire(c) BY <1>7 DEF Expire
<1>8. CASE TryLock(c) BY <1>8 DEF TryLock, Take
<1>9. CASE Spawn(c) BY <1>9 DEF Spawn
<1>10. CASE SpawnFails(c) BY <1>10 DEF SpawnFails
<1>11. CASE Yield(c) BY <1>11 DEF Yield, Drop
<1>12. CASE Leave(c) BY <1>12 DEF Leave
<1>13. CASE Cleanup(c) BY <1>13, CleanupKeeps
<1>14. CASE Unwind(c) BY <1>14, UnwindKeeps
<1>. QED BY <1>1, <1>2, <1>3, <1>4, <1>5, <1>6, <1>7, <1>8, <1>9, <1>10, <1>11, <1>12, <1>13,
        <1>14 DEF Bootstrap

LEMMA HostKeeps == ASSUME GInv, NEW d \in Daemons, Host(d) PROVE GInv'
<1>1. CASE Admit(d) BY <1>1 DEF Admit, Join, Shunned
<1>2. CASE Claim(d) BY <1>2 DEF Claim, Take
<1>3. CASE ReserveLifetime(d) BY <1>3 DEF ReserveLifetime, Take
<1>4. CASE Bind(d) BY <1>4 DEF Bind
<1>5. CASE PublishSocket(d) BY <1>5 DEF PublishSocket
<1>6. CASE Stop(d) BY <1>6 DEF Stop, Stopped
<1>7. CASE Unlink(d) BY <1>7 DEF Unlink
<1>8. CASE Release(d) BY <1>8 DEF Release, Drop
<1>. QED BY <1>1, <1>2, <1>3, <1>4, <1>5, <1>6, <1>7, <1>8 DEF Host

LEMMA LocalKeeps == ASSUME GInv, NEW l \in Locals, Local(l) PROVE GInv'
<1>1. CASE BeginLocal(l) BY <1>1 DEF BeginLocal, Join, Shunned
<1>2. CASE LocalTransition(l) BY <1>2 DEF LocalTransition, Take
<1>3. CASE TransitionExpires(l) BY <1>3 DEF TransitionExpires
<1>4. CASE Seal(l) BY <1>4 DEF Seal
<1>5. CASE Presence(l) BY <1>5 DEF Presence, Take
<1>6. CASE Weigh(l) BY <1>6 DEF Weigh
<1>7. CASE Weighed(l) BY <1>7 DEF Weighed, Drop
<1>8. CASE BeginWork(l) BY <1>8 DEF BeginWork, Drop
<1>9. CASE EndWork(l) BY <1>9 DEF EndWork
<1>10. CASE Cleanup(l) BY <1>10, CleanupKeeps
<1>11. CASE Unwind(l) BY <1>11, UnwindKeeps
<1>. QED BY <1>1, <1>2, <1>3, <1>4, <1>5, <1>6, <1>7, <1>8, <1>9, <1>10, <1>11 DEF Local

LEMMA ActivationKeeps == ASSUME GInv, NEW a \in Activations, Activate(a) PROVE GInv'
<1>1. CASE EagerRequest(a) BY <1>1 DEF EagerRequest, Ask, Stopped
<1>2. CASE CloseAdmission(a) BY <1>2 DEF CloseAdmission, Take
<1>3. CASE First(a) BY <1>3 DEF First
<1>4. CASE RequestQuiescence(a) BY <1>4 DEF RequestQuiescence, Ask, Stopped
<1>5. CASE Drain(a) BY <1>5 DEF Drain
<1>6. CASE DrainExpires(a) BY <1>6 DEF DrainExpires
<1>7. CASE TakeStartup(a) BY <1>7 DEF TakeStartup, Take
<1>8. CASE Probe(a) BY <1>8 DEF Probe
<1>9. CASE Mutated(a) BY <1>9 DEF Mutated
<1>10. CASE ReleaseMutation(a) BY <1>10 DEF ReleaseMutation, Drop
<1>. QED BY <1>1, <1>2, <1>3, <1>4, <1>5, <1>6, <1>7, <1>8, <1>9, <1>10 DEF Activate

LEMMA DieKeeps == ASSUME GInv, NEW p \in Process, Die(p) PROVE GInv'
BY DEF Die, Exit

LEMMA EvictKeeps == ASSUME GInv, NEW l \in Locals, Evict(l) PROVE GInv'
BY DEF Evict, Exit

LEMMA GInvInit == ASSUME GenerationInit PROVE GInv
BY CastsAssumption DEF GenerationInit

LEMMA GInvNext == ASSUME GInv, [GenerationNext]_generationVars PROVE GInv'
<1>1. CASE UNCHANGED generationVars BY <1>1 DEF generationVars
<1>2. CASE Rest BY <1>2 DEF Rest, generationVars
<1>. QED BY <1>1, <1>2, BootstrapKeeps, HostKeeps, LocalKeeps, EvictKeeps, ActivationKeeps, DieKeeps
   DEF GenerationNext

LEMMA GInvSound == ASSUME GInv PROVE GenerationSound
<1>1. ListenerNamed BY DEF ListenerNamed
<1>2. OwnersKnown BY DEF OwnersKnown
<1>3. DrainedAlone BY DEF DrainedAlone
<1>. QED BY <1>1, <1>2, <1>3 DEF GenerationSound

\* However many take part and die: a daemon that serves is the one that its name leads to,
\* owners are known to be of the cohort, and an activation that drained it is alone.
THEOREM Soundness == GenerationSpec => []GenerationSound
BY GInvInit, GInvNext, GInvSound, PTL DEF GenerationSpec

(***************************************************************************)
(* RefusedOnlyIfDisturbed holds for any number of all of them.             *)
(*                                                                         *)
(* The argument: as long as nothing disturbed it, one daemon at a time is  *)
(* under way or up (OneUp).  A client launches one only when it has probed *)
(* with startup-v2 and found nobody, and that stays true until it gives    *)
(* startup-v2 back (Found): a daemon that has its claim would have been    *)
(* seen, and one that has not is awaited by its parent, with startup-v2    *)
(* (Awaited).  So whoever is refused would have met a second daemon, or a  *)
(* name that only a dead one leaves (NamesLive).                           *)
(***************************************************************************)
\* A daemon that has begun and not yet let go of what others look at.
Up(d) == phase[d] \notin {"none", "parting"}
OneUp == \A d, e \in Daemons : Up(d) /\ Up(e) => d = e

\* Whoever launched a daemon waits, with startup-v2, until it sees the daemon's claim.
Awaited ==
    \A d \in Daemons : phase[d] \in {"launched", "claiming"} =>
        \E c \in Clients : /\ held["startup"] = c /\ stage[c] = "watching"
                           /\ phase[c] \notin {"yield", "unwind"} /\ heard[c] # "rejected"

\* Who has found nobody with startup-v2 stays right until it gives it back.
Found ==
    \A c \in Clients :
        /\ phase[c] \in {"idle", "entering"} => stage[c] = "open"
        /\ phase[c] \in {"prepare", "clean", "cleaned", "spawn"} =>
              stage[c] = "locked" /\ heard[c] = "nothing"
        /\ /\ stage[c] = "locked"
           /\ phase[c] \in {"looked", "lifetime", "prepare", "clean", "cleaned", "spawn"}
           => \A d \in Daemons : ~Up(d)
        /\ phase[c] = "prepare" => held["lifetime"] = NoOne

NamesLive ==
    /\ socket # Stale
    /\ socket = Remnant => \E d \in Daemons : phase[d] = "bound"

Calm == OneUp /\ Awaited /\ Found /\ NamesLive
Still == (~disturbed' => Calm') /\ ~Refused

Quiet == ~disturbed => Calm

USE DEF Calm, Still, OneUp, Up, Awaited, Found, NamesLive, Refused

LEMMA CleanupStill ==
    ASSUME GInv, Calm, ~disturbed, NEW p \in Clients \cup Locals, Cleanup(p) PROVE Still
<1>1. CASE PrepareCleanup(p) BY <1>1 DEF PrepareCleanup, Take
<1>2. CASE Clean(p) BY <1>2 DEF Clean
<1>3. CASE Cleaned(p) BY <1>3 DEF Cleaned, Drop
<1>. QED BY <1>1, <1>2, <1>3 DEF Cleanup

LEMMA UnwindStill ==
    ASSUME GInv, Calm, ~disturbed, NEW p \in Clients \cup Locals, Unwind(p) PROVE Still
BY DEF Unwind, Drop

LEMMA BootstrapStill ==
    ASSUME GInv, Calm, ~disturbed, NEW c \in Clients, Bootstrap(c) PROVE Still
<1>1. CASE Enter(c) BY <1>1 DEF Enter, Join, Shunned
<1>2. CASE Look(c)
  <2>1. CASE Take(c, "claim") /\ Go(c, "looked") /\ heard' = heard
    BY <1>2, <2>1 DEF Look, Take
  <2>2. CASE held' = held /\ Go(c, "connect") /\ heard' = heard
    BY <1>2, <2>2 DEF Look
  <2>3. CASE held["claim"] # NoOne /\ held' = held /\ Probed(c, WhenReserved(c))
    <3>1. CASE stage[c] = "open" BY <1>2, <2>3, <3>1 DEF Look, Probed, WhenReserved
    <3>2. CASE stage[c] = "watching" /\ held["claim"] \notin Daemons
      <4>1. disturbed' BY <1>2, <2>3, <3>2 DEF Look, Take, Collides
      <4>. QED BY <1>2, <2>3, <4>1 DEF Look, Probed
    <3>3. CASE stage[c] = "watching" /\ held["claim"] \in Daemons
      BY <1>2, <2>3, <3>3 DEF Look, Probed, WhenReserved
    <3>4. CASE stage[c] = "locked" BY <1>2, <2>3, <3>4 DEF Look, Probed, WhenReserved
    <3>. QED BY <3>1, <3>2, <3>3, <3>4
  <2>. QED BY <1>2, <2>1, <2>2, <2>3 DEF Look
<1>3. CASE Looked(c) BY <1>3 DEF Looked, Drop
<1>4. CASE Lifetime(c) BY <1>4 DEF Lifetime, Probed, WhenReserved, WhenAbsent, Collides
<1>5. CASE Connect(c)
  <2>1. ASSUME NEW d \in Daemons, socket = d, on' = [on EXCEPT ![c] = d], Probed(c, "unwind")
        PROVE Still
    BY <1>5, <2>1 DEF Connect, Probed
  <2>2. ASSUME NEW reply \in {"error", "rejected"}, reply = "rejected" => socket \in Daemons,
               heard' = [heard EXCEPT ![c] = reply], Go(c, "look")
        PROVE Still
    BY <1>5, <2>2 DEF Connect
  <2>3. \/ \E d \in Daemons : socket = d /\ on' = [on EXCEPT ![c] = d] /\ Probed(c, "unwind")
        \/ \E reply \in {"error", "rejected"} :
              /\ reply = "rejected" => socket \in Daemons
              /\ heard' = [heard EXCEPT ![c] = reply] /\ Go(c, "look")
    BY ONLY <1>5 DEF Connect
  <2>. QED BY <2>1, <2>2, <2>3
<1>6. CASE Pause(c) BY <1>6 DEF Pause
<1>7. CASE Expire(c)
  <2>1. CASE stage[c] = "watching" BY ZenonT(30), <1>7, <2>1 DEF Expire
  <2>2. CASE stage[c] # "watching" BY <1>7, <2>2 DEF Expire
  <2>. QED BY <2>1, <2>2
<1>8. CASE TryLock(c) BY <1>8 DEF TryLock, Take
<1>9. CASE Spawn(c) BY <1>9 DEF Spawn
<1>10. CASE SpawnFails(c) BY <1>10 DEF SpawnFails
<1>11. CASE Yield(c) BY <1>11 DEF Yield, Drop
<1>12. CASE Leave(c) BY <1>12 DEF Leave
<1>13. CASE Cleanup(c) BY <1>13, CleanupStill
<1>14. CASE Unwind(c) BY <1>14, UnwindStill
<1>. QED BY <1>1, <1>2, <1>3, <1>4, <1>5, <1>6, <1>7, <1>8, <1>9, <1>10, <1>11, <1>12, <1>13,
        <1>14 DEF Bootstrap

LEMMA HostStill ==
    ASSUME GInv, Calm, ~disturbed, NEW d \in Daemons, Host(d) PROVE Still
<1>1. CASE Admit(d) BY <1>1 DEF Admit, Join, Shunned
<1>2. CASE Claim(d) BY <1>2 DEF Claim, Take
<1>3. CASE ReserveLifetime(d) BY <1>3 DEF ReserveLifetime, Take
<1>4. CASE Bind(d) BY <1>4 DEF Bind
<1>5. CASE PublishSocket(d) BY <1>5 DEF PublishSocket
<1>6. CASE Stop(d) BY <1>6 DEF Stop, Stopped
<1>7. CASE Unlink(d) BY <1>7 DEF Unlink
<1>8. CASE Release(d) BY <1>8 DEF Release, Drop
<1>. QED BY <1>1, <1>2, <1>3, <1>4, <1>5, <1>6, <1>7, <1>8 DEF Host

LEMMA LocalStill ==
    ASSUME GInv, Calm, ~disturbed, NEW l \in Locals, Local(l) PROVE Still
<1>1. CASE BeginLocal(l) BY <1>1 DEF BeginLocal, Join, Shunned
<1>2. CASE LocalTransition(l) BY <1>2 DEF LocalTransition, Take
<1>3. CASE TransitionExpires(l) BY <1>3 DEF TransitionExpires
<1>4. CASE Seal(l) BY <1>4 DEF Seal
<1>5. CASE Presence(l) BY <1>5 DEF Presence, Take
<1>6. CASE Weigh(l) BY <1>6 DEF Weigh
<1>7. CASE Weighed(l) BY <1>7 DEF Weighed, Drop
<1>8. CASE BeginWork(l) BY <1>8 DEF BeginWork, Drop
<1>9. CASE EndWork(l) BY <1>9 DEF EndWork
<1>10. CASE Cleanup(l) BY <1>10, CleanupStill
<1>11. CASE Unwind(l) BY <1>11, UnwindStill
<1>. QED BY <1>1, <1>2, <1>3, <1>4, <1>5, <1>6, <1>7, <1>8, <1>9, <1>10, <1>11 DEF Local

LEMMA ActivationStill ==
    ASSUME GInv, Calm, ~disturbed, NEW a \in Activations, Activate(a) PROVE Still
<1>1. CASE EagerRequest(a) BY <1>1 DEF EagerRequest, Ask, Stopped
<1>2. CASE CloseAdmission(a) BY <1>2 DEF CloseAdmission, Take
<1>3. CASE First(a) BY <1>3 DEF First
<1>4. CASE RequestQuiescence(a) BY <1>4 DEF RequestQuiescence, Ask, Stopped
<1>5. CASE Drain(a) BY <1>5 DEF Drain
<1>6. CASE DrainExpires(a) BY <1>6 DEF DrainExpires
<1>7. CASE TakeStartup(a) BY <1>7 DEF TakeStartup, Take
<1>8. CASE Probe(a) BY <1>8 DEF Probe
<1>9. CASE Mutated(a) BY <1>9 DEF Mutated
<1>10. CASE ReleaseMutation(a) BY <1>10 DEF ReleaseMutation, Drop
<1>. QED BY <1>1, <1>2, <1>3, <1>4, <1>5, <1>6, <1>7, <1>8, <1>9, <1>10 DEF Activate

LEMMA EvictStill ==
    ASSUME GInv, Calm, ~disturbed, NEW l \in Locals, Evict(l) PROVE Still
BY DEF Evict, Exit

LEMMA DieStill ==
    ASSUME GInv, Calm, ~disturbed, NEW p \in Process, Die(p) PROVE Still
BY DEF Die, Exit

HIDE DEF Calm, Still, OneUp, Up, Awaited, Found, NamesLive, Refused

LEMMA DisturbedStays == ASSUME GInv, disturbed, GenerationNext PROVE disturbed'
<1>1. CASE \E c \in Clients : Bootstrap(c)
  BY <1>1 DEF Bootstrap, Enter, Join, Shunned, Look, Looked, Lifetime, Connect, Pause, Expire, TryLock,
     Cleanup, PrepareCleanup, Clean, Cleaned, Spawn, SpawnFails, Yield, Unwind, Leave
<1>2. CASE \E d \in Daemons : Host(d)
  BY <1>2 DEF Host, Admit, Join, Shunned, Claim, ReserveLifetime, Bind, PublishSocket, Stop, Stopped,
     Unlink, Release
<1>3. CASE \E l \in Locals : Local(l) \/ Evict(l)
  BY <1>3 DEF Local, BeginLocal, Join, Shunned, LocalTransition, TransitionExpires, Seal, Cleanup,
     PrepareCleanup, Clean, Cleaned, Presence, Weigh, Weighed, BeginWork, EndWork, Unwind, Evict
<1>4. CASE \E a \in Activations : Activate(a)
  BY <1>4 DEF Activate, EagerRequest, Ask, Stopped, CloseAdmission, First, RequestQuiescence, Drain,
     DrainExpires, TakeStartup, Probe, Mutated, ReleaseMutation
<1>5. CASE \E p \in Process : Die(p) BY <1>5 DEF Die
<1>6. CASE Rest BY <1>6 DEF Rest, generationVars
<1>. QED BY <1>1, <1>2, <1>3, <1>4, <1>5, <1>6 DEF GenerationNext

LEMMA QuietNext ==
    ASSUME GInv, Quiet, [GenerationNext]_generationVars
    PROVE Quiet' /\ [Refused => disturbed]_generationVars
<1>1. CASE UNCHANGED generationVars
  BY <1>1 DEF generationVars, Quiet, Calm, OneUp, Up, Awaited, Found, NamesLive
<1>2. CASE disturbed /\ GenerationNext BY <1>2, DisturbedStays DEF Quiet
<1>3. CASE ~disturbed /\ GenerationNext
  <2>1. Calm BY <1>3 DEF Quiet
  <2>2. CASE Rest
    BY <2>1, <2>2 DEF Rest, generationVars, Quiet, Calm, OneUp, Up, Awaited, Found, NamesLive
  <2>3. CASE ~Rest
    <3>1. Still
      BY <1>3, <2>1, <2>3, BootstrapStill, HostStill, LocalStill, EvictStill, ActivationStill,
         DieStill DEF GenerationNext
    <3>. QED BY <3>1 DEF Still, Quiet
  <2>. QED BY <2>2, <2>3
<1>. QED BY <1>1, <1>2, <1>3

LEMMA QuietInit == ASSUME GenerationInit PROVE Quiet
BY DEF GenerationInit, Quiet, Calm, OneUp, Up, Awaited, Found, NamesLive

HIDE DEF GInv

\* However many take part, as long as no parent takes another observer for its child or gives
\* up before it is there and nobody dies: one daemon at a time is launched, none is turned away by
\* another one or by what one left, no cleanup meets the lifetime lock, and no drained
\* activation is refused.
THEOREM OnlyTheDisturbedAreRefused == GenerationSpec => RefusedOnlyIfDisturbed
BY GInvInit, GInvNext, QuietInit, QuietNext, PTL DEF GenerationSpec, RefusedOnlyIfDisturbed

HIDE RolesAssumption DEF Process, Locks, GInv, GenerationTypeOK, ClientPhases, DaemonPhases,
    LocalPhases, ActivationPhases, Starting, Owning, Books, BarrierPhases, ClaimPhases, LifetimePhases, Outside,
    StartupSound, StartupPhases, SocketSound, DrainSound, Drained, NoneForeign, Go, clientVars, history

-----------------------------------------------------------------------------
(***************************************************************************)
(* OutcomesTrue holds for every kind of run and any number of failing      *)
(* calls, of acts of other programs and of power failures.                 *)
(*                                                                         *)
(* The argument: as long as nobody else touches the target, the flags of   *)
(* the transaction say exactly which names are bound and to what (Names,   *)
(* Flags), its state and the step of the call say whether the target is    *)
(* the old one or the new (Target), and a state in which a call may answer *)
(* bounds what the disk may hold (Disk).  What a call examines in the      *)
(* directory is then not needed for its answer to be true: it is examined  *)
(* for the runs in which another program does touch the target.            *)
(***************************************************************************)
Before == IF Existed THEN "old" ELSE "none"
After == IF Replaces THEN "new" ELSE "none"

Pairing == {"pair", "sync pair", "swap", "unlink pair"}
Replacing == {"unreserve", "link"} \cup Pairing
Linking == {"check link", "unlink stage", "published"}
Creating == {"publish", "link stage"} \cup Linking
Committed == {"sync commit", "validate"}
Returning == {"examine", "restore", "withdraw", "check withdrawn", "sync rollback"}
Discarding == {"discard stage", "discard backup", "sync discard"}

\* The transaction knows which of its own names are bound, and to what.
Names ==
    /\ tx.stagedExists => dir["stage"] = "new" /\ Replaces
    /\ ~tx.stagedExists => dir["stage"] = "none"
    /\ tx.backupExists =>
          dir["backup"] = (IF tx.backupHasTarget THEN "old" ELSE "reserve") /\ Existed
    /\ ~tx.backupExists => dir["backup"] = "none" /\ ~tx.backupHasTarget

\* A link that a publication made before it failed stays at the target, until a rollback
\* withdraws it.
Target ==
    /\ tx.state \in {"none", "staged", "rolled back"} /\ pc \notin Linking =>
          dir["target"] = Before
    /\ tx.state \in {"committed", "finalized"} \/ pc \in Linking => dir["target"] = After
    /\ tx.state = "recovery" =>
          /\ Existed => dir["target"] = IF tx.stagedExists THEN Before ELSE After
          /\ dir["target"] \in {Before, After}
    /\ pc = "check withdrawn" => dir["target"] = Before
    /\ tx.state = "gone" => dir["target"] \in {Before, After}

Flags ==
    /\ tx.state = "staged" => (tx.backupHasTarget <=> pc \in Pairing)
    /\ tx.state \in {"none", "finalized", "rolled back"} => ~tx.backupExists
    /\ tx.state \in {"none", "finalized", "committed"} => ~tx.stagedExists
    /\ tx.state = "committed" /\ tx.backupExists => tx.backupHasTarget

\* What the step of a call says of the transaction and of the call.
Place ==
    /\ pc \in {"reserve", "sync reserve", "stage", "sync stage"} =>
          tx.state = "staged" /\ call.op = "prepare"
    /\ pc \in {"reserve", "sync reserve"} => Existed
    /\ pc = "reserve" => ~tx.backupExists
    /\ pc \in {"stage", "sync stage"} => Replaces
    /\ pc \in Replacing \cup Creating \cup {"retire"} =>
          tx.state = "staged" /\ call.op = "commit"
    /\ pc \in Replacing => Existed /\ Replaces /\ tx.stagedExists
    /\ pc = "link" => ~tx.backupExists
    /\ pc \in Creating => ~Existed /\ Replaces /\ (tx.stagedExists <=> pc # "published")
    /\ pc = "retire" => Existed /\ ~Replaces
    /\ pc \in Committed => tx.state = "committed" /\ call.op = "commit"
    /\ pc \in Returning =>
          \/ call.op = "commit" /\ call.restored \in {"io", "rejected"}
          \/ call.op \in {"rollback", "close"} /\ call.restored = "ok"
    /\ pc \in {"examine", "restore", "withdraw"} => tx.state \in {"committed", "recovery"}
    /\ pc = "restore" => Existed /\ tx.backupHasTarget
    /\ pc = "withdraw" => ~Existed /\ Replaces
    /\ pc = "check withdrawn" => tx.state = "recovery" /\ ~Existed /\ Replaces
    /\ pc = "sync rollback" => tx.state = "rolled back"
    /\ pc = "sync finalize" =>
          tx.state = "committed" /\ call.op = "finalize" /\ ~tx.backupExists
    /\ pc \in Discarding =>
          call.op \in {"prepare", "close"} /\ tx.state \in {"staged", "rolled back"}
    /\ pc \in {"discard backup", "sync discard"} /\ tx.clean => ~tx.stagedExists
    /\ pc = "sync discard" /\ tx.clean => ~tx.backupExists
    /\ pc = "idle" /\ call.op = "finalize" => tx.state \in {"committed", "finalized"}

Disk ==
    /\ tx.state \in {"none", "staged"} /\ pc \notin Linking => \A d \in disk : Untouched(d)
    /\ tx.state = "committed" /\ pc \in {"idle", "validate", "sync finalize"} =>
          \A d \in disk : Done(d)
    /\ tx.state = "finalized" => disk = {dir}

Running == Names /\ Target /\ Flags /\ Place /\ Disk

IInv ==
    /\ TypeOK /\ TargetKept /\ AnswersTrue
    /\ ~meddled /\ pc # "dead" => Running

----------------------------------------------------------------------------
(* What the steps have in common: the kind of the run stays, only the disk *)
(* of now is added to the disks there may be, and whoever comes to owe the *)
(* old binary has owed it before.                                          *)

SameKind ==
    /\ budget' \in Allowed /\ budget'.action = budget.action
    /\ budget'.existed = budget.existed /\ budget'.noreplace = budget.noreplace
Owes == Existed /\ (tx.backupHasTarget \/ tx.state \in {"none", "staged", "rolled back"})
Live == IInv /\ pc # "dead" /\ meddled' = meddled /\ SameKind
Keeps == ~meddled => Running' /\ AnswersTrue' /\ (Owes' => Owes)

\* What TargetKept says of each directory that the disk may hold.
Fine(d) ==
    /\ d["target"] \in {"old", "new", "none"}
    /\ Existed /\ Replaces => d["target"] # "none"
    /\ Owes => Holding(d, "old")

LEMMA KeptByEach == TargetKept <=> (~meddled => \A d \in disk : Fine(d))
BY DEF TargetKept, Fine, Owes

LEMMA Budgeted ==
    ASSUME TypeOK, NEW good, Holds(good) \/ Fails(good) \/ UNCHANGED budget
    PROVE  SameKind
BY DEF TypeOK, Holds, Fails, SameKind, Allowed

LEMMA Spent ==
    ASSUME TypeOK,
           \/ budget.rivals > 0 /\ budget' = [budget EXCEPT !.rivals = @ - 1]
           \/ budget.crashes > 0 /\ budget' = [budget EXCEPT !.crashes = @ - 1]
    PROVE  SameKind
BY DEF TypeOK, SameKind, Allowed

USE DEF Live, Before, After, Untouched, Done, Replacing, Pairing, Creating, Linking, Committed,
    Returning, Discarding, Write, Sync, Same, Then, Return, Recover, RollBack

\* A step that keeps the parts leaves TargetKept to the directory it makes.
LEMMA Settles ==
    ASSUME Live, Keeps,
           tx' \in Transaction, pc' \in Step \cup {"idle"},
           call' \in [op : Op, restored : Status], answer' \in Status,
           dir' \in Directory, disk' \subseteq disk \cup {dir'}, dir' \in disk'
    PROVE  IInv'
<1>1. Existed' = Existed /\ Replaces' = Replaces
  BY DEF SameKind, Existed, Replaces
<1>2. pc' # "dead" /\ disk' \subseteq Directory
  BY DEF Step, TypeOK, IInv
<1>3. TypeOK'
  BY <1>2 DEF TypeOK, IInv, SameKind
<1>4. TargetKept'
  <2>1. ASSUME ~meddled'
        PROVE  /\ dir'["target"] \in {"old", "new", "none"}
               /\ Existed' /\ Replaces' => dir'["target"] # "none"
               /\ Owes' => Owes /\ (dir'["target"] = "old" \/ dir'["backup"] = "old")
    BY <1>1, <1>2, <1>3, <2>1
    DEF Keeps, Owes, TypeOK, Transaction, Running, Names, Target, Flags, Place
  <2>2. ASSUME ~meddled', NEW d \in disk'
        PROVE  Fine(d)'
    <3>1. CASE d = dir'
      BY <2>1, <2>2, <3>1 DEF Fine, Holding, Name
    <3>2. CASE d \in disk
      <4>1. Fine(d)
        BY <2>2, <3>2, KeptByEach DEF IInv
      <4>2. QED
        BY <1>1, <2>1, <2>2, <4>1 DEF Fine, Holding, Name
    <3>3. QED
      BY <2>2, <3>1, <3>2
  <2>3. (~meddled => \A d \in disk : Fine(d))'
    BY <2>2
  <2>4. QED
    BY <2>3 DEF TargetKept, Fine, Owes, Holding, Name
<1>5. QED
  BY <1>2, <1>3, <1>4 DEF IInv, Keeps, AnswersTrue

(* ----------------------------- preparation ------------------------------ *)

LEMMA ReserveKeeps == ASSUME IInv, Reserve PROVE IInv'
<1>1. Live /\ TypeOK /\ pc = "reserve"
  BY Budgeted DEF IInv, Reserve, At
<1>2. Existed' = Existed /\ Replaces' = Replaces
  BY <1>1 DEF SameKind, Existed, Replaces
<1>3. ASSUME Write([dir EXCEPT !["backup"] = "reserve"]),
             tx' = [tx EXCEPT !.backupExists = TRUE], Then("sync reserve")
      PROVE  IInv'
  <2>1. /\ dir'["target"] = dir["target"] /\ dir'["backup"] = "reserve" /\ dir'["stage"] = dir["stage"]
        /\ dir' \in Directory
    BY <1>1, <1>3 DEF TypeOK, Directory, Name, Inode
  <2>2. /\ tx'.state = tx.state /\ tx'.stagedExists = tx.stagedExists /\ tx'.backupExists
        /\ tx'.backupHasTarget = tx.backupHasTarget /\ tx'.backupId = tx.backupId /\ tx'.clean = tx.clean
        /\ tx' \in Transaction
    BY <1>1, <1>3 DEF TypeOK, Transaction
  <2>3. Keeps
    BY <1>1, <1>2, <1>3, <2>1, <2>2
    DEF Keeps, Owes, TypeOK, AnswersTrue, Holding, Name, IInv, Running, Names, Target, Flags,
        Place, Disk
  <2>4. QED
    BY <1>1, <1>2, <1>3, <2>1, <2>2, <2>3, Settles DEF TypeOK, Step, Op, Status
<1>4. ASSUME Same, tx' = [tx EXCEPT !.state = "gone"], Return("io")
      PROVE  IInv'
  <2>1. /\ tx'.state = "gone" /\ tx'.stagedExists = tx.stagedExists /\ tx'.backupExists = tx.backupExists
        /\ tx'.backupHasTarget = tx.backupHasTarget /\ tx'.backupId = tx.backupId /\ tx'.clean = tx.clean
        /\ tx' \in Transaction
    BY <1>1, <1>4 DEF TypeOK, Transaction
  <2>2. Keeps
    BY <1>1, <1>2, <1>4, <2>1
    DEF Keeps, Owes, TypeOK, AnswersTrue, Holding, Name, IInv, Running, Names, Target, Flags,
        Place, Disk
  <2>3. QED
    BY <1>1, <1>2, <1>4, <2>1, <2>2, Settles DEF TypeOK, Step, Op, Status
<1>5. QED
  BY <1>3, <1>4 DEF Reserve, Holds, Fails

LEMMA SyncReserveKeeps == ASSUME IInv, SyncReserve PROVE IInv'
<1>1. Live /\ TypeOK /\ pc = "sync reserve"
  BY Budgeted DEF IInv, SyncReserve, At
<1>2. Existed' = Existed /\ Replaces' = Replaces
  BY <1>1 DEF SameKind, Existed, Replaces
<1>3. ASSUME Replaces, Sync, UNCHANGED tx, Then("stage")
      PROVE  IInv'
  <2>1. Keeps
    BY <1>1, <1>2, <1>3
    DEF Keeps, Owes, TypeOK, AnswersTrue, Holding, Name, IInv, Running, Names, Target, Flags,
        Place, Disk
  <2>2. QED
    BY <1>1, <1>2, <1>3, <2>1, Settles DEF TypeOK, Step, Op, Status
<1>4. ASSUME ~Replaces, Sync, UNCHANGED tx, Return("ok")
      PROVE  IInv'
  <2>1. Keeps
    BY <1>1, <1>2, <1>4
    DEF Keeps, Owes, TypeOK, AnswersTrue, Holding, Name, IInv, Running, Names, Target, Flags,
        Place, Disk
  <2>2. QED
    BY <1>1, <1>2, <1>4, <2>1, Settles DEF TypeOK, Step, Op, Status
<1>5. ASSUME Same, UNCHANGED tx, Then("discard stage")
      PROVE  IInv'
  <2>1. Keeps
    BY <1>1, <1>2, <1>5
    DEF Keeps, Owes, TypeOK, AnswersTrue, Holding, Name, IInv, Running, Names, Target, Flags,
        Place, Disk
  <2>2. QED
    BY <1>1, <1>2, <1>5, <2>1, Settles DEF TypeOK, Step, Op, Status
<1>6. QED
  BY <1>3, <1>4, <1>5 DEF SyncReserve, Holds, Fails

LEMMA StageKeeps == ASSUME IInv, Stage PROVE IInv'
<1>1. Live /\ TypeOK /\ pc = "stage"
  BY Budgeted DEF IInv, Stage, At
<1>2. Existed' = Existed /\ Replaces' = Replaces
  BY <1>1 DEF SameKind, Existed, Replaces
<1>3. ASSUME Write([dir EXCEPT !["stage"] = "new"]), tx' = [tx EXCEPT !.stagedExists = TRUE],
             Then("sync stage")
      PROVE  IInv'
  <2>1. /\ dir'["target"] = dir["target"] /\ dir'["backup"] = dir["backup"] /\ dir'["stage"] = "new"
        /\ dir' \in Directory
    BY <1>1, <1>3 DEF TypeOK, Directory, Name, Inode
  <2>2. /\ tx'.state = tx.state /\ tx'.stagedExists /\ tx'.backupExists = tx.backupExists
        /\ tx'.backupHasTarget = tx.backupHasTarget /\ tx'.backupId = tx.backupId /\ tx'.clean = tx.clean
        /\ tx' \in Transaction
    BY <1>1, <1>3 DEF TypeOK, Transaction
  <2>3. Keeps
    BY <1>1, <1>2, <1>3, <2>1, <2>2
    DEF Keeps, Owes, TypeOK, AnswersTrue, Holding, Name, IInv, Running, Names, Target, Flags,
        Place, Disk
  <2>4. QED
    BY <1>1, <1>2, <1>3, <2>1, <2>2, <2>3, Settles DEF TypeOK, Step, Op, Status
<1>4. ASSUME Same, UNCHANGED tx, Then("discard stage")
      PROVE  IInv'
  <2>1. Keeps
    BY <1>1, <1>2, <1>4
    DEF Keeps, Owes, TypeOK, AnswersTrue, Holding, Name, IInv, Running, Names, Target, Flags,
        Place, Disk
  <2>2. QED
    BY <1>1, <1>2, <1>4, <2>1, Settles DEF TypeOK, Step, Op, Status
<1>5. QED
  BY <1>3, <1>4 DEF Stage, Holds, Fails

LEMMA SyncStageKeeps == ASSUME IInv, SyncStage PROVE IInv'
<1>1. Live /\ TypeOK /\ pc = "sync stage"
  BY Budgeted DEF IInv, SyncStage, At
<1>2. Existed' = Existed /\ Replaces' = Replaces
  BY <1>1 DEF SameKind, Existed, Replaces
<1>3. ASSUME Sync, UNCHANGED tx, Return("ok")
      PROVE  IInv'
  <2>1. Keeps
    BY <1>1, <1>2, <1>3
    DEF Keeps, Owes, TypeOK, AnswersTrue, Holding, Name, IInv, Running, Names, Target, Flags,
        Place, Disk
  <2>2. QED
    BY <1>1, <1>2, <1>3, <2>1, Settles DEF TypeOK, Step, Op, Status
<1>4. ASSUME Same, UNCHANGED tx, Then("discard stage")
      PROVE  IInv'
  <2>1. Keeps
    BY <1>1, <1>2, <1>4
    DEF Keeps, Owes, TypeOK, AnswersTrue, Holding, Name, IInv, Running, Names, Target, Flags,
        Place, Disk
  <2>2. QED
    BY <1>1, <1>2, <1>4, <2>1, Settles DEF TypeOK, Step, Op, Status
<1>5. QED
  BY <1>3, <1>4 DEF SyncStage, Holds, Fails

(* -------------------- a commit over an existing target ------------------- *)

LEMMA UnreserveKeeps == ASSUME IInv, Unreserve PROVE IInv'
<1>1. Live /\ TypeOK /\ pc = "unreserve"
  BY Budgeted DEF IInv, Unreserve, At
<1>2. Existed' = Existed /\ Replaces' = Replaces
  BY <1>1 DEF SameKind, Existed, Replaces
<1>3. ASSUME Write([dir EXCEPT !["backup"] = "none"]), tx' = [tx EXCEPT !.backupExists = FALSE],
             Then("link")
      PROVE  IInv'
  <2>1. /\ dir'["target"] = dir["target"] /\ dir'["backup"] = "none" /\ dir'["stage"] = dir["stage"]
        /\ dir' \in Directory
    BY <1>1, <1>3 DEF TypeOK, Directory, Name, Inode
  <2>2. /\ tx'.state = tx.state /\ tx'.stagedExists = tx.stagedExists /\ ~tx'.backupExists
        /\ tx'.backupHasTarget = tx.backupHasTarget /\ tx'.backupId = tx.backupId /\ tx'.clean = tx.clean
        /\ tx' \in Transaction
    BY <1>1, <1>3 DEF TypeOK, Transaction
  <2>3. Keeps
    BY <1>1, <1>2, <1>3, <2>1, <2>2
    DEF Keeps, Owes, TypeOK, AnswersTrue, Holding, Name, IInv, Running, Names, Target, Flags,
        Place, Disk
  <2>4. QED
    BY <1>1, <1>2, <1>3, <2>1, <2>2, <2>3, Settles DEF TypeOK, Step, Op, Status
<1>4. ASSUME Same, UNCHANGED tx, Return("io")
      PROVE  IInv'
  <2>1. Keeps
    BY <1>1, <1>2, <1>4
    DEF Keeps, Owes, TypeOK, AnswersTrue, Holding, Name, IInv, Running, Names, Target, Flags,
        Place, Disk
  <2>2. QED
    BY <1>1, <1>2, <1>4, <2>1, Settles DEF TypeOK, Step, Op, Status
<1>5. QED
  BY <1>3, <1>4 DEF Unreserve, Holds, Fails

LEMMA LinkKeeps == ASSUME IInv, Link PROVE IInv'
<1>1. Live /\ TypeOK /\ pc = "link"
  BY Budgeted DEF IInv, Link, At
<1>2. Existed' = Existed /\ Replaces' = Replaces
  BY <1>1 DEF SameKind, Existed, Replaces
<1>3. ASSUME Write([dir EXCEPT !["backup"] = dir["target"]]),
             tx' = [tx EXCEPT !.backupExists = TRUE, !.backupHasTarget = TRUE, !.backupId = "old"],
             Then("pair")
      PROVE  IInv'
  <2>1. /\ dir'["target"] = dir["target"] /\ dir'["backup"] = dir["target"] /\ dir'["stage"] = dir["stage"]
        /\ dir' \in Directory
    BY <1>1, <1>3 DEF TypeOK, Directory, Name, Inode
  <2>2. /\ tx'.state = tx.state /\ tx'.stagedExists = tx.stagedExists /\ tx'.backupExists
        /\ tx'.backupHasTarget /\ tx'.backupId = "old" /\ tx'.clean = tx.clean
        /\ tx' \in Transaction
    BY <1>1, <1>3 DEF TypeOK, Transaction
  <2>3. Keeps
    BY <1>1, <1>2, <1>3, <2>1, <2>2
    DEF Keeps, Owes, TypeOK, AnswersTrue, Holding, Name, IInv, Running, Names, Target, Flags,
        Place, Disk
  <2>4. QED
    BY <1>1, <1>2, <1>3, <2>1, <2>2, <2>3, Settles DEF TypeOK, Step, Op, Status
<1>4. ASSUME Same, UNCHANGED tx, Return("io")
      PROVE  IInv'
  <2>1. Keeps
    BY <1>1, <1>2, <1>4
    DEF Keeps, Owes, TypeOK, AnswersTrue, Holding, Name, IInv, Running, Names, Target, Flags,
        Place, Disk
  <2>2. QED
    BY <1>1, <1>2, <1>4, <2>1, Settles DEF TypeOK, Step, Op, Status
<1>5. QED
  BY <1>3, <1>4 DEF Link, Holds, Fails

LEMMA PairKeeps == ASSUME IInv, Pair PROVE IInv'
<1>1. Live /\ TypeOK /\ pc = "pair"
  BY Budgeted DEF IInv, Pair, At
<1>2. Existed' = Existed /\ Replaces' = Replaces
  BY <1>1 DEF SameKind, Existed, Replaces
<1>3. ASSUME Same, UNCHANGED tx, Then("sync pair")
      PROVE  IInv'
  <2>1. Keeps
    BY <1>1, <1>2, <1>3
    DEF Keeps, Owes, TypeOK, AnswersTrue, Holding, Name, IInv, Running, Names, Target, Flags,
        Place, Disk
  <2>2. QED
    BY <1>1, <1>2, <1>3, <2>1, Settles DEF TypeOK, Step, Op, Status
<1>4. ASSUME Same, UNCHANGED tx, Then("unlink pair")
      PROVE  IInv'
  <2>1. Keeps
    BY <1>1, <1>2, <1>4
    DEF Keeps, Owes, TypeOK, AnswersTrue, Holding, Name, IInv, Running, Names, Target, Flags,
        Place, Disk
  <2>2. QED
    BY <1>1, <1>2, <1>4, <2>1, Settles DEF TypeOK, Step, Op, Status
<1>5. QED
  BY <1>3, <1>4 DEF Pair, Holds, Fails

LEMMA SyncPairKeeps == ASSUME IInv, SyncPair PROVE IInv'
<1>1. Live /\ TypeOK /\ pc = "sync pair"
  BY Budgeted DEF IInv, SyncPair, At
<1>2. Existed' = Existed /\ Replaces' = Replaces
  BY <1>1 DEF SameKind, Existed, Replaces
<1>3. ASSUME Sync, UNCHANGED tx, Then("swap")
      PROVE  IInv'
  <2>1. Keeps
    BY <1>1, <1>2, <1>3
    DEF Keeps, Owes, TypeOK, AnswersTrue, Holding, Name, IInv, Running, Names, Target, Flags,
        Place, Disk
  <2>2. QED
    BY <1>1, <1>2, <1>3, <2>1, Settles DEF TypeOK, Step, Op, Status
<1>4. ASSUME Same, UNCHANGED tx, Then("unlink pair")
      PROVE  IInv'
  <2>1. Keeps
    BY <1>1, <1>2, <1>4
    DEF Keeps, Owes, TypeOK, AnswersTrue, Holding, Name, IInv, Running, Names, Target, Flags,
        Place, Disk
  <2>2. QED
    BY <1>1, <1>2, <1>4, <2>1, Settles DEF TypeOK, Step, Op, Status
<1>5. QED
  BY <1>3, <1>4 DEF SyncPair, Holds, Fails

LEMMA SwapKeeps == ASSUME IInv, Swap PROVE IInv'
<1>1. Live /\ TypeOK /\ pc = "swap"
  BY Budgeted DEF IInv, Swap, At
<1>2. Existed' = Existed /\ Replaces' = Replaces
  BY <1>1 DEF SameKind, Existed, Replaces
<1>3. ASSUME Write([dir EXCEPT !["target"] = dir["stage"], !["stage"] = "none"]),
             tx' = [tx EXCEPT !.stagedExists = FALSE, !.state = "committed"],
             Then("sync commit")
      PROVE  IInv'
  <2>1. /\ dir'["target"] = dir["stage"] /\ dir'["backup"] = dir["backup"] /\ dir'["stage"] = "none"
        /\ dir' \in Directory
    BY <1>1, <1>3 DEF TypeOK, Directory, Name, Inode
  <2>2. /\ tx'.state = "committed" /\ ~tx'.stagedExists /\ tx'.backupExists = tx.backupExists
        /\ tx'.backupHasTarget = tx.backupHasTarget /\ tx'.backupId = tx.backupId /\ tx'.clean = tx.clean
        /\ tx' \in Transaction
    BY <1>1, <1>3 DEF TypeOK, Transaction
  <2>3. Keeps
    BY <1>1, <1>2, <1>3, <2>1, <2>2
    DEF Keeps, Owes, TypeOK, AnswersTrue, Holding, Name, IInv, Running, Names, Target, Flags,
        Place, Disk
  <2>4. QED
    BY <1>1, <1>2, <1>3, <2>1, <2>2, <2>3, Settles DEF TypeOK, Step, Op, Status
<1>4. ASSUME Same, UNCHANGED tx, Then("unlink pair")
      PROVE  IInv'
  <2>1. Keeps
    BY <1>1, <1>2, <1>4
    DEF Keeps, Owes, TypeOK, AnswersTrue, Holding, Name, IInv, Running, Names, Target, Flags,
        Place, Disk
  <2>2. QED
    BY <1>1, <1>2, <1>4, <2>1, Settles DEF TypeOK, Step, Op, Status
<1>5. QED
  BY <1>3, <1>4 DEF Swap, Holds, Fails

LEMMA UnlinkPairKeeps == ASSUME IInv, UnlinkPair PROVE IInv'
<1>1. Live /\ TypeOK /\ pc = "unlink pair"
  BY Budgeted DEF IInv, UnlinkPair, At
<1>2. Existed' = Existed /\ Replaces' = Replaces
  BY <1>1 DEF SameKind, Existed, Replaces
<1>3. ASSUME Write([dir EXCEPT !["backup"] = "none"]),
             tx' = [tx EXCEPT !.backupExists = FALSE, !.backupHasTarget = FALSE], Return("io")
      PROVE  IInv'
  <2>1. /\ dir'["target"] = dir["target"] /\ dir'["backup"] = "none" /\ dir'["stage"] = dir["stage"]
        /\ dir' \in Directory
    BY <1>1, <1>3 DEF TypeOK, Directory, Name, Inode
  <2>2. /\ tx'.state = tx.state /\ tx'.stagedExists = tx.stagedExists /\ ~tx'.backupExists
        /\ ~tx'.backupHasTarget /\ tx'.backupId = tx.backupId /\ tx'.clean = tx.clean
        /\ tx' \in Transaction
    BY <1>1, <1>3 DEF TypeOK, Transaction
  <2>3. Keeps
    BY <1>1, <1>2, <1>3, <2>1, <2>2
    DEF Keeps, Owes, TypeOK, AnswersTrue, Holding, Name, IInv, Running, Names, Target, Flags,
        Place, Disk
  <2>4. QED
    BY <1>1, <1>2, <1>3, <2>1, <2>2, <2>3, Settles DEF TypeOK, Step, Op, Status
<1>4. ASSUME Same, Recover, RollBack("commit", "io")
      PROVE  IInv'
  <2>1. /\ tx'.state = "recovery" /\ tx'.stagedExists = tx.stagedExists /\ tx'.backupExists = tx.backupExists
        /\ tx'.backupHasTarget = tx.backupHasTarget /\ tx'.backupId = tx.backupId /\ tx'.clean = tx.clean
        /\ tx' \in Transaction
    BY <1>1, <1>4 DEF TypeOK, Transaction
  <2>2. Keeps
    BY <1>1, <1>2, <1>4, <2>1
    DEF Keeps, Owes, TypeOK, AnswersTrue, Holding, Name, IInv, Running, Names, Target, Flags,
        Place, Disk
  <2>3. QED
    BY <1>1, <1>2, <1>4, <2>1, <2>2, Settles DEF TypeOK, Step, Op, Status
<1>5. QED
  BY <1>3, <1>4 DEF UnlinkPair, Holds, Fails

LEMMA RetireKeeps == ASSUME IInv, Retire PROVE IInv'
<1>1. Live /\ TypeOK /\ pc = "retire"
  BY Budgeted DEF IInv, Retire, At
<1>2. Existed' = Existed /\ Replaces' = Replaces
  BY <1>1 DEF SameKind, Existed, Replaces
<1>3. ASSUME tx.backupExists,
             Write([dir EXCEPT !["backup"] = dir["target"], !["target"] = "none"]),
             tx' = [tx EXCEPT !.state = "committed", !.backupHasTarget = TRUE, !.backupId = "old"],
             Then("sync commit")
      PROVE  IInv'
  <2>1. /\ dir'["target"] = "none" /\ dir'["backup"] = dir["target"] /\ dir'["stage"] = dir["stage"]
        /\ dir' \in Directory
    BY <1>1, <1>3 DEF TypeOK, Directory, Name, Inode
  <2>2. /\ tx'.state = "committed" /\ tx'.stagedExists = tx.stagedExists /\ tx'.backupExists = tx.backupExists
        /\ tx'.backupHasTarget /\ tx'.backupId = "old" /\ tx'.clean = tx.clean
        /\ tx' \in Transaction
    BY <1>1, <1>3 DEF TypeOK, Transaction
  <2>3. Keeps
    BY <1>1, <1>2, <1>3, <2>1, <2>2
    DEF Keeps, Owes, TypeOK, AnswersTrue, Holding, Name, IInv, Running, Names, Target, Flags,
        Place, Disk
  <2>4. QED
    BY <1>1, <1>2, <1>3, <2>1, <2>2, <2>3, Settles DEF TypeOK, Step, Op, Status
<1>4. ASSUME Same, UNCHANGED tx, Return("io")
      PROVE  IInv'
  <2>1. Keeps
    BY <1>1, <1>2, <1>4
    DEF Keeps, Owes, TypeOK, AnswersTrue, Holding, Name, IInv, Running, Names, Target, Flags,
        Place, Disk
  <2>2. QED
    BY <1>1, <1>2, <1>4, <2>1, Settles DEF TypeOK, Step, Op, Status
<1>5. QED
  BY <1>3, <1>4 DEF Retire, Holds, Fails

(* -------------------- a commit where there was nothing ------------------- *)

LEMMA PublishKeeps == ASSUME IInv, Publish PROVE IInv'
<1>1. Live /\ TypeOK /\ pc = "publish"
  BY Budgeted DEF IInv, Publish, At
<1>2. Existed' = Existed /\ Replaces' = Replaces
  BY <1>1 DEF SameKind, Existed, Replaces
<1>3. ASSUME Write([dir EXCEPT !["target"] = "new", !["stage"] = "none"]),
             tx' = [tx EXCEPT !.stagedExists = FALSE], Then("published")
      PROVE  IInv'
  <2>1. /\ dir'["target"] = "new" /\ dir'["backup"] = dir["backup"] /\ dir'["stage"] = "none"
        /\ dir' \in Directory
    BY <1>1, <1>3 DEF TypeOK, Directory, Name, Inode
  <2>2. /\ tx'.state = tx.state /\ ~tx'.stagedExists /\ tx'.backupExists = tx.backupExists
        /\ tx'.backupHasTarget = tx.backupHasTarget /\ tx'.backupId = tx.backupId /\ tx'.clean = tx.clean
        /\ tx' \in Transaction
    BY <1>1, <1>3 DEF TypeOK, Transaction
  <2>3. Keeps
    BY <1>1, <1>2, <1>3, <2>1, <2>2
    DEF Keeps, Owes, TypeOK, AnswersTrue, Holding, Name, IInv, Running, Names, Target, Flags,
        Place, Disk
  <2>4. QED
    BY <1>1, <1>2, <1>3, <2>1, <2>2, <2>3, Settles DEF TypeOK, Step, Op, Status
<1>4. ASSUME Same, UNCHANGED tx, Then("link stage")
      PROVE  IInv'
  <2>1. Keeps
    BY <1>1, <1>2, <1>4
    DEF Keeps, Owes, TypeOK, AnswersTrue, Holding, Name, IInv, Running, Names, Target, Flags,
        Place, Disk
  <2>2. QED
    BY <1>1, <1>2, <1>4, <2>1, Settles DEF TypeOK, Step, Op, Status
<1>5. ASSUME Same, UNCHANGED tx, Return("io")
      PROVE  IInv'
  <2>1. Keeps
    BY <1>1, <1>2, <1>5
    DEF Keeps, Owes, TypeOK, AnswersTrue, Holding, Name, IInv, Running, Names, Target, Flags,
        Place, Disk
  <2>2. QED
    BY <1>1, <1>2, <1>5, <2>1, Settles DEF TypeOK, Step, Op, Status
<1>6. QED
  BY <1>3, <1>4, <1>5 DEF Publish, Holds, Fails

LEMMA LinkStageKeeps == ASSUME IInv, LinkStage PROVE IInv'
<1>1. Live /\ TypeOK /\ pc = "link stage"
  BY Budgeted DEF IInv, LinkStage, At
<1>2. Existed' = Existed /\ Replaces' = Replaces
  BY <1>1 DEF SameKind, Existed, Replaces
<1>3. ASSUME Write([dir EXCEPT !["target"] = dir["stage"]]), UNCHANGED tx, Then("check link")
      PROVE  IInv'
  <2>1. /\ dir'["target"] = dir["stage"] /\ dir'["backup"] = dir["backup"] /\ dir'["stage"] = dir["stage"]
        /\ dir' \in Directory
    BY <1>1, <1>3 DEF TypeOK, Directory, Name, Inode
  <2>2. Keeps
    BY <1>1, <1>2, <1>3, <2>1
    DEF Keeps, Owes, TypeOK, AnswersTrue, Holding, Name, IInv, Running, Names, Target, Flags,
        Place, Disk
  <2>3. QED
    BY <1>1, <1>2, <1>3, <2>1, <2>2, Settles DEF TypeOK, Step, Op, Status
<1>4. ASSUME Same, UNCHANGED tx, Return("io")
      PROVE  IInv'
  <2>1. Keeps
    BY <1>1, <1>2, <1>4
    DEF Keeps, Owes, TypeOK, AnswersTrue, Holding, Name, IInv, Running, Names, Target, Flags,
        Place, Disk
  <2>2. QED
    BY <1>1, <1>2, <1>4, <2>1, Settles DEF TypeOK, Step, Op, Status
<1>5. QED
  BY <1>3, <1>4 DEF LinkStage, Holds, Fails

LEMMA CheckLinkKeeps == ASSUME IInv, CheckLink PROVE IInv'
<1>1. Live /\ TypeOK /\ pc = "check link"
  BY Budgeted DEF IInv, CheckLink, At
<1>2. Existed' = Existed /\ Replaces' = Replaces
  BY <1>1 DEF SameKind, Existed, Replaces
<1>3. ASSUME Same, UNCHANGED tx, Then("unlink stage")
      PROVE  IInv'
  <2>1. Keeps
    BY <1>1, <1>2, <1>3
    DEF Keeps, Owes, TypeOK, AnswersTrue, Holding, Name, IInv, Running, Names, Target, Flags,
        Place, Disk
  <2>2. QED
    BY <1>1, <1>2, <1>3, <2>1, Settles DEF TypeOK, Step, Op, Status
<1>4. ASSUME Same, Recover, RollBack("commit", "io")
      PROVE  IInv'
  <2>1. /\ tx'.state = "recovery" /\ tx'.stagedExists = tx.stagedExists /\ tx'.backupExists = tx.backupExists
        /\ tx'.backupHasTarget = tx.backupHasTarget /\ tx'.backupId = tx.backupId /\ tx'.clean = tx.clean
        /\ tx' \in Transaction
    BY <1>1, <1>4 DEF TypeOK, Transaction
  <2>2. Keeps
    BY <1>1, <1>2, <1>4, <2>1
    DEF Keeps, Owes, TypeOK, AnswersTrue, Holding, Name, IInv, Running, Names, Target, Flags,
        Place, Disk
  <2>3. QED
    BY <1>1, <1>2, <1>4, <2>1, <2>2, Settles DEF TypeOK, Step, Op, Status
<1>5. QED
  BY <1>3, <1>4 DEF CheckLink, Holds, Fails

LEMMA UnlinkStageKeeps == ASSUME IInv, UnlinkStage PROVE IInv'
<1>1. Live /\ TypeOK /\ pc = "unlink stage"
  BY Budgeted DEF IInv, UnlinkStage, At
<1>2. Existed' = Existed /\ Replaces' = Replaces
  BY <1>1 DEF SameKind, Existed, Replaces
<1>3. ASSUME Write([dir EXCEPT !["stage"] = "none"]), tx' = [tx EXCEPT !.stagedExists = FALSE],
             Then("published")
      PROVE  IInv'
  <2>1. /\ dir'["target"] = dir["target"] /\ dir'["backup"] = dir["backup"] /\ dir'["stage"] = "none"
        /\ dir' \in Directory
    BY <1>1, <1>3 DEF TypeOK, Directory, Name, Inode
  <2>2. /\ tx'.state = tx.state /\ ~tx'.stagedExists /\ tx'.backupExists = tx.backupExists
        /\ tx'.backupHasTarget = tx.backupHasTarget /\ tx'.backupId = tx.backupId /\ tx'.clean = tx.clean
        /\ tx' \in Transaction
    BY <1>1, <1>3 DEF TypeOK, Transaction
  <2>3. Keeps
    BY <1>1, <1>2, <1>3, <2>1, <2>2
    DEF Keeps, Owes, TypeOK, AnswersTrue, Holding, Name, IInv, Running, Names, Target, Flags,
        Place, Disk
  <2>4. QED
    BY <1>1, <1>2, <1>3, <2>1, <2>2, <2>3, Settles DEF TypeOK, Step, Op, Status
<1>4. ASSUME Same, Recover, RollBack("commit", "io")
      PROVE  IInv'
  <2>1. /\ tx'.state = "recovery" /\ tx'.stagedExists = tx.stagedExists /\ tx'.backupExists = tx.backupExists
        /\ tx'.backupHasTarget = tx.backupHasTarget /\ tx'.backupId = tx.backupId /\ tx'.clean = tx.clean
        /\ tx' \in Transaction
    BY <1>1, <1>4 DEF TypeOK, Transaction
  <2>2. Keeps
    BY <1>1, <1>2, <1>4, <2>1
    DEF Keeps, Owes, TypeOK, AnswersTrue, Holding, Name, IInv, Running, Names, Target, Flags,
        Place, Disk
  <2>3. QED
    BY <1>1, <1>2, <1>4, <2>1, <2>2, Settles DEF TypeOK, Step, Op, Status
<1>5. QED
  BY <1>3, <1>4 DEF UnlinkStage, Holds, Fails

LEMMA PublishedKeeps == ASSUME IInv, Published PROVE IInv'
<1>1. Live /\ TypeOK /\ pc = "published"
  BY Budgeted DEF IInv, Published, At
<1>2. Existed' = Existed /\ Replaces' = Replaces
  BY <1>1 DEF SameKind, Existed, Replaces
<1>3. ASSUME Same, tx' = [tx EXCEPT !.state = "committed"], Then("sync commit")
      PROVE  IInv'
  <2>1. /\ tx'.state = "committed" /\ tx'.stagedExists = tx.stagedExists /\ tx'.backupExists = tx.backupExists
        /\ tx'.backupHasTarget = tx.backupHasTarget /\ tx'.backupId = tx.backupId /\ tx'.clean = tx.clean
        /\ tx' \in Transaction
    BY <1>1, <1>3 DEF TypeOK, Transaction
  <2>2. Keeps
    BY <1>1, <1>2, <1>3, <2>1
    DEF Keeps, Owes, TypeOK, AnswersTrue, Holding, Name, IInv, Running, Names, Target, Flags,
        Place, Disk
  <2>3. QED
    BY <1>1, <1>2, <1>3, <2>1, <2>2, Settles DEF TypeOK, Step, Op, Status
<1>4. ASSUME Same, Recover, RollBack("commit", "io")
      PROVE  IInv'
  <2>1. /\ tx'.state = "recovery" /\ tx'.stagedExists = tx.stagedExists /\ tx'.backupExists = tx.backupExists
        /\ tx'.backupHasTarget = tx.backupHasTarget /\ tx'.backupId = tx.backupId /\ tx'.clean = tx.clean
        /\ tx' \in Transaction
    BY <1>1, <1>4 DEF TypeOK, Transaction
  <2>2. Keeps
    BY <1>1, <1>2, <1>4, <2>1
    DEF Keeps, Owes, TypeOK, AnswersTrue, Holding, Name, IInv, Running, Names, Target, Flags,
        Place, Disk
  <2>3. QED
    BY <1>1, <1>2, <1>4, <2>1, <2>2, Settles DEF TypeOK, Step, Op, Status
<1>5. QED
  BY <1>3, <1>4 DEF Published, Holds, Fails

(* --------------------------- the end of a commit ------------------------- *)

LEMMA SyncCommitKeeps == ASSUME IInv, SyncCommit PROVE IInv'
<1>1. Live /\ TypeOK /\ pc = "sync commit"
  BY Budgeted DEF IInv, SyncCommit, At
<1>2. Existed' = Existed /\ Replaces' = Replaces
  BY <1>1 DEF SameKind, Existed, Replaces
<1>3. ASSUME Replaces, Sync, UNCHANGED tx, Then("validate")
      PROVE  IInv'
  <2>1. Keeps
    BY <1>1, <1>2, <1>3
    DEF Keeps, Owes, TypeOK, AnswersTrue, Holding, Name, IInv, Running, Names, Target, Flags,
        Place, Disk
  <2>2. QED
    BY <1>1, <1>2, <1>3, <2>1, Settles DEF TypeOK, Step, Op, Status
<1>4. ASSUME ~Replaces, Sync, UNCHANGED tx, Return("ok")
      PROVE  IInv'
  <2>1. Keeps
    BY <1>1, <1>2, <1>4
    DEF Keeps, Owes, TypeOK, AnswersTrue, Holding, Name, IInv, Running, Names, Target, Flags,
        Place, Disk
  <2>2. QED
    BY <1>1, <1>2, <1>4, <2>1, Settles DEF TypeOK, Step, Op, Status
<1>5. ASSUME Same, UNCHANGED tx, RollBack("commit", "io")
      PROVE  IInv'
  <2>1. Keeps
    BY <1>1, <1>2, <1>5
    DEF Keeps, Owes, TypeOK, AnswersTrue, Holding, Name, IInv, Running, Names, Target, Flags,
        Place, Disk
  <2>2. QED
    BY <1>1, <1>2, <1>5, <2>1, Settles DEF TypeOK, Step, Op, Status
<1>6. QED
  BY <1>3, <1>4, <1>5 DEF SyncCommit, Holds, Fails

LEMMA ValidateKeeps == ASSUME IInv, Validate PROVE IInv'
<1>1. Live /\ TypeOK /\ pc = "validate"
  BY Budgeted DEF IInv, Validate, At
<1>2. Existed' = Existed /\ Replaces' = Replaces
  BY <1>1 DEF SameKind, Existed, Replaces
<1>3. ASSUME Same, UNCHANGED tx, Return("ok")
      PROVE  IInv'
  <2>1. Keeps
    BY <1>1, <1>2, <1>3
    DEF Keeps, Owes, TypeOK, AnswersTrue, Holding, Name, IInv, Running, Names, Target, Flags,
        Place, Disk
  <2>2. QED
    BY <1>1, <1>2, <1>3, <2>1, Settles DEF TypeOK, Step, Op, Status
<1>4. ASSUME Same, UNCHANGED tx, RollBack("commit", "rejected")
      PROVE  IInv'
  <2>1. Keeps
    BY <1>1, <1>2, <1>4
    DEF Keeps, Owes, TypeOK, AnswersTrue, Holding, Name, IInv, Running, Names, Target, Flags,
        Place, Disk
  <2>2. QED
    BY <1>1, <1>2, <1>4, <2>1, Settles DEF TypeOK, Step, Op, Status
<1>5. QED
  BY <1>3, <1>4 DEF Validate, Holds, Fails

(* --------------------------------- rollback ------------------------------ *)

LEMMA ExamineKeeps == ASSUME IInv, Examine PROVE IInv'
<1>1. Live /\ TypeOK /\ pc = "examine"
  BY Budgeted DEF IInv, Examine, At, Restorable
<1>2. Existed' = Existed /\ Replaces' = Replaces
  BY <1>1 DEF SameKind, Existed, Replaces
<1>3. ASSUME Existed, tx.backupHasTarget, Same, UNCHANGED tx, Then("restore")
      PROVE  IInv'
  <2>1. Keeps
    BY <1>1, <1>2, <1>3
    DEF Keeps, Owes, TypeOK, AnswersTrue, Holding, Name, IInv, Running, Names, Target, Flags,
        Place, Disk
  <2>2. QED
    BY <1>1, <1>2, <1>3, <2>1, Settles DEF TypeOK, Step, Op, Status
<1>4. ASSUME Same, Recover, Return("rollback failed")
      PROVE  IInv'
  <2>1. /\ tx'.state = "recovery" /\ tx'.stagedExists = tx.stagedExists /\ tx'.backupExists = tx.backupExists
        /\ tx'.backupHasTarget = tx.backupHasTarget /\ tx'.backupId = tx.backupId /\ tx'.clean = tx.clean
        /\ tx' \in Transaction
    BY <1>1, <1>4 DEF TypeOK, Transaction
  <2>2. Keeps
    BY <1>1, <1>2, <1>4, <2>1
    DEF Keeps, Owes, TypeOK, AnswersTrue, Holding, Name, IInv, Running, Names, Target, Flags,
        Place, Disk
  <2>3. QED
    BY <1>1, <1>2, <1>4, <2>1, <2>2, Settles DEF TypeOK, Step, Op, Status
<1>5. ASSUME ~Existed, Replaces, Same, UNCHANGED tx, Then("withdraw")
      PROVE  IInv'
  <2>1. Keeps
    BY <1>1, <1>2, <1>5
    DEF Keeps, Owes, TypeOK, AnswersTrue, Holding, Name, IInv, Running, Names, Target, Flags,
        Place, Disk
  <2>2. QED
    BY <1>1, <1>2, <1>5, <2>1, Settles DEF TypeOK, Step, Op, Status
<1>6. ASSUME ~Existed, ~Replaces, Same, tx' = [tx EXCEPT !.state = "rolled back"],
             Then("sync rollback")
      PROVE  IInv'
  <2>1. /\ tx'.state = "rolled back" /\ tx'.stagedExists = tx.stagedExists
        /\ tx'.backupExists = tx.backupExists
        /\ tx'.backupHasTarget = tx.backupHasTarget /\ tx'.backupId = tx.backupId /\ tx'.clean = tx.clean
        /\ tx' \in Transaction
    BY <1>1, <1>6 DEF TypeOK, Transaction
  <2>2. Keeps
    BY <1>1, <1>2, <1>6, <2>1
    DEF Keeps, Owes, TypeOK, AnswersTrue, Holding, Name, IInv, Running, Names, Target, Flags,
        Place, Disk
  <2>3. QED
    BY <1>1, <1>2, <1>6, <2>1, <2>2, Settles DEF TypeOK, Step, Op, Status
<1>7. QED
  BY <1>3, <1>4, <1>5, <1>6 DEF Examine, Holds, Fails, Restorable

LEMMA RestoreKeeps == ASSUME IInv, Restore PROVE IInv'
<1>1. Live /\ TypeOK /\ pc = "restore"
  BY Budgeted DEF IInv, Restore, At
<1>2. Existed' = Existed /\ Replaces' = Replaces
  BY <1>1 DEF SameKind, Existed, Replaces
<1>3. ASSUME Bound("backup"),
             Write([dir EXCEPT !["target"] = dir["backup"], !["backup"] = "none"]),
             tx' = [tx EXCEPT !.state = "rolled back", !.backupExists = FALSE, !.backupHasTarget = FALSE],
             Then("sync rollback")
      PROVE  IInv'
  <2>1. /\ dir'["target"] = dir["backup"] /\ dir'["backup"] = "none" /\ dir'["stage"] = dir["stage"]
        /\ dir' \in Directory
    BY <1>1, <1>3 DEF TypeOK, Directory, Name, Inode
  <2>2. /\ tx'.state = "rolled back" /\ tx'.stagedExists = tx.stagedExists /\ ~tx'.backupExists
        /\ ~tx'.backupHasTarget /\ tx'.backupId = tx.backupId /\ tx'.clean = tx.clean
        /\ tx' \in Transaction
    BY <1>1, <1>3 DEF TypeOK, Transaction
  <2>3. Keeps
    BY <1>1, <1>2, <1>3, <2>1, <2>2
    DEF Keeps, Owes, TypeOK, AnswersTrue, Holding, Name, IInv, Running, Names, Target, Flags,
        Place, Disk
  <2>4. QED
    BY <1>1, <1>2, <1>3, <2>1, <2>2, <2>3, Settles DEF TypeOK, Step, Op, Status
<1>4. ASSUME Same, Recover, Return("rollback failed")
      PROVE  IInv'
  <2>1. /\ tx'.state = "recovery" /\ tx'.stagedExists = tx.stagedExists /\ tx'.backupExists = tx.backupExists
        /\ tx'.backupHasTarget = tx.backupHasTarget /\ tx'.backupId = tx.backupId /\ tx'.clean = tx.clean
        /\ tx' \in Transaction
    BY <1>1, <1>4 DEF TypeOK, Transaction
  <2>2. Keeps
    BY <1>1, <1>2, <1>4, <2>1
    DEF Keeps, Owes, TypeOK, AnswersTrue, Holding, Name, IInv, Running, Names, Target, Flags,
        Place, Disk
  <2>3. QED
    BY <1>1, <1>2, <1>4, <2>1, <2>2, Settles DEF TypeOK, Step, Op, Status
<1>5. QED
  BY <1>3, <1>4 DEF Restore, Holds, Fails

LEMMA WithdrawKeeps == ASSUME IInv, Withdraw PROVE IInv'
<1>1. Live /\ TypeOK /\ pc = "withdraw"
  BY Budgeted DEF IInv, Withdraw, At
<1>2. Existed' = Existed /\ Replaces' = Replaces
  BY <1>1 DEF SameKind, Existed, Replaces
<1>3. ASSUME Withdrawable, ~Matches("target", "new"), Write([dir EXCEPT !["target"] = "none"]),
             UNCHANGED tx, Then("check withdrawn")
      PROVE  IInv'
  <2>1. /\ dir'["target"] = "none" /\ dir'["backup"] = dir["backup"] /\ dir'["stage"] = dir["stage"]
        /\ dir' \in Directory
    BY <1>1, <1>3 DEF TypeOK, Directory, Name, Inode
  <2>2. ~meddled => tx.state = "recovery"
    BY <1>1, <1>3 DEF Withdrawable, IInv, Running, Flags, Place
  <2>3. Keeps
    BY <1>1, <1>2, <1>3, <2>1, <2>2
    DEF Keeps, Owes, TypeOK, AnswersTrue, Holding, Name, IInv, Running, Names, Target, Flags,
        Place, Disk
  <2>4. QED
    BY <1>1, <1>2, <1>3, <2>1, <2>3, Settles DEF TypeOK, Step, Op, Status
<1>4. ASSUME Write([dir EXCEPT !["target"] = "none"]),
             tx' = [tx EXCEPT !.state = "rolled back"], Then("sync rollback")
      PROVE  IInv'
  <2>1. /\ dir'["target"] = "none" /\ dir'["backup"] = dir["backup"] /\ dir'["stage"] = dir["stage"]
        /\ dir' \in Directory
    BY <1>1, <1>4 DEF TypeOK, Directory, Name, Inode
  <2>2. /\ tx'.state = "rolled back" /\ tx'.stagedExists = tx.stagedExists
        /\ tx'.backupExists = tx.backupExists
        /\ tx'.backupHasTarget = tx.backupHasTarget /\ tx'.backupId = tx.backupId /\ tx'.clean = tx.clean
        /\ tx' \in Transaction
    BY <1>1, <1>4 DEF TypeOK, Transaction
  <2>3. Keeps
    BY <1>1, <1>2, <1>4, <2>1, <2>2
    DEF Keeps, Owes, TypeOK, AnswersTrue, Holding, Name, IInv, Running, Names, Target, Flags,
        Place, Disk
  <2>4. QED
    BY <1>1, <1>2, <1>4, <2>1, <2>2, <2>3, Settles DEF TypeOK, Step, Op, Status
<1>5. ASSUME Same, Recover, Return("rollback failed")
      PROVE  IInv'
  <2>1. /\ tx'.state = "recovery" /\ tx'.stagedExists = tx.stagedExists /\ tx'.backupExists = tx.backupExists
        /\ tx'.backupHasTarget = tx.backupHasTarget /\ tx'.backupId = tx.backupId /\ tx'.clean = tx.clean
        /\ tx' \in Transaction
    BY <1>1, <1>5 DEF TypeOK, Transaction
  <2>2. Keeps
    BY <1>1, <1>2, <1>5, <2>1
    DEF Keeps, Owes, TypeOK, AnswersTrue, Holding, Name, IInv, Running, Names, Target, Flags,
        Place, Disk
  <2>3. QED
    BY <1>1, <1>2, <1>5, <2>1, <2>2, Settles DEF TypeOK, Step, Op, Status
<1>6. QED
  BY <1>3, <1>4, <1>5 DEF Withdraw, Holds, Fails

LEMMA CheckWithdrawnKeeps == ASSUME IInv, CheckWithdrawn PROVE IInv'
<1>1. Live /\ TypeOK /\ pc = "check withdrawn"
  BY Budgeted DEF IInv, CheckWithdrawn, At
<1>2. Existed' = Existed /\ Replaces' = Replaces
  BY <1>1 DEF SameKind, Existed, Replaces
<1>3. ASSUME Same, tx' = [tx EXCEPT !.state = "rolled back"], Then("sync rollback")
      PROVE  IInv'
  <2>1. /\ tx'.state = "rolled back" /\ tx'.stagedExists = tx.stagedExists
        /\ tx'.backupExists = tx.backupExists
        /\ tx'.backupHasTarget = tx.backupHasTarget /\ tx'.backupId = tx.backupId /\ tx'.clean = tx.clean
        /\ tx' \in Transaction
    BY <1>1, <1>3 DEF TypeOK, Transaction
  <2>2. Keeps
    BY <1>1, <1>2, <1>3, <2>1
    DEF Keeps, Owes, TypeOK, AnswersTrue, Holding, Name, IInv, Running, Names, Target, Flags,
        Place, Disk
  <2>3. QED
    BY <1>1, <1>2, <1>3, <2>1, <2>2, Settles DEF TypeOK, Step, Op, Status
<1>4. ASSUME Same, Recover, Return("rollback failed")
      PROVE  IInv'
  <2>1. /\ tx'.state = "recovery" /\ tx'.stagedExists = tx.stagedExists /\ tx'.backupExists = tx.backupExists
        /\ tx'.backupHasTarget = tx.backupHasTarget /\ tx'.backupId = tx.backupId /\ tx'.clean = tx.clean
        /\ tx' \in Transaction
    BY <1>1, <1>4 DEF TypeOK, Transaction
  <2>2. Keeps
    BY <1>1, <1>2, <1>4, <2>1
    DEF Keeps, Owes, TypeOK, AnswersTrue, Holding, Name, IInv, Running, Names, Target, Flags,
        Place, Disk
  <2>3. QED
    BY <1>1, <1>2, <1>4, <2>1, <2>2, Settles DEF TypeOK, Step, Op, Status
<1>5. QED
  BY <1>3, <1>4 DEF CheckWithdrawn, Holds, Fails

LEMMA SyncRollbackKeeps == ASSUME IInv, SyncRollback PROVE IInv'
<1>1. Live /\ TypeOK /\ pc = "sync rollback"
  BY Budgeted DEF IInv, SyncRollback, At
<1>2. Existed' = Existed /\ Replaces' = Replaces
  BY <1>1 DEF SameKind, Existed, Replaces
<1>3. ASSUME call.op = "close", Sync, UNCHANGED tx, Then("discard stage")
      PROVE  IInv'
  <2>1. Keeps
    BY <1>1, <1>2, <1>3
    DEF Keeps, Owes, TypeOK, AnswersTrue, Holding, Name, IInv, Running, Names, Target, Flags,
        Place, Disk
  <2>2. QED
    BY <1>1, <1>2, <1>3, <2>1, Settles DEF TypeOK, Step, Op, Status
<1>4. ASSUME call.op # "close", Sync, UNCHANGED tx, Return(call.restored)
      PROVE  IInv'
  <2>1. Keeps
    BY <1>1, <1>2, <1>4
    DEF Keeps, Owes, TypeOK, AnswersTrue, Holding, Name, IInv, Running, Names, Target, Flags,
        Place, Disk
  <2>2. QED
    BY <1>1, <1>2, <1>4, <2>1, Settles DEF TypeOK, Step, Op, Status
<1>5. ASSUME Same, UNCHANGED tx,
             Return((IF call.op = "commit" THEN "rollback failed" ELSE "io"))
      PROVE  IInv'
  <2>1. Keeps
    BY <1>1, <1>2, <1>5
    DEF Keeps, Owes, TypeOK, AnswersTrue, Holding, Name, IInv, Running, Names, Target, Flags,
        Place, Disk
  <2>2. QED
    BY <1>1, <1>2, <1>5, <2>1, Settles DEF TypeOK, Step, Op, Status
<1>6. QED
  BY <1>3, <1>4, <1>5 DEF SyncRollback, Holds, Fails

(* ------------------------- finalisation and the end ---------------------- *)

LEMMA SyncFinalizeKeeps == ASSUME IInv, SyncFinalize PROVE IInv'
<1>1. Live /\ TypeOK /\ pc = "sync finalize"
  BY Budgeted DEF IInv, SyncFinalize, At
<1>2. Existed' = Existed /\ Replaces' = Replaces
  BY <1>1 DEF SameKind, Existed, Replaces
<1>3. ASSUME Sync, tx' = [tx EXCEPT !.state = "finalized"], Return("ok")
      PROVE  IInv'
  <2>1. /\ tx'.state = "finalized" /\ tx'.stagedExists = tx.stagedExists /\ tx'.backupExists = tx.backupExists
        /\ tx'.backupHasTarget = tx.backupHasTarget /\ tx'.backupId = tx.backupId /\ tx'.clean = tx.clean
        /\ tx' \in Transaction
    BY <1>1, <1>3 DEF TypeOK, Transaction
  <2>2. Keeps
    BY <1>1, <1>2, <1>3, <2>1
    DEF Keeps, Owes, TypeOK, AnswersTrue, Holding, Name, IInv, Running, Names, Target, Flags,
        Place, Disk
  <2>3. QED
    BY <1>1, <1>2, <1>3, <2>1, <2>2, Settles DEF TypeOK, Step, Op, Status
<1>4. ASSUME Same, UNCHANGED tx, Return("io")
      PROVE  IInv'
  <2>1. Keeps
    BY <1>1, <1>2, <1>4
    DEF Keeps, Owes, TypeOK, AnswersTrue, Holding, Name, IInv, Running, Names, Target, Flags,
        Place, Disk
  <2>2. QED
    BY <1>1, <1>2, <1>4, <2>1, Settles DEF TypeOK, Step, Op, Status
<1>5. QED
  BY <1>3, <1>4 DEF SyncFinalize, Holds, Fails

LEMMA DiscardStageKeeps == ASSUME IInv, DiscardStage PROVE IInv'
<1>1. Live /\ TypeOK /\ pc = "discard stage"
  BY Budgeted DEF IInv, DiscardStage, At, Discard
<1>2. Existed' = Existed /\ Replaces' = Replaces
  BY <1>1 DEF SameKind, Existed, Replaces
<1>3. ASSUME Write([dir EXCEPT !["stage"] = "none"]), tx' = [tx EXCEPT !.stagedExists = FALSE],
             Then("discard backup")
      PROVE  IInv'
  <2>1. /\ dir'["target"] = dir["target"] /\ dir'["backup"] = dir["backup"] /\ dir'["stage"] = "none"
        /\ dir' \in Directory
    BY <1>1, <1>3 DEF TypeOK, Directory, Name, Inode
  <2>2. /\ tx'.state = tx.state /\ ~tx'.stagedExists /\ tx'.backupExists = tx.backupExists
        /\ tx'.backupHasTarget = tx.backupHasTarget /\ tx'.backupId = tx.backupId /\ tx'.clean = tx.clean
        /\ tx' \in Transaction
    BY <1>1, <1>3 DEF TypeOK, Transaction
  <2>3. Keeps
    BY ZenonT(30), <1>1, <1>2, <1>3, <2>1, <2>2
    DEF Keeps, Owes, TypeOK, AnswersTrue, Holding, Name, IInv, Running, Names, Target, Flags,
        Place, Disk
  <2>4. QED
    BY <1>1, <1>2, <1>3, <2>1, <2>2, <2>3, Settles DEF TypeOK, Step, Op, Status
<1>4. ASSUME Same, tx' = [tx EXCEPT !.clean = FALSE], Then("discard backup")
      PROVE  IInv'
  <2>1. /\ tx'.state = tx.state /\ tx'.stagedExists = tx.stagedExists /\ tx'.backupExists = tx.backupExists
        /\ tx'.backupHasTarget = tx.backupHasTarget /\ tx'.backupId = tx.backupId /\ ~tx'.clean
        /\ tx' \in Transaction
    BY <1>1, <1>4 DEF TypeOK, Transaction
  <2>2. Keeps
    BY <1>1, <1>2, <1>4, <2>1
    DEF Keeps, Owes, TypeOK, AnswersTrue, Holding, Name, IInv, Running, Names, Target, Flags,
        Place, Disk
  <2>3. QED
    BY <1>1, <1>2, <1>4, <2>1, <2>2, Settles DEF TypeOK, Step, Op, Status
<1>5. ASSUME ~tx.stagedExists, Same, UNCHANGED tx, Then("discard backup")
      PROVE  IInv'
  <2>1. Keeps
    BY <1>1, <1>2, <1>5
    DEF Keeps, Owes, TypeOK, AnswersTrue, Holding, Name, IInv, Running, Names, Target, Flags,
        Place, Disk
  <2>2. QED
    BY <1>1, <1>2, <1>5, <2>1, Settles DEF TypeOK, Step, Op, Status
<1>6. QED
  BY <1>3, <1>4, <1>5 DEF DiscardStage, Holds, Fails, Discard

LEMMA DiscardBackupKeeps == ASSUME IInv, DiscardBackup PROVE IInv'
<1>1. Live /\ TypeOK /\ pc = "discard backup"
  BY Budgeted DEF IInv, DiscardBackup, At, Discard
<1>2. Existed' = Existed /\ Replaces' = Replaces
  BY <1>1 DEF SameKind, Existed, Replaces
<1>3. ASSUME ~tx.backupHasTarget, Write([dir EXCEPT !["backup"] = "none"]),
             tx' = [tx EXCEPT !.backupExists = FALSE], Then("sync discard")
      PROVE  IInv'
  <2>1. /\ dir'["target"] = dir["target"] /\ dir'["backup"] = "none" /\ dir'["stage"] = dir["stage"]
        /\ dir' \in Directory
    BY <1>1, <1>3 DEF TypeOK, Directory, Name, Inode
  <2>2. /\ tx'.state = tx.state /\ tx'.stagedExists = tx.stagedExists /\ ~tx'.backupExists
        /\ tx'.backupHasTarget = tx.backupHasTarget /\ tx'.backupId = tx.backupId /\ tx'.clean = tx.clean
        /\ tx' \in Transaction
    BY <1>1, <1>3 DEF TypeOK, Transaction
  <2>3. Keeps
    BY ZenonT(30), <1>1, <1>2, <1>3, <2>1, <2>2
    DEF Keeps, Owes, TypeOK, AnswersTrue, Holding, Name, IInv, Running, Names, Target, Flags,
        Place, Disk
  <2>4. QED
    BY <1>1, <1>2, <1>3, <2>1, <2>2, <2>3, Settles DEF TypeOK, Step, Op, Status
<1>4. ASSUME Same, tx' = [tx EXCEPT !.clean = FALSE], Then("sync discard")
      PROVE  IInv'
  <2>1. /\ tx'.state = tx.state /\ tx'.stagedExists = tx.stagedExists /\ tx'.backupExists = tx.backupExists
        /\ tx'.backupHasTarget = tx.backupHasTarget /\ tx'.backupId = tx.backupId /\ ~tx'.clean
        /\ tx' \in Transaction
    BY <1>1, <1>4 DEF TypeOK, Transaction
  <2>2. Keeps
    BY <1>1, <1>2, <1>4, <2>1
    DEF Keeps, Owes, TypeOK, AnswersTrue, Holding, Name, IInv, Running, Names, Target, Flags,
        Place, Disk
  <2>3. QED
    BY <1>1, <1>2, <1>4, <2>1, <2>2, Settles DEF TypeOK, Step, Op, Status
<1>5. ASSUME ~(tx.backupExists /\ ~tx.backupHasTarget), Same, UNCHANGED tx, Then("sync discard")
      PROVE  IInv'
  <2>1. Keeps
    BY <1>1, <1>2, <1>5
    DEF Keeps, Owes, TypeOK, AnswersTrue, Holding, Name, IInv, Running, Names, Target, Flags,
        Place, Disk
  <2>2. QED
    BY <1>1, <1>2, <1>5, <2>1, Settles DEF TypeOK, Step, Op, Status
<1>6. QED
  BY <1>3, <1>4, <1>5 DEF DiscardBackup, Holds, Fails, Discard

LEMMA SyncDiscardKeeps == ASSUME IInv, SyncDiscard PROVE IInv'
<1>1. Live /\ TypeOK /\ pc = "sync discard"
  BY Budgeted DEF IInv, SyncDiscard, At
<1>2. Existed' = Existed /\ Replaces' = Replaces
  BY <1>1 DEF SameKind, Existed, Replaces
<1>3. ASSUME tx.clean \/ call.op = "prepare", Sync,
             tx' = [tx EXCEPT !.clean = TRUE, !.state = "gone"],
             Return(IF tx.clean /\ call.op = "close" THEN "ok" ELSE "io")
      PROVE  IInv'
  <2>1. /\ tx'.state = "gone" /\ tx'.stagedExists = tx.stagedExists /\ tx'.backupExists = tx.backupExists
        /\ tx'.backupHasTarget = tx.backupHasTarget /\ tx'.backupId = tx.backupId /\ tx'.clean
        /\ tx' \in Transaction
    BY <1>1, <1>3 DEF TypeOK, Transaction
  <2>2. Keeps
    BY <1>1, <1>2, <1>3, <2>1
    DEF Keeps, Owes, TypeOK, AnswersTrue, Holding, Name, IInv, Running, Names, Target, Flags,
        Place, Disk
  <2>3. QED
    BY <1>1, <1>2, <1>3, <2>1, <2>2, Settles DEF TypeOK, Step, Op, Status
<1>4. ASSUME ~tx.clean, call.op # "prepare", Sync,
             tx' = [tx EXCEPT !.clean = TRUE, !.state = tx.state], Return("io")
      PROVE  IInv'
  <2>1. /\ tx'.state = tx.state /\ tx'.stagedExists = tx.stagedExists /\ tx'.backupExists = tx.backupExists
        /\ tx'.backupHasTarget = tx.backupHasTarget /\ tx'.backupId = tx.backupId /\ tx'.clean
        /\ tx' \in Transaction
    BY <1>1, <1>4 DEF TypeOK, Transaction
  <2>2. Keeps
    BY <1>1, <1>2, <1>4, <2>1
    DEF Keeps, Owes, TypeOK, AnswersTrue, Holding, Name, IInv, Running, Names, Target, Flags,
        Place, Disk
  <2>3. QED
    BY <1>1, <1>2, <1>4, <2>1, <2>2, Settles DEF TypeOK, Step, Op, Status
<1>5. ASSUME call.op = "prepare", Same, tx' = [tx EXCEPT !.clean = TRUE, !.state = "gone"],
             Return("io")
      PROVE  IInv'
  <2>1. /\ tx'.state = "gone" /\ tx'.stagedExists = tx.stagedExists /\ tx'.backupExists = tx.backupExists
        /\ tx'.backupHasTarget = tx.backupHasTarget /\ tx'.backupId = tx.backupId /\ tx'.clean
        /\ tx' \in Transaction
    BY <1>1, <1>5 DEF TypeOK, Transaction
  <2>2. Keeps
    BY <1>1, <1>2, <1>5, <2>1
    DEF Keeps, Owes, TypeOK, AnswersTrue, Holding, Name, IInv, Running, Names, Target, Flags,
        Place, Disk
  <2>3. QED
    BY <1>1, <1>2, <1>5, <2>1, <2>2, Settles DEF TypeOK, Step, Op, Status
<1>6. ASSUME call.op # "prepare", Same, tx' = [tx EXCEPT !.clean = TRUE, !.state = tx.state],
             Return("io")
      PROVE  IInv'
  <2>1. /\ tx'.state = tx.state /\ tx'.stagedExists = tx.stagedExists /\ tx'.backupExists = tx.backupExists
        /\ tx'.backupHasTarget = tx.backupHasTarget /\ tx'.backupId = tx.backupId /\ tx'.clean
        /\ tx' \in Transaction
    BY <1>1, <1>6 DEF TypeOK, Transaction
  <2>2. Keeps
    BY <1>1, <1>2, <1>6, <2>1
    DEF Keeps, Owes, TypeOK, AnswersTrue, Holding, Name, IInv, Running, Names, Target, Flags,
        Place, Disk
  <2>3. QED
    BY <1>1, <1>2, <1>6, <2>1, <2>2, Settles DEF TypeOK, Step, Op, Status
<1>7. QED
  BY <1>3, <1>4, <1>5, <1>6 DEF SyncDiscard, Holds, Fails

(* ------------------------------ the calls -------------------------------- *)

LEMMA PrepareKeeps == ASSUME IInv, Prepare PROVE IInv'
<1>1. Live /\ TypeOK /\ pc = "idle"
  BY Budgeted DEF IInv, Prepare, At
<1>2. Existed' = Existed /\ Replaces' = Replaces
  BY <1>1 DEF SameKind, Existed, Replaces
<1>3. ASSUME tx.state = "none", Existed, Same, tx' = [tx EXCEPT !.state = "staged"],
             call' = [op |-> "prepare", restored |-> "io"], pc' = "reserve", UNCHANGED answer
      PROVE  IInv'
  <2>1. /\ tx'.state = "staged" /\ tx'.stagedExists = tx.stagedExists /\ tx'.backupExists = tx.backupExists
        /\ tx'.backupHasTarget = tx.backupHasTarget /\ tx'.backupId = tx.backupId /\ tx'.clean = tx.clean
        /\ tx' \in Transaction
    BY <1>1, <1>3 DEF TypeOK, Transaction
  <2>2. Keeps
    BY <1>1, <1>2, <1>3, <2>1
    DEF Keeps, Owes, TypeOK, AnswersTrue, Holding, Name, IInv, Running, Names, Target, Flags,
        Place, Disk
  <2>3. QED
    BY <1>1, <1>2, <1>3, <2>1, <2>2, Settles DEF TypeOK, Step, Op, Status
<1>4. ASSUME tx.state = "none", ~Existed, Replaces, Same, tx' = [tx EXCEPT !.state = "staged"],
             call' = [op |-> "prepare", restored |-> "io"], pc' = "stage", UNCHANGED answer
      PROVE  IInv'
  <2>1. /\ tx'.state = "staged" /\ tx'.stagedExists = tx.stagedExists /\ tx'.backupExists = tx.backupExists
        /\ tx'.backupHasTarget = tx.backupHasTarget /\ tx'.backupId = tx.backupId /\ tx'.clean = tx.clean
        /\ tx' \in Transaction
    BY <1>1, <1>4 DEF TypeOK, Transaction
  <2>2. Keeps
    BY <1>1, <1>2, <1>4, <2>1
    DEF Keeps, Owes, TypeOK, AnswersTrue, Holding, Name, IInv, Running, Names, Target, Flags,
        Place, Disk
  <2>3. QED
    BY <1>1, <1>2, <1>4, <2>1, <2>2, Settles DEF TypeOK, Step, Op, Status
<1>5. ASSUME tx.state = "none", ~Existed, ~Replaces, Same, tx' = [tx EXCEPT !.state = "staged"],
             call' = [op |-> "prepare", restored |-> "io"], pc' = "idle", answer' = "ok"
      PROVE  IInv'
  <2>1. /\ tx'.state = "staged" /\ tx'.stagedExists = tx.stagedExists /\ tx'.backupExists = tx.backupExists
        /\ tx'.backupHasTarget = tx.backupHasTarget /\ tx'.backupId = tx.backupId /\ tx'.clean = tx.clean
        /\ tx' \in Transaction
    BY <1>1, <1>5 DEF TypeOK, Transaction
  <2>2. Keeps
    BY <1>1, <1>2, <1>5, <2>1
    DEF Keeps, Owes, TypeOK, AnswersTrue, Holding, Name, IInv, Running, Names, Target, Flags,
        Place, Disk
  <2>3. QED
    BY <1>1, <1>2, <1>5, <2>1, <2>2, Settles DEF TypeOK, Step, Op, Status
<1>6. QED
  BY <1>3, <1>4, <1>5 DEF Prepare, Holds, Fails

LEMMA CommitKeeps == ASSUME IInv, Commit PROVE IInv'
<1>1. Live /\ TypeOK /\ pc = "idle"
  BY Budgeted DEF IInv, Commit, At, FirstStep, StillOriginal
<1>2. Existed' = Existed /\ Replaces' = Replaces
  BY <1>1 DEF SameKind, Existed, Replaces
<1>3. ASSUME tx.state = "staged", Replaces, Existed, tx.stagedExists, Same, UNCHANGED tx,
             call' = [op |-> "commit", restored |-> "io"], pc' = "unreserve", UNCHANGED answer
      PROVE  IInv'
  <2>1. Keeps
    BY <1>1, <1>2, <1>3
    DEF Keeps, Owes, TypeOK, AnswersTrue, Holding, Name, IInv, Running, Names, Target, Flags,
        Place, Disk
  <2>2. QED
    BY <1>1, <1>2, <1>3, <2>1, Settles DEF TypeOK, Step, Op, Status
<1>4. ASSUME tx.state = "staged", Replaces, ~Existed, tx.stagedExists, Same, UNCHANGED tx,
             call' = [op |-> "commit", restored |-> "io"], pc' = "publish", UNCHANGED answer
      PROVE  IInv'
  <2>1. Keeps
    BY <1>1, <1>2, <1>4
    DEF Keeps, Owes, TypeOK, AnswersTrue, Holding, Name, IInv, Running, Names, Target, Flags,
        Place, Disk
  <2>2. QED
    BY <1>1, <1>2, <1>4, <2>1, Settles DEF TypeOK, Step, Op, Status
<1>5. ASSUME tx.state = "staged", ~Replaces, Existed, Same, UNCHANGED tx,
             call' = [op |-> "commit", restored |-> "io"], pc' = "retire", UNCHANGED answer
      PROVE  IInv'
  <2>1. Keeps
    BY <1>1, <1>2, <1>5
    DEF Keeps, Owes, TypeOK, AnswersTrue, Holding, Name, IInv, Running, Names, Target, Flags,
        Place, Disk
  <2>2. QED
    BY <1>1, <1>2, <1>5, <2>1, Settles DEF TypeOK, Step, Op, Status
<1>6. ASSUME tx.state = "staged", ~Replaces, ~Existed, Same,
             tx' = [tx EXCEPT !.state = "committed"],
             call' = [op |-> "commit", restored |-> "io"], pc' = "sync commit", UNCHANGED answer
      PROVE  IInv'
  <2>1. /\ tx'.state = "committed" /\ tx'.stagedExists = tx.stagedExists /\ tx'.backupExists = tx.backupExists
        /\ tx'.backupHasTarget = tx.backupHasTarget /\ tx'.backupId = tx.backupId /\ tx'.clean = tx.clean
        /\ tx' \in Transaction
    BY <1>1, <1>6 DEF TypeOK, Transaction
  <2>2. Keeps
    BY <1>1, <1>2, <1>6, <2>1
    DEF Keeps, Owes, TypeOK, AnswersTrue, Holding, Name, IInv, Running, Names, Target, Flags,
        Place, Disk
  <2>3. QED
    BY <1>1, <1>2, <1>6, <2>1, <2>2, Settles DEF TypeOK, Step, Op, Status
<1>7. ASSUME tx.state = "staged", Same, UNCHANGED tx,
             call' = [op |-> "commit", restored |-> "io"], pc' = "idle", answer' = "io"
      PROVE  IInv'
  <2>1. Keeps
    BY <1>1, <1>2, <1>7
    DEF Keeps, Owes, TypeOK, AnswersTrue, Holding, Name, IInv, Running, Names, Target, Flags,
        Place, Disk
  <2>2. QED
    BY <1>1, <1>2, <1>7, <2>1, Settles DEF TypeOK, Step, Op, Status
<1>8. QED
  BY <1>3, <1>4, <1>5, <1>6, <1>7 DEF Commit, Holds, Fails, FirstStep, StillOriginal

LEMMA RollbackCallKeeps == ASSUME IInv, RollbackCall PROVE IInv'
<1>1. Live /\ TypeOK /\ pc = "idle"
  BY Budgeted DEF IInv, RollbackCall, At
<1>2. Existed' = Existed /\ Replaces' = Replaces
  BY <1>1 DEF SameKind, Existed, Replaces
<1>3. ASSUME tx.state \in {"committed", "recovery"}, Same, UNCHANGED tx,
             RollBack("rollback", "ok")
      PROVE  IInv'
  <2>1. Keeps
    BY <1>1, <1>2, <1>3
    DEF Keeps, Owes, TypeOK, AnswersTrue, Holding, Name, IInv, Running, Names, Target, Flags,
        Place, Disk
  <2>2. QED
    BY <1>1, <1>2, <1>3, <2>1, Settles DEF TypeOK, Step, Op, Status
<1>4. QED
  BY <1>3 DEF RollbackCall, Holds, Fails

LEMMA FinalizeKeeps == ASSUME IInv, Finalize PROVE IInv'
<1>1. Live /\ TypeOK /\ pc = "idle"
  BY Budgeted DEF IInv, Finalize, At
<1>2. Existed' = Existed /\ Replaces' = Replaces
  BY <1>1 DEF SameKind, Existed, Replaces
<1>3. ASSUME tx.state = "committed", tx.backupHasTarget,
             Write([dir EXCEPT !["backup"] = "none"]),
             tx' = [tx EXCEPT !.backupExists = FALSE, !.backupHasTarget = FALSE],
             call' = [op |-> "finalize", restored |-> "ok"], pc' = "sync finalize",
             UNCHANGED answer
      PROVE  IInv'
  <2>1. /\ dir'["target"] = dir["target"] /\ dir'["backup"] = "none" /\ dir'["stage"] = dir["stage"]
        /\ dir' \in Directory
    BY <1>1, <1>3 DEF TypeOK, Directory, Name, Inode
  <2>2. /\ tx'.state = tx.state /\ tx'.stagedExists = tx.stagedExists /\ ~tx'.backupExists
        /\ ~tx'.backupHasTarget /\ tx'.backupId = tx.backupId /\ tx'.clean = tx.clean
        /\ tx' \in Transaction
    BY <1>1, <1>3 DEF TypeOK, Transaction
  <2>3. Keeps
    BY <1>1, <1>2, <1>3, <2>1, <2>2
    DEF Keeps, Owes, TypeOK, AnswersTrue, Holding, Name, IInv, Running, Names, Target, Flags,
        Place, Disk
  <2>4. QED
    BY <1>1, <1>2, <1>3, <2>1, <2>2, <2>3, Settles DEF TypeOK, Step, Op, Status
<1>4. ASSUME tx.state = "committed", ~tx.backupHasTarget, Same, UNCHANGED tx,
             call' = [op |-> "finalize", restored |-> "ok"], pc' = "sync finalize",
             UNCHANGED answer
      PROVE  IInv'
  <2>1. Keeps
    BY <1>1, <1>2, <1>4
    DEF Keeps, Owes, TypeOK, AnswersTrue, Holding, Name, IInv, Running, Names, Target, Flags,
        Place, Disk
  <2>2. QED
    BY <1>1, <1>2, <1>4, <2>1, Settles DEF TypeOK, Step, Op, Status
<1>5. ASSUME tx.state = "committed", Same, UNCHANGED tx,
             call' = [op |-> "finalize", restored |-> "ok"], pc' = "idle", answer' = "io"
      PROVE  IInv'
  <2>1. Keeps
    BY <1>1, <1>2, <1>5
    DEF Keeps, Owes, TypeOK, AnswersTrue, Holding, Name, IInv, Running, Names, Target, Flags,
        Place, Disk
  <2>2. QED
    BY <1>1, <1>2, <1>5, <2>1, Settles DEF TypeOK, Step, Op, Status
<1>6. QED
  BY <1>3, <1>4, <1>5 DEF Finalize, Holds, Fails

LEMMA CloseKeeps == ASSUME IInv, Close PROVE IInv'
<1>1. Live /\ TypeOK /\ pc = "idle"
  BY Budgeted DEF IInv, Close, At
<1>2. Existed' = Existed /\ Replaces' = Replaces
  BY <1>1 DEF SameKind, Existed, Replaces
<1>3. ASSUME tx.state \in {"committed", "recovery"}, Same, UNCHANGED tx, RollBack("close", "ok")
      PROVE  IInv'
  <2>1. Keeps
    BY <1>1, <1>2, <1>3
    DEF Keeps, Owes, TypeOK, AnswersTrue, Holding, Name, IInv, Running, Names, Target, Flags,
        Place, Disk
  <2>2. QED
    BY <1>1, <1>2, <1>3, <2>1, Settles DEF TypeOK, Step, Op, Status
<1>4. ASSUME tx.state = "finalized", Same, tx' = [tx EXCEPT !.state = "gone"],
             call' = [op |-> "close", restored |-> "ok"], pc' = "idle", answer' = "ok"
      PROVE  IInv'
  <2>1. /\ tx'.state = "gone" /\ tx'.stagedExists = tx.stagedExists /\ tx'.backupExists = tx.backupExists
        /\ tx'.backupHasTarget = tx.backupHasTarget /\ tx'.backupId = tx.backupId /\ tx'.clean = tx.clean
        /\ tx' \in Transaction
    BY <1>1, <1>4 DEF TypeOK, Transaction
  <2>2. Keeps
    BY ZenonT(30), <1>1, <1>2, <1>4, <2>1
    DEF Keeps, Owes, TypeOK, AnswersTrue, Holding, Name, IInv, Running, Names, Target, Flags,
        Place, Disk
  <2>3. QED
    BY <1>1, <1>2, <1>4, <2>1, <2>2, Settles DEF TypeOK, Step, Op, Status
<1>5. ASSUME tx.state \in {"staged", "rolled back"}, Same, UNCHANGED tx,
             call' = [op |-> "close", restored |-> "ok"], pc' = "discard stage",
             UNCHANGED answer
      PROVE  IInv'
  <2>1. Keeps
    BY <1>1, <1>2, <1>5
    DEF Keeps, Owes, TypeOK, AnswersTrue, Holding, Name, IInv, Running, Names, Target, Flags,
        Place, Disk
  <2>2. QED
    BY <1>1, <1>2, <1>5, <2>1, Settles DEF TypeOK, Step, Op, Status
<1>6. QED
  BY <1>1, <1>3, <1>4, <1>5 DEF Close, TypeOK, Transaction

(* -------------------------- the rest of the world ------------------------ *)

LEMMA RivalKeeps == ASSUME IInv, Rival PROVE IInv'
<1>1. meddled' /\ UNCHANGED <<tx, pc, call, answer>> /\ pc # "dead"
  BY DEF Rival
<1>2. dir' \in Directory /\ disk' \subseteq Directory /\ dir' \in disk'
  <2>1. PICK i \in {"rival", "none"} : Write([dir EXCEPT !["target"] = i])
    BY DEF Rival
  <2>2. dir' \in Directory
    BY <2>1 DEF IInv, TypeOK, Directory, Name, Inode
  <2>3. QED
    BY <2>1, <2>2 DEF IInv, TypeOK
<1>3. SameKind
  BY Spent DEF IInv, Rival
<1>4. TypeOK'
  BY <1>1, <1>2, <1>3 DEF IInv, TypeOK, SameKind
<1>5. QED
  BY <1>1, <1>4 DEF IInv, TargetKept, AnswersTrue

\* The disk after a power failure is one of those before it.
LEMMA PowerFailsKeeps == ASSUME IInv, PowerFails PROVE IInv'
<1>1. pc' = "dead" /\ UNCHANGED <<tx, call, answer, meddled>>
  BY DEF PowerFails
<1>2. dir' \in disk /\ disk' = {dir'}
  BY DEF PowerFails
<1>3. SameKind
  BY Spent DEF IInv, PowerFails
<1>4. TypeOK'
  BY <1>1, <1>2, <1>3 DEF IInv, TypeOK, SameKind
<1>5. TargetKept'
  <2>1. Existed' = Existed /\ Replaces' = Replaces
    BY <1>3 DEF SameKind, Existed, Replaces
  <2>2. QED
    BY <1>1, <1>2, <2>1 DEF IInv, TargetKept, Holding
<1>6. QED
  BY <1>1, <1>4, <1>5 DEF IInv, AnswersTrue

----------------------------------------------------------------------------

LEMMA InitIInv == ASSUME Init PROVE IInv
<1>1. budget \in Allowed /\ budget.action \in {"replace", "remove"} /\ budget.existed \in BOOLEAN
  BY BudgetsAssumption DEF Init, Allowed
<1>2. dir["target"] = Before /\ dir["backup"] = "none" /\ dir["stage"] = "none"
      /\ dir \in Directory
  BY <1>1 DEF Init, Directory, Name, Inode, Existed
<1>3. TypeOK
  BY <1>1, <1>2 DEF Init, TypeOK, NoTransaction, Transaction, Op, Status
<1>4. TargetKept
  BY <1>2 DEF Init, TargetKept, NoTransaction, Holding, Name
<1>5. AnswersTrue
  BY DEF Init, AnswersTrue
<1>6. Running
  BY <1>2 DEF Init, NoTransaction, Running, Names, Target, Flags, Place, Disk
<1>7. QED
  BY <1>3, <1>4, <1>5, <1>6 DEF IInv

LEMMA NextKeeps == ASSUME IInv, [Next]_vars PROVE IInv'
<1>1. CASE UNCHANGED vars
  <2>1. TypeOK' /\ AnswersTrue'
    BY <1>1 DEF IInv, vars, TypeOK, AnswersTrue, Existed, Replaces, Holding
  <2>2. TargetKept'
    BY <1>1 DEF IInv, vars, TargetKept, Existed, Replaces, Holding
  <2>3. ~meddled /\ pc # "dead" => Running'
    BY <1>1 DEF IInv, vars, Existed, Replaces, Running, Names, Target, Flags, Place, Disk
  <2>4. QED
    BY <1>1, <2>1, <2>2, <2>3 DEF IInv, vars
<1>2. CASE Preparing
  BY <1>2, ReserveKeeps, SyncReserveKeeps, StageKeeps, SyncStageKeeps DEF Preparing
<1>3. CASE Committing
  BY <1>3, UnreserveKeeps, LinkKeeps, PairKeeps, SyncPairKeeps, SwapKeeps, UnlinkPairKeeps,
     RetireKeeps, PublishKeeps, LinkStageKeeps, CheckLinkKeeps, UnlinkStageKeeps,
     PublishedKeeps, SyncCommitKeeps, ValidateKeeps DEF Committing
<1>4. CASE RollingBack
  BY <1>4, ExamineKeeps, RestoreKeeps, WithdrawKeeps, CheckWithdrawnKeeps, SyncRollbackKeeps
  DEF RollingBack
<1>5. CASE Ending
  BY <1>5, SyncFinalizeKeeps, DiscardStageKeeps, DiscardBackupKeeps, SyncDiscardKeeps DEF Ending
<1>6. CASE Calls
  BY <1>6, PrepareKeeps, CommitKeeps, RollbackCallKeeps, FinalizeKeeps, CloseKeeps DEF Calls
<1>7. QED
  BY <1>1, <1>2, <1>3, <1>4, <1>5, <1>6, RivalKeeps, PowerFailsKeeps DEF Next, Work, Over

\* Whatever fails and whenever the power does: the old binary is kept until its backup is
\* given up, a replaced one is never missing, and what the calls of activation_transaction.c
\* answer is so on the disk.
THEOREM OutcomesAreTrue == Spec => []OutcomesTrue
<1>1. Init => IInv
  BY InitIInv
<1>2. IInv /\ [Next]_vars => IInv'
  BY NextKeeps
<1>3. IInv => OutcomesTrue
  BY DEF IInv, OutcomesTrue
<1>4. QED
  BY <1>1, <1>2, <1>3, PTL DEF Spec

----------------------------------------------------------------------------
(* RivalKept: only a target that was the rival's gives its file another    *)
(* name, and no step unlinks a name that may be bound to it.               *)

HIDE DEF Live

RivalSound ==
    pc # "dead" =>
        /\ dir["stage"] # "rival"
        /\ tx.state = "none" \/ pc \in {"reserve", "link"} => dir["backup"] # "rival"
        /\ pc \in {"unreserve", "link", "pair", "sync pair", "swap", "restore"} => Existed
        /\ pc = "idle" \/ tx.state # "none"

Spares ==
    Holding(dir, "rival") /\ budget'.rivals = budget.rivals /\ pc' # "dead" =>
        Holding(dir', "rival") \/ (Existed /\ pc \in {"swap", "restore"})

USE DEF RivalSound, Spares, Holding, At, Holds, Fails, Matches, Has, Bound, Directory, Name, Inode

LEMMA PreparingSpares == ASSUME TypeOK, RivalSound, Preparing PROVE Spares /\ RivalSound'
<1>1. /\ dir \in Directory /\ tx \in Transaction /\ tx.backupId \in {"reserve", "old"}
      /\ SameKind /\ pc # "dead"
  <2>1. pc # "dead" /\ SameKind
    BY Budgeted DEF Preparing, Reserve, SyncReserve, Stage, SyncStage
  <2>2. QED
    BY <2>1 DEF TypeOK, Transaction
<1>2. Existed' = Existed
  BY <1>1 DEF SameKind, Existed
<1>3. CASE Reserve
  BY <1>1, <1>2, <1>3 DEF Reserve, Transaction
<1>4. CASE SyncReserve
  BY <1>1, <1>2, <1>4 DEF SyncReserve, Transaction
<1>5. CASE Stage
  BY <1>1, <1>2, <1>5 DEF Stage, Transaction
<1>6. CASE SyncStage
  BY <1>1, <1>2, <1>6 DEF SyncStage, Transaction
<1>7. QED
  BY <1>3, <1>4, <1>5, <1>6 DEF Preparing

LEMMA CommittingSpares == ASSUME TypeOK, RivalSound, Committing PROVE Spares /\ RivalSound'
<1>1. /\ dir \in Directory /\ tx \in Transaction /\ tx.backupId \in {"reserve", "old"}
      /\ SameKind /\ pc # "dead"
  <2>1. pc # "dead" /\ SameKind
    BY Budgeted DEF Committing, Unreserve, Link, Pair, SyncPair, Swap, UnlinkPair, Retire, Publish,
       LinkStage, CheckLink, UnlinkStage, Published, SyncCommit, Validate
  <2>2. QED
    BY <2>1 DEF TypeOK, Transaction
<1>2. Existed' = Existed
  BY <1>1 DEF SameKind, Existed
<1>3. CASE Unreserve
  BY <1>1, <1>2, <1>3 DEF Unreserve, Transaction
<1>4. CASE Link
  BY <1>1, <1>2, <1>4 DEF Link, Transaction
<1>5. CASE Pair
  BY <1>1, <1>2, <1>5 DEF Pair, Transaction
<1>6. CASE SyncPair
  BY <1>1, <1>2, <1>6 DEF SyncPair, Transaction
<1>7. CASE Swap
  BY <1>1, <1>2, <1>7 DEF Swap, Transaction
<1>8. CASE UnlinkPair
  BY <1>1, <1>2, <1>8 DEF UnlinkPair, Transaction, Paired, Linked
<1>9. CASE Retire
  BY <1>1, <1>2, <1>9 DEF Retire, Transaction
<1>10. CASE Publish
  BY <1>1, <1>2, <1>10 DEF Publish, Transaction
<1>11. CASE LinkStage
  BY <1>1, <1>2, <1>11 DEF LinkStage, Transaction
<1>12. CASE CheckLink
  BY <1>1, <1>2, <1>12 DEF CheckLink, Transaction
<1>13. CASE UnlinkStage
  BY <1>1, <1>2, <1>13 DEF UnlinkStage, Transaction
<1>14. CASE Published
  BY <1>1, <1>2, <1>14 DEF Published, Transaction
<1>15. CASE SyncCommit
  BY <1>1, <1>2, <1>15 DEF SyncCommit, Transaction
<1>16. CASE Validate
  BY <1>1, <1>2, <1>16 DEF Validate, Transaction
<1>17. QED
  BY <1>3, <1>4, <1>5, <1>6, <1>7, <1>8, <1>9, <1>10, <1>11, <1>12, <1>13, <1>14, <1>15, <1>16 DEF Committing

LEMMA RollingBackSpares == ASSUME TypeOK, RivalSound, RollingBack PROVE Spares /\ RivalSound'
<1>1. /\ dir \in Directory /\ tx \in Transaction /\ tx.backupId \in {"reserve", "old"}
      /\ SameKind /\ pc # "dead"
  <2>1. pc # "dead" /\ SameKind
    BY Budgeted DEF RollingBack, Examine, Restore, Withdraw, CheckWithdrawn, SyncRollback
  <2>2. QED
    BY <2>1 DEF TypeOK, Transaction
<1>2. Existed' = Existed
  BY <1>1 DEF SameKind, Existed
<1>3. CASE Examine
  BY <1>1, <1>2, <1>3 DEF Examine, Transaction
<1>4. CASE Restore
  BY <1>1, <1>2, <1>4 DEF Restore, Transaction
<1>5. CASE Withdraw
  BY <1>1, <1>2, <1>5 DEF Withdraw, Transaction, Withdrawable, Linked
<1>6. CASE CheckWithdrawn
  BY <1>1, <1>2, <1>6 DEF CheckWithdrawn, Transaction
<1>7. CASE SyncRollback
  BY <1>1, <1>2, <1>7 DEF SyncRollback, Transaction
<1>8. QED
  BY <1>3, <1>4, <1>5, <1>6, <1>7 DEF RollingBack

LEMMA EndingSpares == ASSUME TypeOK, RivalSound, Ending PROVE Spares /\ RivalSound'
<1>1. /\ dir \in Directory /\ tx \in Transaction /\ tx.backupId \in {"reserve", "old"}
      /\ SameKind /\ pc # "dead"
  <2>1. pc # "dead" /\ SameKind
    BY Budgeted DEF Ending, SyncFinalize, DiscardStage, DiscardBackup, SyncDiscard, Discard
  <2>2. QED
    BY <2>1 DEF TypeOK, Transaction
<1>2. Existed' = Existed
  BY <1>1 DEF SameKind, Existed
<1>3. CASE SyncFinalize
  BY <1>1, <1>2, <1>3 DEF SyncFinalize, Transaction
<1>4. CASE DiscardStage
  BY <1>1, <1>2, <1>4 DEF DiscardStage, Transaction, Discard
<1>5. CASE DiscardBackup
  BY <1>1, <1>2, <1>5 DEF DiscardBackup, Transaction, Discard
<1>6. CASE SyncDiscard
  BY <1>1, <1>2, <1>6 DEF SyncDiscard, Transaction
<1>7. QED
  BY <1>3, <1>4, <1>5, <1>6 DEF Ending

LEMMA CallsSpares == ASSUME TypeOK, RivalSound, Calls PROVE Spares /\ RivalSound'
<1>1. /\ dir \in Directory /\ tx \in Transaction /\ tx.backupId \in {"reserve", "old"}
      /\ SameKind /\ pc # "dead"
  <2>1. pc # "dead" /\ SameKind
    BY Budgeted DEF Calls, Prepare, Commit, RollbackCall, Finalize, Close
  <2>2. QED
    BY <2>1 DEF TypeOK, Transaction
<1>2. Existed' = Existed
  BY <1>1 DEF SameKind, Existed
<1>3. CASE Prepare
  BY <1>1, <1>2, <1>3 DEF Prepare, Transaction
<1>4. CASE Commit
  BY <1>1, <1>2, <1>4 DEF Commit, Transaction, FirstStep
<1>5. CASE RollbackCall
  BY <1>1, <1>2, <1>5 DEF RollbackCall, Transaction
<1>6. CASE Finalize
  BY <1>1, <1>2, <1>6 DEF Finalize, Transaction
<1>7. CASE Close
  BY <1>1, <1>2, <1>7 DEF Close, Transaction
<1>8. QED
  BY <1>3, <1>4, <1>5, <1>6, <1>7 DEF Calls

LEMMA NextSpares == ASSUME TypeOK, RivalSound, [Next]_vars PROVE [Spares]_vars /\ RivalSound'
<1>1. CASE UNCHANGED vars
  BY <1>1 DEF vars, Existed
<1>2. CASE Rival
  <2>1. SameKind
    BY <1>2, Spent DEF Rival
  <2>2. Existed' = Existed
    BY <2>1 DEF SameKind, Existed
  <2>3. Spares
    <3>1. budget.rivals \in Nat /\ budget'.rivals = budget.rivals - 1
      BY <1>2 DEF Rival, TypeOK, Allowed
    <3>2. QED
      BY ONLY <3>1 DEF Spares
  <2>4. RivalSound'
    BY <1>2, <2>2 DEF Rival, TypeOK
  <2>5. QED
    BY <2>3, <2>4
<1>3. CASE PowerFails
  BY <1>3 DEF PowerFails
<1>4. QED
  BY <1>1, <1>2, <1>3, PreparingSpares, CommittingSpares, RollingBackSpares, EndingSpares,
     CallsSpares DEF Next, Work, Over

HIDE DEF RivalSound, Spares

\* A file that another program put at the target loses its last name only to the rename of
\* activation_commit or of the rollback over a target that was there, which the kernel does not
\* make conditional on the examination before it.
THEOREM RivalsAreKept == Spec => RivalKept
<1>1. Init => RivalSound
  BY DEF Init, RivalSound, NoTransaction
<1>2. OutcomesTrue => TypeOK
  BY DEF OutcomesTrue
<1>3. TypeOK /\ RivalSound /\ [Next]_vars => RivalSound' /\ [Spares]_vars
  BY NextSpares
<1>4. [Spares]_vars <=>
         [Holding(dir, "rival") /\ budget'.rivals = budget.rivals /\ pc' # "dead" =>
             Holding(dir', "rival") \/ (Existed /\ pc \in {"swap", "restore"})]_vars
  BY DEF Spares
<1>5. QED
  BY <1>1, <1>2, <1>3, <1>4, OutcomesAreTrue, PTL DEF Spec, RivalKept

----------------------------------------------------------------------------
(* WedgedForGood: a wedged transaction is in no call that could still       *)
(* change the directory, and an examination that failed fails again.       *)


\* The old inode is restored only after its backup has been seen to be its only name.
RestoresSole == ~meddled /\ pc = "restore" => ~Paired

LEMMA NextRestoresSole ==
    ASSUME TypeOK, RestoresSole, [Next]_vars PROVE RestoresSole'
<1>1. CASE UNCHANGED vars
  BY <1>1 DEF RestoresSole, vars, Paired, Linked, Links
<1>2. CASE Examine
  <2>1. ASSUME pc' = "restore" PROVE Restorable /\ dir' = dir
    BY <1>2, <2>1 DEF Examine, Holds
  <2>2. Restorable /\ dir' = dir => ~Paired'
    BY DEF Restorable, Has, Matches, Legible, Bound, Paired, Linked, Links
  <2>3. QED
    BY <2>1, <2>2 DEF RestoresSole
<1>3. CASE Rival \/ PowerFails
  BY <1>3 DEF RestoresSole, Rival, PowerFails
<1>4. ASSUME ~UNCHANGED vars, ~Examine, ~Rival, ~PowerFails PROVE pc' # "restore"
  <2>1. CASE Preparing
    <3>1. CASE Reserve BY <3>1 DEF Reserve
    <3>2. CASE SyncReserve BY <3>2 DEF SyncReserve
    <3>3. CASE Stage BY <3>3 DEF Stage
    <3>4. CASE SyncStage BY <3>4 DEF SyncStage
    <3>5. QED
      BY <2>1, <3>1, <3>2, <3>3, <3>4 DEF Preparing
  <2>2. CASE Committing
    <3>1. CASE Unreserve BY <3>1 DEF Unreserve
    <3>2. CASE Link BY <3>2 DEF Link
    <3>3. CASE Pair BY <3>3 DEF Pair
    <3>4. CASE SyncPair BY <3>4 DEF SyncPair
    <3>5. CASE Swap BY <3>5 DEF Swap
    <3>6. CASE UnlinkPair BY <3>6 DEF UnlinkPair
    <3>7. CASE Retire BY <3>7 DEF Retire
    <3>8. CASE Publish BY <3>8 DEF Publish
    <3>9. CASE LinkStage BY <3>9 DEF LinkStage
    <3>10. CASE CheckLink BY <3>10 DEF CheckLink
    <3>11. CASE UnlinkStage BY <3>11 DEF UnlinkStage
    <3>12. CASE Published BY <3>12 DEF Published
    <3>13. CASE SyncCommit BY <3>13 DEF SyncCommit
    <3>14. CASE Validate BY <3>14 DEF Validate
    <3>15. QED
      BY <2>2, <3>1, <3>2, <3>3, <3>4, <3>5, <3>6, <3>7, <3>8, <3>9, <3>10, <3>11, <3>12,
         <3>13, <3>14 DEF Committing
  <2>3. CASE RollingBack
    <3>1. CASE Restore BY <3>1 DEF Restore
    <3>2. CASE Withdraw BY <3>2 DEF Withdraw
    <3>3. CASE CheckWithdrawn BY <3>3 DEF CheckWithdrawn
    <3>4. CASE SyncRollback BY <3>4 DEF SyncRollback
    <3>5. QED
      BY <1>4, <2>3, <3>1, <3>2, <3>3, <3>4 DEF RollingBack
  <2>4. CASE Ending
    <3>1. CASE SyncFinalize BY <3>1 DEF SyncFinalize
    <3>2. CASE DiscardStage BY <3>2 DEF DiscardStage, Discard
    <3>3. CASE DiscardBackup BY <3>3 DEF DiscardBackup, Discard
    <3>4. CASE SyncDiscard BY <3>4 DEF SyncDiscard
    <3>5. QED
      BY <2>4, <3>1, <3>2, <3>3, <3>4 DEF Ending
  <2>5. CASE Calls
    <3>1. CASE Prepare BY <3>1 DEF Prepare
    <3>2. CASE Commit BY <3>2 DEF Commit, FirstStep
    <3>3. CASE RollbackCall BY <3>3 DEF RollbackCall
    <3>4. CASE Finalize BY <3>4 DEF Finalize
    <3>5. CASE Close BY <3>5 DEF Close
    <3>6. QED
      BY <2>5, <3>1, <3>2, <3>3, <3>4, <3>5 DEF Calls
  <2>6. QED
    BY <1>4, <2>1, <2>2, <2>3, <2>4, <2>5 DEF Next, Work, Over
<1>5. QED
  BY <1>1, <1>2, <1>3, <1>4 DEF RestoresSole

\* The steps that a transaction in recovery takes where there was a target.
Retrying == pc \in {"idle", "examine"}

LEMMA RetriesOnly ==
    ASSUME Retrying, tx.state = "recovery", Next, ~meddled, ~meddled', pc' # "dead"
    PROVE  Examine \/ RollbackCall \/ Close
<1>1. ~Preparing
  <2>1. ~Reserve BY DEF Retrying, Reserve
  <2>2. ~SyncReserve BY DEF Retrying, SyncReserve
  <2>3. ~Stage BY DEF Retrying, Stage
  <2>4. ~SyncStage BY DEF Retrying, SyncStage
  <2>5. QED
    BY <2>1, <2>2, <2>3, <2>4 DEF Preparing
<1>2. ~Committing
  <2>1. ~Unreserve BY DEF Retrying, Unreserve
  <2>2. ~Link BY DEF Retrying, Link
  <2>3. ~Pair BY DEF Retrying, Pair
  <2>4. ~SyncPair BY DEF Retrying, SyncPair
  <2>5. ~Swap BY DEF Retrying, Swap
  <2>6. ~UnlinkPair BY DEF Retrying, UnlinkPair
  <2>7. ~Retire BY DEF Retrying, Retire
  <2>8. ~Publish BY DEF Retrying, Publish
  <2>9. ~LinkStage BY DEF Retrying, LinkStage
  <2>10. ~CheckLink BY DEF Retrying, CheckLink
  <2>11. ~UnlinkStage BY DEF Retrying, UnlinkStage
  <2>12. ~Published BY DEF Retrying, Published
  <2>13. ~SyncCommit BY DEF Retrying, SyncCommit
  <2>14. ~Validate BY DEF Retrying, Validate
  <2>15. QED
    BY <2>1, <2>2, <2>3, <2>4, <2>5, <2>6, <2>7, <2>8, <2>9, <2>10, <2>11, <2>12, <2>13, <2>14
       DEF Committing
<1>3. ~Restore /\ ~Withdraw /\ ~CheckWithdrawn /\ ~SyncRollback
  <2>1. ~Restore BY DEF Retrying, Restore
  <2>2. ~Withdraw BY DEF Retrying, Withdraw
  <2>3. ~CheckWithdrawn BY DEF Retrying, CheckWithdrawn
  <2>4. ~SyncRollback BY DEF Retrying, SyncRollback
  <2>5. QED
    BY <2>1, <2>2, <2>3, <2>4
<1>4. ~Ending
  <2>1. ~SyncFinalize BY DEF Retrying, SyncFinalize
  <2>2. ~DiscardStage BY DEF Retrying, DiscardStage
  <2>3. ~DiscardBackup BY DEF Retrying, DiscardBackup
  <2>4. ~SyncDiscard BY DEF Retrying, SyncDiscard
  <2>5. QED
    BY <2>1, <2>2, <2>3, <2>4 DEF Ending
<1>5. ~Prepare /\ ~Commit /\ ~Finalize
  <2>1. ~Prepare BY DEF Prepare
  <2>2. ~Commit BY DEF Commit
  <2>3. ~Finalize BY DEF Finalize
  <2>4. QED
    BY <2>1, <2>2, <2>3
<1>6. ~Rival /\ ~PowerFails
  BY DEF Rival, PowerFails
<1>7. ~Over
  BY DEF Over, Retrying
<1>8. QED
  BY <1>1, <1>2, <1>3, <1>4, <1>5, <1>6, <1>7 DEF Next, Work, RollingBack, Calls

LEMMA Retries ==
    ASSUME TypeOK, Place, RestoresSole, pc # "dead", ~meddled, tx.state = "recovery", Existed,
           Paired \/ ~tx.backupHasTarget
    PROVE  Retrying
<1>1. pc \notin {"reserve", "sync reserve", "stage", "sync stage"}
  BY DEF Place
<1>2. pc \notin Replacing \cup Creating \cup {"retire"}
  BY DEF Place
<1>3. pc \notin Committed
  BY DEF Place
<1>4. pc # "restore"
  BY DEF Place, RestoresSole
<1>5. pc \notin {"withdraw", "check withdrawn", "sync rollback", "sync finalize"}
  BY DEF Place
<1>6. pc \notin Discarding
  BY DEF Place
<1>7. pc \in Step \cup {"idle"}
  BY DEF TypeOK
<1>8. QED
  BY <1>1, <1>2, <1>3, <1>4, <1>5, <1>6, <1>7 DEF Step, Retrying

LEMMA Awake ==
    ASSUME Next, ~UNCHANGED vars, ~meddled', pc' # "dead"
    PROVE  pc # "dead" /\ ~meddled
<1>1. Preparing => pc # "dead" /\ meddled' = meddled
  BY DEF Preparing, Reserve, SyncReserve, Stage, SyncStage
<1>2. Committing => pc # "dead" /\ meddled' = meddled
  <2>1. Unreserve \/ Link \/ Pair \/ SyncPair => pc # "dead" /\ meddled' = meddled
    BY DEF Unreserve, Link, Pair, SyncPair
  <2>2. Swap \/ UnlinkPair \/ Retire => pc # "dead" /\ meddled' = meddled
    BY DEF Swap, UnlinkPair, Retire
  <2>3. Publish \/ LinkStage \/ CheckLink \/ UnlinkStage => pc # "dead" /\ meddled' = meddled
    BY DEF Publish, LinkStage, CheckLink, UnlinkStage
  <2>4. Published \/ SyncCommit \/ Validate => pc # "dead" /\ meddled' = meddled
    BY DEF Published, SyncCommit, Validate
  <2>5. QED
    BY <2>1, <2>2, <2>3, <2>4 DEF Committing
<1>3. RollingBack => pc # "dead" /\ meddled' = meddled
  BY DEF RollingBack, Examine, Restore, Withdraw, CheckWithdrawn, SyncRollback
<1>4. Ending => pc # "dead" /\ meddled' = meddled
  BY DEF Ending, SyncFinalize, DiscardStage, DiscardBackup, SyncDiscard
<1>5. Calls => pc # "dead" /\ meddled' = meddled
  BY DEF Calls, Prepare, Commit, RollbackCall, Finalize, Close
<1>6. ~Rival /\ ~PowerFails /\ ~Over
  BY DEF Rival, PowerFails, Over
<1>7. QED
  BY <1>1, <1>2, <1>3, <1>4, <1>5, <1>6 DEF Next, Work

\* Nothing of a wedged transaction changes but the call it is in.
LEMMA WedgedStays ==
    ASSUME IInv, RestoresSole, [Next]_vars, Wedged, ~meddled', pc' # "dead"
    PROVE  Wedged'
<1>1. CASE UNCHANGED vars
  BY <1>1 DEF vars, Wedged, Paired, Linked, Links, Existed
<1>2. CASE Next /\ ~UNCHANGED vars
  <2>1. pc # "dead" /\ ~meddled
    BY <1>2, Awake
  <2>2. TypeOK /\ Place
    BY <2>1 DEF IInv, Running
  <2>3. tx.state = "recovery" /\ Existed /\ (Paired \/ ~tx.backupHasTarget)
    BY DEF Wedged
  <2>4. Retrying
    BY <2>1, <2>2, <2>3, Retries
  <2>5. ~Restorable
    BY <2>3 DEF Restorable, Legible, Paired, Linked
  <2>6. Examine \/ RollbackCall \/ Close
    BY <1>2, <2>1, <2>3, <2>4, RetriesOnly
  <2>7. /\ dir' = dir /\ budget' = budget
        /\ tx' = tx \/ tx' = [tx EXCEPT !.state = "recovery"]
    <3>1. CASE Examine BY <2>3, <2>5, <3>1 DEF Examine
    <3>2. CASE RollbackCall BY <3>2 DEF RollbackCall
    <3>3. CASE Close BY <2>3, <3>3 DEF Close
    <3>4. QED
      BY <2>6, <3>1, <3>2, <3>3
  <2>8. tx'.state = "recovery" /\ tx'.backupHasTarget = tx.backupHasTarget
    BY <2>2, <2>3, <2>7 DEF TypeOK, Transaction
  <2>9. Existed' = Existed /\ Paired' = Paired
    BY <2>7 DEF Existed, Paired, Linked, Links
  <2>10. QED
    BY <2>3, <2>8, <2>9 DEF Wedged
<1>3. QED
  BY <1>1, <1>2

\* A transaction that is wedged stays wedged, however often cbm_activation_rollback and
\* cbm_activation_close are called, unless somebody else touches the target.
THEOREM NoWayOut == Spec => WedgedForGood
<1>1. Init => IInv /\ RestoresSole
  BY InitIInv DEF Init, RestoresSole
<1>2. IInv /\ [Next]_vars => IInv'
  BY NextKeeps
<1>3. IInv => TypeOK
  BY DEF IInv
<1>4. TypeOK /\ RestoresSole /\ [Next]_vars => RestoresSole'
  BY NextRestoresSole
<1>5. IInv /\ RestoresSole /\ [Next]_vars =>
         [Wedged /\ ~meddled' /\ pc' # "dead" => Wedged']_vars
  BY WedgedStays
<1> HIDE DEF IInv, TypeOK, RestoresSole, Wedged
<1>6. QED
  BY <1>1, <1>2, <1>3, <1>4, <1>5, PTL DEF Spec, WedgedForGood
=============================================================================
