------------------------ MODULE VersionCohortProofs ------------------------
(***************************************************************************)
(* The cohort's safety for every number of processes and callers, every    *)
(* set of builds, and every bound on calls, failures and crashes.          *)
(*                                                                         *)
(* The argument: the phase of a caller says which of the four files it has *)
(* locked (LeaseShape), the kernel never grants conflicting locks          *)
(* (NativeCompatible), and the record is written only under lifetime EX    *)
(* and admission EX, so that it stands still while a cohort lives          *)
(* (RecordStands).                                                         *)
(***************************************************************************)
EXTENDS VersionCohort, FiniteSetTheorems, TLAPS

CohortType ==
    /\ at \in [Caller -> Phase]
    /\ locks \in [Caller -> [File -> Handle]]
    /\ who \in [Caller -> Build \cup {None}]
    /\ record \in Build \cup {None, Torn}

\* Phases of an admission that holds maintenance SH.
Opening ==
    {"admission", "lifetime", "join", "read", "leave", "reclaim", "write", "written", "narrow",
     "share", "openAdmission", "openMaintenance"}

LeaseShape(c) ==
    /\ at[c] \in {"idle", "maintenance", "intent", "probe", "peek"}
          => \A f \in File : locks[c][f] = "NL"
    /\ at[c] \in Opening \cup Admitted \cup {"maintenance"} => who[c] \in Build
    /\ at[c] \in {"intent", "probe", "peek", "closing"} \cup Closing => who[c] = None
    /\ at[c] \in Opening => locks[c]["maintenance"] = "SH"
    /\ at[c] \in Closing \cup {"closing"} => locks[c]["maintenance"] = "EX"
    /\ at[c] \in {"admission", "closing", "openMaintenance", "member", "claiming", "daemon"}
          => locks[c]["admission"] = "NL"
    /\ at[c] \in Closing \cup (Opening \ {"admission", "openMaintenance"})
          => locks[c]["admission"] = "EX"
    /\ at[c] \in {"write", "written", "narrow", "mutating"} => locks[c]["lifetime"] = "EX"
    /\ at[c] \in {"read", "leave"} \cup Admitted => locks[c]["lifetime"] = "SH"
    /\ at[c] \in {"admission", "lifetime", "join", "reclaim", "share", "closing", "barrier",
                  "quiesce", "drain"} => locks[c]["lifetime"] = "NL"
    /\ at[c] \notin {"daemon", "unwind"} => locks[c]["daemon"] = "NL"
    /\ locks[c]["daemon"] # "NL" /\ who[c] # None => locks[c]["lifetime"] = "SH"
    /\ locks[c]["lifetime"] = "EX" => locks[c]["admission"] = "EX"
    /\ locks[c]["admission"] # "NL" => locks[c]["maintenance"] \in {"SH", "EX"}

\* The kernel's promise about any two callers.
NativeCompatible ==
    \A c, d \in Caller : c # d =>
        \A f \in File : locks[c][f] = "EX" => locks[d][f] \notin {"SH", "EX"}

RecordStands(c) ==
    /\ locks[c]["lifetime"] = "SH" \/ at[c] = "join" => record \in Build
    /\ at[c] \in {"narrow", "share"} \cup Admitted => record = who[c]

IInv ==
    /\ CohortType
    /\ \A c \in Caller : LeaseShape(c)
    /\ NativeCompatible
    /\ \A c \in Caller : RecordStands(c)

-----------------------------------------------------------------------------

PhaseNames ==
    {"idle", "maintenance", "admission", "lifetime", "join", "read", "leave", "reclaim", "write",
     "written", "narrow", "share", "openAdmission", "openMaintenance", "member", "claiming",
     "daemon", "intent", "closing", "barrier", "quiesce", "drain", "mutating", "probe", "peek",
     "unwind"}

LEMMA Phases == Phase = PhaseNames
BY DEF Phase, PhaseNames, Wanted, Tried, Awaited, Passed, Want

LEMMA InitInv == Init => IInv
BY Phases DEF Init, IInv, CohortType, LeaseShape, NativeCompatible, RecordStands, PhaseNames, File,
   Handle, Opening, Admitted, Closing

\* The rows of the tables, one by one.
LEMMA WantedRow ==
    ASSUME NEW w \in Wanted
    PROVE  \/ w.phase = "maintenance" /\ w.file = "maintenance" /\ w.mode = "SH" /\ w.next = "admission"
           \/ w.phase = "admission" /\ w.file = "admission" /\ w.mode = "EX" /\ w.next = "lifetime"
           \/ w.phase \in {"lifetime", "reclaim"} /\ w.file = "lifetime" /\ w.mode = "EX" /\ w.next = "write"
           \/ w.phase = "join" /\ w.file = "lifetime" /\ w.mode = "SH" /\ w.next = "read"
           \/ w.phase = "share" /\ w.file = "lifetime" /\ w.mode = "SH" /\ w.next = "openAdmission"
           \/ w.phase = "intent" /\ w.file = "maintenance" /\ w.mode = "EX" /\ w.next = "closing"
           \/ w.phase = "closing" /\ w.file = "admission" /\ w.mode = "EX" /\ w.next = "barrier"
           \/ w.phase \in {"barrier", "drain"} /\ w.file = "lifetime" /\ w.mode = "EX" /\ w.next = "mutating"
           \/ w.phase = "probe" /\ w.file = "maintenance" /\ w.mode = "SH" /\ w.next = "unwind"
           \/ w.phase = "peek" /\ w.file = "daemon" /\ w.mode = "EX" /\ w.next = "unwind"
           \/ w.phase = "claiming" /\ w.file = "daemon" /\ w.mode = "EX" /\ w.next = "daemon"
BY DEF Wanted, Tried, Awaited, Want

LEMMA PassedRow ==
    ASSUME NEW w \in Passed
    PROVE  \/ w.phase = "narrow" /\ w.file = "lifetime" /\ w.mode = "EX" /\ w.next = "share"
           \/ w.phase = "leave" /\ w.file = "lifetime" /\ w.mode = "SH" /\ w.next = "reclaim"
           \/ w.phase = "openAdmission" /\ w.file = "admission" /\ w.mode = "EX" /\ w.next = "openMaintenance"
           \/ w.phase = "openMaintenance" /\ w.file = "maintenance" /\ w.mode = "SH" /\ w.next = "member"
BY DEF Passed, Want

-----------------------------------------------------------------------------
(* The steps of one caller.                                                  *)

\* A step of c that leaves the others and the record alone keeps the invariant
\* when it keeps what is said of c itself.
LEMMA OwnStep ==
    ASSUME IInv, NEW c \in Caller, CohortType',
           \A d \in Caller \ {c} :
              at'[d] = at[d] /\ locks'[d] = locks[d] /\ who'[d] = who[d],
           LeaseShape(c)',
           \A d \in Caller \ {c}, f \in File :
              /\ locks'[c][f] = "EX" => locks[d][f] \notin {"SH", "EX"}
              /\ locks'[c][f] \in {"SH", "EX"} => locks[d][f] # "EX",
           RecordStands(c)',
           record' = record
    PROVE  IInv'
<1>1. \A d \in Caller : LeaseShape(d)'
  BY DEF IInv, LeaseShape
<1>2. NativeCompatible'
  BY DEF IInv, NativeCompatible
<1>3. \A d \in Caller : RecordStands(d)'
  BY DEF IInv, RecordStands
<1> QED BY <1>1, <1>2, <1>3 DEF IInv

\* So does a step that also leaves the handles of c alone.
LEMMA PhaseStep ==
    ASSUME IInv, NEW c \in Caller, NEW q \in PhaseNames,
           at' = [at EXCEPT ![c] = q], UNCHANGED <<locks, record>>,
           who' \in [Caller -> Build \cup {None}],
           \A d \in Caller \ {c} : who'[d] = who[d],
           LeaseShape(c)', RecordStands(c)'
    PROVE  IInv'
<1>1. CohortType'
  BY Phases DEF IInv, CohortType
<1>2. \A d \in Caller \ {c} :
         at'[d] = at[d] /\ locks'[d] = locks[d] /\ who'[d] = who[d]
  BY DEF IInv, CohortType
<1>3. \A d \in Caller \ {c}, f \in File :
         /\ locks'[c][f] = "EX" => locks[d][f] \notin {"SH", "EX"}
         /\ locks'[c][f] \in {"SH", "EX"} => locks[d][f] # "EX"
  BY DEF IInv, NativeCompatible
<1> QED BY <1>1, <1>2, <1>3, OwnStep

\* A lease about to be taken apart needs only its nesting.
LEMMA UnwindingStep ==
    ASSUME IInv, NEW c \in Caller, NEW status,
           Unwinding(c, status), UNCHANGED <<locks, who, record>>
    PROVE  IInv'
<1>1. at' = [at EXCEPT ![c] = "unwind"] /\ at'[c] = "unwind"
  BY DEF IInv, CohortType, Unwinding, Goto
<1>2. LeaseShape(c)'
  BY <1>1 DEF IInv, LeaseShape, Opening, Admitted, Closing
<1>3. RecordStands(c)'
  BY <1>1 DEF IInv, RecordStands, Admitted
<1> QED BY <1>1, <1>2, <1>3, PhaseStep DEF PhaseNames, IInv, CohortType

\* A step that changes one handle of c, and its phase.
LEMMA HandleStep ==
    ASSUME IInv, NEW c \in Caller, NEW q \in PhaseNames, NEW f \in File, NEW h \in Handle,
           at' = [at EXCEPT ![c] = q], SetHandle(c, f, h), UNCHANGED <<who, record>>,
           h \in {"SH", "EX"} => h = locks[c][f] \/ Grantable(c, f, h),
           LeaseShape(c)', RecordStands(c)'
    PROVE  IInv'
<1>1. CohortType'
  BY Phases DEF IInv, CohortType, SetHandle
<1>2. \A d \in Caller \ {c} :
         at'[d] = at[d] /\ locks'[d] = locks[d] /\ who'[d] = who[d]
  BY DEF IInv, CohortType, SetHandle
<1>3. locks'[c][f] = h /\ \A g \in File \ {f} : locks'[c][g] = locks[c][g]
  BY DEF IInv, CohortType, SetHandle
<1>4. ASSUME NEW d \in Caller \ {c}, NEW g \in File
      PROVE  /\ locks'[c][g] = "EX" => locks[d][g] \notin {"SH", "EX"}
             /\ locks'[c][g] \in {"SH", "EX"} => locks[d][g] # "EX"
  <2>1. CASE g = f /\ Grantable(c, f, h)
    BY <1>3, <2>1 DEF Grantable
  <2>2. CASE locks'[c][g] = locks[c][g]
    BY <2>2 DEF IInv, NativeCompatible
  <2>3. CASE g = f /\ h \notin {"SH", "EX"}
    BY <1>3, <2>3
  <2> QED BY <1>3, <2>1, <2>2, <2>3
<1> QED BY <1>1, <1>2, <1>4, OwnStep

-----------------------------------------------------------------------------
(* The actions, one by one. *)

LEMMA BeginInv ==
    ASSUME IInv, NEW c \in Caller, NEW b \in Build \cup {None},
           NEW q \in {"maintenance", "intent", "probe", "peek"},
           Begin(c, q, b), (q = "maintenance" => b \in Build), (q # "maintenance" => b = None)
    PROVE  IInv'
<1>1. at[c] = "idle" /\ at' = [at EXCEPT ![c] = q] /\ at'[c] = q /\ who'[c] = b
  BY DEF IInv, CohortType, Begin, Goto
<1>2. /\ who' \in [Caller -> Build \cup {None}]
      /\ \A d \in Caller \ {c} : who'[d] = who[d]
      /\ UNCHANGED <<locks, record>>
  BY DEF IInv, CohortType, Begin
<1>3. \A f \in File : locks'[c][f] = "NL"
  BY <1>1, <1>2 DEF IInv, LeaseShape
<1>4. LeaseShape(c)'
  BY <1>1, <1>3, BuildAssumption DEF LeaseShape, Opening, Admitted, Closing, File
<1>5. RecordStands(c)'
  BY <1>1, <1>3 DEF RecordStands, Admitted, File
<1> QED BY <1>1, <1>2, <1>4, <1>5, PhaseStep DEF PhaseNames

LEMMA StartInv ==
    ASSUME IInv, NEW c \in Caller, Start(c)
    PROVE  IInv'
<1>1. ASSUME NEW b \in Build, Begin(c, "maintenance", b) PROVE IInv'
  BY <1>1, BeginInv
<1>2. CASE Reserve(c) \/ MaintenancePresence(c) \/ DaemonClaimPresence(c)
  BY <1>2, BeginInv DEF Reserve, MaintenancePresence, DaemonClaimPresence
<1>3. CASE DaemonClaim(c)
  <2>1. at[c] = "member" /\ at' = [at EXCEPT ![c] = "claiming"] /\ at'[c] = "claiming"
        /\ UNCHANGED <<locks, who, record>>
    BY <1>3 DEF IInv, CohortType, DaemonClaim, Goto
  <2>2. LeaseShape(c)' /\ RecordStands(c)'
    BY <2>1 DEF IInv, LeaseShape, RecordStands, Opening, Admitted, Closing
  <2> QED BY <2>1, <2>2, PhaseStep DEF PhaseNames, IInv, CohortType
<1> QED BY <1>1, <1>2, <1>3 DEF Start, Acquire

\* The only step that adds a native lock: the kernel checks the others.
LEMMA TakeInv ==
    ASSUME IInv, NEW c \in Caller, Take(c)
    PROVE  IInv'
<1>1. PICK w \in Wanted :
         /\ at[c] = w.phase /\ Grantable(c, w.file, w.mode)
         /\ SetHandle(c, w.file, w.mode) /\ Goto(c, w.next)
         /\ UNCHANGED <<who, record>>
  BY DEF Take
<1>2. w.next \in PhaseNames /\ w.file \in File /\ w.mode \in {"SH", "EX"}
  BY WantedRow DEF PhaseNames, File
<1>3. /\ at' = [at EXCEPT ![c] = w.next] /\ at'[c] = w.next
      /\ locks'[c][w.file] = w.mode
      /\ \A g \in File \ {w.file} : locks'[c][g] = locks[c][g]
      /\ who'[c] = who[c] /\ record' = record
  BY <1>1, <1>2 DEF IInv, CohortType, Goto, SetHandle
<1>4. LeaseShape(c)
  BY DEF IInv
<1>5. LeaseShape(c)'
  BY <1>1, <1>3, <1>4, WantedRow DEF LeaseShape, Opening, Admitted, Closing, File
<1>6. RecordStands(c)'
  BY <1>1, <1>3, <1>4, WantedRow
  DEF IInv, RecordStands, LeaseShape, Opening, Admitted, File
<1> QED BY <1>1, <1>2, <1>3, <1>5, <1>6, HandleStep DEF Handle

LEMMA TakeFailsInv ==
    ASSUME IInv, NEW c \in Caller, TakeFails(c)
    PROVE  IInv'
<1>1. PICK w \in Wanted :
         /\ at[c] = w.phase
         /\ \/ locks' = locks
            \/ Grantable(c, w.file, w.mode) /\ \E h \in {w.mode, "shut"} : SetHandle(c, w.file, h)
         /\ Unwinding(c, "IO") /\ UNCHANGED <<who, record>>
  BY DEF TakeFails
<1>2. CASE locks' = locks
  BY <1>1, <1>2, UnwindingStep
<1>3. ASSUME NEW h \in {w.mode, "shut"}, Grantable(c, w.file, w.mode), SetHandle(c, w.file, h)
      PROVE  IInv'
  <2>1. w.file \in File /\ w.mode \in {"SH", "EX"}
    BY WantedRow DEF File
  <2>2. /\ at' = [at EXCEPT ![c] = "unwind"] /\ at'[c] = "unwind"
        /\ locks'[c][w.file] = h
        /\ \A g \in File \ {w.file} : locks'[c][g] = locks[c][g]
        /\ who'[c] = who[c] /\ record' = record
    BY <1>1, <1>3, <2>1 DEF IInv, CohortType, Unwinding, Goto, SetHandle
  <2>3. LeaseShape(c)
    BY DEF IInv
  <2>4. LeaseShape(c)'
    BY <1>1, <2>2, <2>3, WantedRow DEF LeaseShape, Opening, Admitted, Closing, File
  <2>5. RecordStands(c)'
    BY <1>1, <2>2, <2>3, WantedRow
    DEF IInv, RecordStands, LeaseShape, Opening, Admitted, File
  <2> QED BY <1>1, <1>3, <2>1, <2>2, <2>4, <2>5, HandleStep DEF Handle, PhaseNames
<1> QED BY <1>1, <1>2, <1>3

\* What only moves the caller on: refusals, deadlines, callbacks, departures.
LEMMA TurnedAwayInv ==
    ASSUME IInv, NEW c \in Caller,
           Conflict(c) \/ Refused(c) \/ Expire(c) \/ ReadFails(c) \/ Leave(c) \/ EndMutation(c)
    PROVE  IInv'
<1>1. PICK status : Unwinding(c, status) /\ UNCHANGED <<locks, who, record>>
  BY DEF Conflict, Refused, Expire, ReadFails, Leave, EndMutation
<1> QED BY <1>1, UnwindingStep

LEMMA QuiesceInv ==
    ASSUME IInv, NEW c \in Caller, Quiesce(c)
    PROVE  IInv'
<1>1. CASE Unwinding(c, "BUSY") \/ Unwinding(c, "IO")
  BY <1>1, UnwindingStep DEF Quiesce
<1>2. CASE Goto(c, "drain")
  <2>1. /\ at[c] = "quiesce" /\ at' = [at EXCEPT ![c] = "drain"] /\ at'[c] = "drain"
        /\ UNCHANGED <<locks, who, record>>
    BY <1>2 DEF IInv, CohortType, Quiesce, Goto
  <2>2. LeaseShape(c)' /\ RecordStands(c)'
    BY <2>1 DEF IInv, LeaseShape, RecordStands, Opening, Admitted, Closing
  <2> QED BY <2>1, <2>2, PhaseStep DEF PhaseNames, IInv, CohortType
<1> QED BY <1>1, <1>2 DEF Quiesce

\* An admission that finds lifetime in use finds the record of a live cohort:
\* the holder has it shared, since an exclusive one would hold admission.
LEMMA LifetimeInUseInv ==
    ASSUME IInv, NEW c \in Caller, LifetimeInUse(c)
    PROVE  IInv'
<1>1. CASE Unwinding(c, "BUSY")
  BY <1>1, UnwindingStep DEF LifetimeInUse
<1>2. CASE at[c] = "barrier" /\ Goto(c, "quiesce")
  <2>1. /\ at' = [at EXCEPT ![c] = "quiesce"] /\ at'[c] = "quiesce"
        /\ UNCHANGED <<locks, who, record>>
    BY <1>2 DEF IInv, CohortType, LifetimeInUse, Goto
  <2>2. LeaseShape(c)' /\ RecordStands(c)'
    BY <1>2, <2>1 DEF IInv, LeaseShape, RecordStands, Opening, Admitted, Closing
  <2> QED BY <2>1, <2>2, PhaseStep DEF PhaseNames, IInv, CohortType
<1>3. CASE at[c] = "lifetime" /\ Goto(c, "join")
  <2>1. /\ at' = [at EXCEPT ![c] = "join"] /\ at'[c] = "join"
        /\ UNCHANGED <<locks, who, record>>
    BY <1>3 DEF IInv, CohortType, LifetimeInUse, Goto
  <2>2. PICK d \in Caller \ {c} : locks[d]["lifetime"] \in {"SH", "EX"}
    BY DEF LifetimeInUse, Grantable
  <2>3. locks[c]["admission"] = "EX"
    BY <1>3 DEF IInv, LeaseShape, Opening
  <2>4. locks[d]["lifetime"] # "EX"
    BY <2>3 DEF IInv, LeaseShape, NativeCompatible, File
  <2>5. record \in Build
    BY <2>2, <2>4 DEF IInv, RecordStands
  <2>6. LeaseShape(c)' /\ RecordStands(c)'
    BY <1>3, <2>1, <2>5 DEF IInv, LeaseShape, RecordStands, Opening, Admitted, Closing
  <2> QED BY <2>1, <2>6, PhaseStep DEF PhaseNames, IInv, CohortType
<1> QED BY <1>1, <1>2, <1>3 DEF LifetimeInUse

\* The record changes only under lifetime EX and admission EX: nobody shares
\* lifetime then, and nobody else is between its write and its share.
LEMMA RecordStep ==
    ASSUME IInv, NEW c \in Caller, NEW q \in {"written", "narrow", "unwind"},
           at[c] \in {"write", "written"}, at' = [at EXCEPT ![c] = q],
           record' \in Build \cup {None, Torn}, q = "narrow" => record' = who[c],
           UNCHANGED <<locks, who>>
    PROVE  IInv'
<1>1. CohortType'
  BY Phases DEF IInv, CohortType, PhaseNames
<1>2. at'[c] = q /\ \A d \in Caller \ {c} : at'[d] = at[d]
  BY DEF IInv, CohortType
<1>3. \A d \in Caller : LeaseShape(d)'
  <2>1. LeaseShape(c)'
    BY <1>2 DEF IInv, LeaseShape, Opening, Admitted, Closing
  <2>2. \A d \in Caller \ {c} : LeaseShape(d)'
    BY <1>2 DEF IInv, LeaseShape
  <2> QED BY <2>1, <2>2
<1>4. NativeCompatible'
  BY DEF IInv, NativeCompatible
<1>5. locks[c]["lifetime"] = "EX" /\ locks[c]["admission"] = "EX"
  BY DEF IInv, LeaseShape, Opening
<1>6. RecordStands(c)'
  BY <1>2, <1>5 DEF IInv, RecordStands, Admitted
<1>7. ASSUME NEW d \in Caller \ {c} PROVE RecordStands(d)'
  <2>1. locks[d]["lifetime"] # "SH" /\ locks[d]["admission"] # "EX"
    BY <1>5 DEF IInv, NativeCompatible, File
  <2>2. at[d] \notin {"join", "narrow", "share"} \cup Admitted
    BY <2>1 DEF IInv, LeaseShape, Opening, Closing
  <2> QED BY <1>2, <2>1, <2>2 DEF RecordStands
<1> QED BY <1>1, <1>3, <1>4, <1>6, <1>7 DEF IInv

LEMMA WriteInv ==
    ASSUME IInv, NEW c \in Caller, Truncate(c) \/ Write(c) \/ WriteFails(c)
    PROVE  IInv'
<1>1. who[c] \in Build \cup {None} /\ record \in Build \cup {None, Torn}
  BY DEF IInv, CohortType
<1>2. CASE Truncate(c)
  <2>1. /\ at[c] \in {"write", "written"} /\ at' = [at EXCEPT ![c] = "written"]
        /\ record' \in Build \cup {None, Torn} /\ UNCHANGED <<locks, who>>
    BY <1>2 DEF Truncate, Goto
  <2> QED BY <2>1, RecordStep
<1>3. CASE Write(c)
  <2>1. /\ at[c] \in {"write", "written"} /\ at' = [at EXCEPT ![c] = "narrow"]
        /\ record' \in Build \cup {None, Torn} /\ UNCHANGED <<locks, who>>
        /\ record' = who[c]
    BY <1>1, <1>3 DEF Write, Goto
  <2> QED BY <2>1, RecordStep
<1>4. CASE WriteFails(c)
  <2>1. /\ at[c] \in {"write", "written"} /\ at' = [at EXCEPT ![c] = "unwind"]
        /\ record' \in Build \cup {None, Torn} /\ UNCHANGED <<locks, who>>
    BY <1>1, <1>4 DEF WriteFails, AfterWriteFailure, Unwinding, Goto
  <2> QED BY <2>1, RecordStep
<1> QED BY <1>2, <1>3, <1>4

LEMMA ReadInv ==
    ASSUME IInv, NEW c \in Caller, Read(c)
    PROVE  IInv'
<1>1. PICK q \in {"openAdmission", "leave"} :
         /\ at' = [at EXCEPT ![c] = q] /\ (q = "openAdmission" => record = who[c])
         /\ at[c] = "read" /\ UNCHANGED <<locks, who, record>>
  BY DEF Read, Goto, Compatible
<1>2. at'[c] = q
  BY <1>1 DEF IInv, CohortType
<1>3. LeaseShape(c)' /\ RecordStands(c)'
  BY <1>1, <1>2 DEF IInv, LeaseShape, RecordStands, Opening, Admitted, Closing
<1> QED BY <1>1, <1>3, PhaseStep DEF PhaseNames, IInv, CohortType

LEMMA PassInv ==
    ASSUME IInv, NEW c \in Caller, Pass(c)
    PROVE  IInv'
<1>1. PICK w \in Passed :
         /\ at[c] = w.phase /\ SetHandle(c, w.file, "NL") /\ Goto(c, w.next)
         /\ UNCHANGED <<who, record>>
  BY DEF Pass
<1>2. w.next \in PhaseNames /\ w.file \in File
  BY PassedRow DEF PhaseNames, File
<1>3. /\ at' = [at EXCEPT ![c] = w.next] /\ at'[c] = w.next
      /\ locks'[c][w.file] = "NL"
      /\ \A g \in File \ {w.file} : locks'[c][g] = locks[c][g]
      /\ who'[c] = who[c] /\ record' = record
  BY <1>1, <1>2 DEF IInv, CohortType, Goto, SetHandle
<1>4. LeaseShape(c)
  BY DEF IInv
<1>5. LeaseShape(c)'
  BY <1>1, <1>3, <1>4, PassedRow DEF LeaseShape, Opening, Admitted, Closing, File
<1>6. RecordStands(c)'
  BY <1>1, <1>3, PassedRow DEF IInv, RecordStands, Admitted, File
<1> QED BY <1>1, <1>2, <1>3, <1>5, <1>6, HandleStep DEF Handle

LEMMA PassFailsInv ==
    ASSUME IInv, NEW c \in Caller, PassFails(c)
    PROVE  IInv'
<1>1. PICK w \in Passed, h \in {"SH", "EX", "shut", "NL"} :
         /\ at[c] = w.phase /\ SetHandle(c, w.file, h) /\ Unwinding(c, "IO")
         /\ h \in {w.mode, "shut", "NL"}
         /\ UNCHANGED <<who, record>>
  BY PassedRow DEF PassFails
<1>2. w.file \in File
  BY PassedRow DEF File
<1>3. /\ at' = [at EXCEPT ![c] = "unwind"] /\ at'[c] = "unwind"
      /\ locks'[c][w.file] = h
      /\ \A g \in File \ {w.file} : locks'[c][g] = locks[c][g]
      /\ who'[c] = who[c] /\ record' = record
  BY <1>1, <1>2 DEF IInv, CohortType, Unwinding, Goto, SetHandle
<1>4. LeaseShape(c)
  BY DEF IInv
<1>5. locks[c][w.file] = w.mode
  BY <1>1, <1>4, PassedRow DEF LeaseShape, Opening, Admitted
<1>6. LeaseShape(c)'
  BY <1>1, <1>3, <1>4, PassedRow DEF LeaseShape, Opening, Admitted, Closing, File
<1>7. RecordStands(c)'
  BY <1>1, <1>3, <1>5, PassedRow DEF IInv, RecordStands, Admitted, File
<1> QED BY <1>1, <1>2, <1>3, <1>5, <1>6, <1>7, HandleStep DEF Handle, PhaseNames

\* Taking a lease apart keeps the nesting because of the order of the files.
LEMMA UnwindInv ==
    ASSUME IInv, NEW c \in Caller, Unwind(c) \/ UnwindFails(c)
    PROVE  IInv'
<1>0. \A f \in File : {locks[c][f], "shut", "NL"} \subseteq Handle
  BY DEF IInv, CohortType, Handle
<1>1. PICK f \in File, h \in Handle :
         /\ CanRelease(c, f) /\ SetHandle(c, f, h) /\ h \in {locks[c][f], "shut", "NL"}
         /\ UNCHANGED <<at, who, record>>
  <2>1. CASE Unwind(c)
    BY <1>0, <2>1 DEF Unwind
  <2>2. CASE UnwindFails(c)
    BY <1>0, <2>2 DEF UnwindFails
  <2> QED BY <2>1, <2>2
<1>2. /\ at' = [at EXCEPT ![c] = "unwind"] /\ at[c] = "unwind" /\ at'[c] = "unwind"
      /\ locks'[c][f] = h
      /\ \A g \in File \ {f} : locks'[c][g] = locks[c][g]
      /\ who'[c] = who[c] /\ record' = record
  BY <1>1 DEF IInv, CohortType, CanRelease, SetHandle
<1>3. /\ locks[c][f] # "NL"
      /\ f = "lifetime" => locks[c]["daemon"] = "NL"
      /\ f = "admission" => locks[c]["lifetime"] = "NL"
      /\ f = "maintenance" => locks[c]["admission"] = "NL"
  BY <1>1 DEF CanRelease, ReleasedBefore
<1>4. LeaseShape(c)
  BY DEF IInv
<1>5. LeaseShape(c)'
  BY <1>1, <1>2, <1>3, <1>4 DEF LeaseShape, Opening, Admitted, Closing, File
<1>6. RecordStands(c)'
  BY <1>1, <1>2 DEF IInv, RecordStands, Admitted, File
<1> QED BY <1>1, <1>2, <1>5, <1>6, HandleStep DEF PhaseNames

LEMMA ReturnInv ==
    ASSUME IInv, NEW c \in Caller, Return(c)
    PROVE  IInv'
<1>1. /\ at' = [at EXCEPT ![c] = "idle"] /\ at'[c] = "idle" /\ who'[c] = None
      /\ who' \in [Caller -> Build \cup {None}]
      /\ \A d \in Caller \ {c} : who'[d] = who[d]
      /\ UNCHANGED <<locks, record>>
      /\ \A f \in File : locks'[c][f] = "NL"
  BY DEF IInv, CohortType, Return, Goto, MustRelease
<1>2. LeaseShape(c)' /\ RecordStands(c)'
  BY <1>1 DEF LeaseShape, RecordStands, Opening, Admitted, Closing, File
<1> QED BY <1>1, <1>2, PhaseStep DEF PhaseNames

LEMMA CrashInv ==
    ASSUME IInv, NEW p \in Proc, Crash(p)
    PROVE  IInv'
<1>1. CohortType'
  BY Phases DEF IInv, CohortType, Crash, PhaseNames, Handle
<1>2. \A c \in Caller :
         IF Home[c] = p
         THEN at'[c] = "idle" /\ who'[c] = None /\ \A f \in File : locks'[c][f] = "NL"
         ELSE at'[c] = at[c] /\ who'[c] = who[c] /\ locks'[c] = locks[c]
  BY DEF Crash
<1>3. record' = record
  BY DEF Crash
<1>4. ASSUME NEW c \in Caller PROVE LeaseShape(c)' /\ RecordStands(c)'
  <2>1. CASE Home[c] = p
    BY <1>2, <2>1 DEF LeaseShape, RecordStands, Opening, Admitted, Closing, File
  <2>2. CASE Home[c] # p
    BY <1>2, <1>3, <2>2 DEF IInv, LeaseShape, RecordStands
  <2> QED BY <2>1, <2>2
<1>5. NativeCompatible'
  BY <1>2 DEF IInv, NativeCompatible
<1> QED BY <1>1, <1>4, <1>5 DEF IInv

LEMMA QuietInv ==
    ASSUME IInv, UNCHANGED <<at, locks, who, record>>
    PROVE  IInv'
BY DEF IInv, CohortType, LeaseShape, NativeCompatible, RecordStands

LEMMA NextInv == IInv /\ [Next]_vars => IInv'
<1> SUFFICES ASSUME IInv, [Next]_vars PROVE IInv'
  OBVIOUS
<1>1. ASSUME NEW c \in Caller, Proceed(c) PROVE IInv'
  BY <1>1, TakeInv, TurnedAwayInv, LifetimeInUseInv, WriteInv, ReadInv, PassInv, QuiesceInv,
     UnwindInv, ReturnInv DEF Proceed
<1>2. ASSUME NEW c \in Caller, Fail(c) PROVE IInv'
  BY <1>2, TakeFailsInv, WriteInv, PassFailsInv, UnwindInv DEF Fail
<1>3. ASSUME NEW c \in Caller, Start(c) \/ Leave(c) PROVE IInv'
  BY <1>3, StartInv, TurnedAwayInv
<1>4. ASSUME NEW c \in Caller, DeadlinePasses(c) PROVE IInv'
  BY <1>4, QuietInv DEF DeadlinePasses
<1>5. ASSUME NEW p \in Proc, ManagerNew(p) \/ ManagerFree(p) PROVE IInv'
  BY <1>5, QuietInv DEF ManagerNew, ManagerFree
<1>6. ASSUME NEW p \in Proc, Crash(p) PROVE IInv'
  BY <1>6, CrashInv
<1>7. CASE UNCHANGED vars
  BY <1>7, QuietInv DEF vars
<1> QED BY <1>1, <1>2, <1>3, <1>4, <1>5, <1>6, <1>7 DEF Next

THEOREM Invariance == Spec => []IInv
BY InitInv, NextInv, PTL DEF Spec

-----------------------------------------------------------------------------

\* A half-taken or half-released lease never lets a second transition in.
THEOREM Nesting == Spec => []GuardsNested
<1>1. IInv => GuardsNested
  BY DEF IInv, LeaseShape, GuardsNested
<1> QED BY <1>1, Invariance, PTL

\* The record under a live cohort is whole, and is the cohort's identity.
THEOREM RecordSafe == Spec => []RecordIsCohorts
<1>1. IInv => RecordIsCohorts
  BY DEF IInv, RecordStands, RecordIsCohorts
<1> QED BY <1>1, Invariance, PTL

\* While a mutation holds its lease no participant and no daemon is alive.
THEOREM MutationExclusive == Spec => []MutationAlone
<1>0. SUFFICES IInv => MutationAlone
  BY <1>0, Invariance, PTL
<1> SUFFICES ASSUME IInv, NEW c \in Caller, NEW d \in Caller, at[c] = "mutating", c # d
             PROVE  /\ at[d] \notin Admitted
                    /\ \A f \in {"maintenance", "admission", "lifetime"} :
                          locks[d][f] \in {"NL", "shut"}
                    /\ who[d] # None => locks[d]["daemon"] = "NL"
  BY DEF MutationAlone
<1>1. \A f \in {"maintenance", "admission", "lifetime"} : locks[c][f] = "EX"
  BY DEF IInv, LeaseShape, Closing
<1>2. \A f \in {"maintenance", "admission", "lifetime"} : locks[d][f] \in {"NL", "shut"}
  BY <1>1 DEF IInv, CohortType, NativeCompatible, File, Handle
<1>3. at[d] \notin Admitted
  BY <1>2 DEF IInv, LeaseShape
<1>4. who[d] # None => locks[d]["daemon"] = "NL"
  BY <1>2 DEF IInv, LeaseShape
<1> QED BY <1>2, <1>3, <1>4

-----------------------------------------------------------------------------
(* The protocol implements the abstract cohort.                              *)

joinedBar == [c \in Caller |-> IF at[c] \in Admitted THEN who[c] ELSE None]
barrierBar == {c \in Caller : at[c] \in Closing}
mutatorBar == {c \in Caller : at[c] = "mutating"}

AbstractNext == [Abstract!Next]_(Abstract!cohortVars)

\* c moves between phases that mean the same to the cohort.
LEMMA SameRole ==
    ASSUME IInv, NEW c \in Caller, NEW q,
           at' = [at EXCEPT ![c] = q],
           \A d \in Caller \ {c} : who'[d] = who[d],
           q \in Admitted => who'[c] = who[c],
           at[c] \in Admitted <=> q \in Admitted,
           at[c] \in Closing <=> q \in Closing,
           at[c] = "mutating" <=> q = "mutating"
    PROVE  AbstractNext
<1>1. joinedBar' = joinedBar
  BY DEF IInv, CohortType, joinedBar
<1>2. barrierBar' = barrierBar /\ mutatorBar' = mutatorBar
  BY DEF IInv, CohortType, barrierBar, mutatorBar
<1> QED BY <1>1, <1>2 DEF AbstractNext, Abstract!cohortVars, joinedBar, barrierBar, mutatorBar

\* c gives up whatever it had in the cohort.
LEMMA Departing ==
    ASSUME IInv, NEW c \in Caller, NEW q,
           at' = [at EXCEPT ![c] = q], who' = who,
           q \notin Admitted \cup Closing, q # "mutating"
    PROVE  AbstractNext
<1>1. joinedBar' = [d \in Caller |-> IF d \in {c} THEN None ELSE joinedBar[d]]
  BY DEF IInv, CohortType, joinedBar
<1>2. barrierBar' = barrierBar \ {c} /\ mutatorBar' = mutatorBar \ {c}
  BY DEF IInv, CohortType, barrierBar, mutatorBar
<1>3. Abstract!Depart({c})
  BY <1>1, <1>2 DEF Abstract!Depart, joinedBar, barrierBar, mutatorBar
<1> QED BY <1>3 DEF AbstractNext, Abstract!Next

LEMMA UnwindingDeparts ==
    ASSUME IInv, NEW c \in Caller, NEW status, Unwinding(c, status), who' = who
    PROVE  AbstractNext
BY Departing DEF Unwinding, Goto, Admitted, Closing

\* Who holds admission EX excludes every barrier.
LEMMA NoBarrier ==
    ASSUME IInv, NEW c \in Caller, locks[c]["admission"] = "EX", at[c] \notin Closing
    PROVE  barrierBar = {} /\ mutatorBar = {}
<1>1. \A d \in Caller : at[d] \notin Closing
  BY DEF IInv, LeaseShape, NativeCompatible, File
<1> QED BY <1>1 DEF barrierBar, mutatorBar, Closing

\* Admission: every participant runs the build of the record.
LEMMA Joining ==
    ASSUME IInv, NEW c \in Caller, at[c] \in {"read", "share"}, record = who[c],
           at' = [at EXCEPT ![c] = "openAdmission"], who' = who
    PROVE  AbstractNext
<1>1. who[c] \in Build /\ locks[c]["admission"] = "EX" /\ at[c] \notin Closing
  BY DEF IInv, LeaseShape, Opening, Closing
<1>2. barrierBar = {} /\ mutatorBar = {}
  BY <1>1, NoBarrier
<1>3. barrierBar' = barrierBar /\ mutatorBar' = mutatorBar
  BY DEF IInv, CohortType, barrierBar, mutatorBar, Closing
<1>4. joinedBar[c] = None /\ \A d \in Caller : joinedBar[d] \in {None, who[c]}
  BY DEF IInv, RecordStands, joinedBar, Admitted
<1>5. joinedBar' = [joinedBar EXCEPT ![c] = who[c]]
  BY DEF IInv, CohortType, joinedBar, Admitted
<1>6. PICK b \in Build : b = who[c]
  BY <1>1
<1>7. Abstract!Join(c, b)
  BY <1>2, <1>3, <1>4, <1>5, <1>6 DEF Abstract!Join, joinedBar, barrierBar, mutatorBar
<1> QED BY <1>7 DEF AbstractNext, Abstract!Next

LEMMA CloseStep ==
    ASSUME IInv, NEW c \in Caller, at[c] = "closing", Grantable(c, "admission", "EX"),
           at' = [at EXCEPT ![c] = "barrier"], who' = who
    PROVE  AbstractNext
<1>1. \A d \in Caller : at[d] \notin Closing
  BY DEF IInv, LeaseShape, Grantable, Closing
<1>2. barrierBar = {} /\ mutatorBar = {} /\ joinedBar[c] = None
  BY <1>1 DEF barrierBar, mutatorBar, joinedBar, Closing, Admitted
<1>3. barrierBar' = {c} /\ mutatorBar' = mutatorBar /\ joinedBar' = joinedBar
  BY <1>1 DEF IInv, CohortType, barrierBar, mutatorBar, joinedBar, Closing, Admitted
<1>4. Abstract!Close(c)
  BY <1>2, <1>3 DEF Abstract!Close, joinedBar, barrierBar, mutatorBar
<1> QED BY <1>4 DEF AbstractNext, Abstract!Next

LEMMA MutateStep ==
    ASSUME IInv, NEW c \in Caller, at[c] \in {"barrier", "drain"},
           Grantable(c, "lifetime", "EX"), at' = [at EXCEPT ![c] = "mutating"], who' = who
    PROVE  AbstractNext
<1>1. \A d \in Caller : at[d] \notin Admitted
  BY DEF IInv, LeaseShape, Grantable, Admitted
<1>2. at[c] \in Closing /\ locks[c]["admission"] = "EX" /\ at[c] # "mutating"
  BY DEF IInv, LeaseShape, Closing
<1>3. \A d \in Caller \ {c} : at[d] \notin Closing
  BY <1>2 DEF IInv, LeaseShape, NativeCompatible, File
<1>4. barrierBar = {c} /\ mutatorBar = {} /\ \A d \in Caller : joinedBar[d] = None
  BY <1>1, <1>2, <1>3 DEF barrierBar, mutatorBar, joinedBar, Closing
<1>5. barrierBar' = barrierBar /\ mutatorBar' = {c} /\ joinedBar' = joinedBar
  BY <1>1, <1>2, <1>3 DEF IInv, CohortType, barrierBar, mutatorBar, joinedBar, Closing, Admitted
<1>6. Abstract!Mutate(c)
  BY <1>4, <1>5 DEF Abstract!Mutate, joinedBar, barrierBar, mutatorBar
<1> QED BY <1>6 DEF AbstractNext, Abstract!Next

LEMMA TakeStep ==
    ASSUME IInv, NEW c \in Caller, Take(c)
    PROVE  AbstractNext
<1>1. PICK w \in Wanted :
         /\ at[c] = w.phase /\ Grantable(c, w.file, w.mode)
         /\ at' = [at EXCEPT ![c] = w.next] /\ who' = who
  BY DEF Take, Goto
<1>2. CASE w.next = "openAdmission"
  <2>1. at[c] = "share"
    BY <1>1, <1>2, WantedRow
  <2>2. record = who[c]
    BY <2>1 DEF IInv, RecordStands
  <2> QED BY <1>1, <1>2, <2>1, <2>2, Joining
<1>3. CASE w.next = "barrier"
  BY <1>1, <1>3, WantedRow, CloseStep
<1>4. CASE w.next = "mutating"
  BY <1>1, <1>4, WantedRow, MutateStep
<1>5. CASE w.next = "daemon"
  BY <1>1, <1>5, WantedRow, SameRole DEF Admitted, Closing
<1>6. CASE w.next \notin {"openAdmission", "barrier", "mutating", "daemon"}
  <2>1. w.next \notin Admitted \cup Closing /\ w.next # "mutating"
    BY <1>6, WantedRow DEF Admitted, Closing
  <2> QED BY <1>1, <2>1, Departing
<1> QED BY <1>2, <1>3, <1>4, <1>5, <1>6

LEMMA ReadStep ==
    ASSUME IInv, NEW c \in Caller, Read(c)
    PROVE  AbstractNext
<1>1. CASE record = who[c]
  BY <1>1, Joining DEF Read, Goto, Compatible
<1>2. CASE record # who[c]
  <2>1. at' = [at EXCEPT ![c] = "leave"] /\ who' = who
    BY <1>2 DEF Read, Goto, Compatible
  <2> QED BY <2>1, Departing DEF Admitted, Closing
<1> QED BY <1>1, <1>2

LEMMA PassStep ==
    ASSUME IInv, NEW c \in Caller, Pass(c)
    PROVE  AbstractNext
<1>1. PICK w \in Passed : at[c] = w.phase /\ at' = [at EXCEPT ![c] = w.next] /\ who' = who
  BY DEF Pass, Goto
<1>2. CASE w.next \in {"openMaintenance", "member"}
  <2>1. at[c] \in {"openAdmission", "openMaintenance"}
    BY <1>1, <1>2, PassedRow
  <2> QED BY <1>1, <1>2, <2>1, SameRole DEF Admitted, Closing
<1>3. CASE w.next \notin {"openMaintenance", "member"}
  <2>1. w.next \notin Admitted \cup Closing /\ w.next # "mutating"
    BY <1>3, PassedRow DEF Admitted, Closing
  <2> QED BY <1>1, <2>1, Departing
<1> QED BY <1>2, <1>3

LEMMA CrashStep ==
    ASSUME IInv, NEW p \in Proc, Crash(p)
    PROVE  AbstractNext
<1> DEFINE C == {c \in Caller : Home[c] = p}
<1>0. \A c \in Caller : at'[c] = (IF Home[c] = p THEN "idle" ELSE at[c])
                        /\ who'[c] = (IF Home[c] = p THEN None ELSE who[c])
  BY DEF Crash
<1>1. joinedBar' = [c \in Caller |-> IF c \in C THEN None ELSE joinedBar[c]]
  BY <1>0 DEF joinedBar, Admitted
<1>2. barrierBar' = barrierBar \ C /\ mutatorBar' = mutatorBar \ C
  BY <1>0 DEF barrierBar, mutatorBar, Closing
<1>3. Abstract!Depart(C)
  BY <1>1, <1>2 DEF Abstract!Depart, joinedBar, barrierBar, mutatorBar
<1>4. C \in SUBSET Caller
  OBVIOUS
<1> QED BY <1>3, <1>4 DEF AbstractNext, Abstract!Next

LEMMA QuietStep ==
    ASSUME at' = at, who' = who
    PROVE  AbstractNext
BY DEF AbstractNext, Abstract!cohortVars

LEMMA NextRefines == IInv /\ [Next]_vars => AbstractNext
<1> SUFFICES ASSUME IInv, [Next]_vars PROVE AbstractNext
  OBVIOUS
<1>1. ASSUME NEW c \in Caller, NEW status, Unwinding(c, status), who' = who
      PROVE  AbstractNext
  BY <1>1, UnwindingDeparts
<1>2. ASSUME NEW c \in Caller,
             \/ Conflict(c) \/ Refused(c) \/ Expire(c) \/ ReadFails(c) \/ Leave(c)
             \/ EndMutation(c) \/ Fail(c)
      PROVE  AbstractNext
  <2>1. CASE UnwindFails(c)
    BY <2>1, QuietStep DEF UnwindFails
  <2>2. CASE ~UnwindFails(c)
    <3>1. \E status : Unwinding(c, status) /\ who' = who
      BY <1>2, <2>2 DEF Conflict, Refused, Expire, ReadFails, Leave, EndMutation, Fail, TakeFails,
         WriteFails, AfterWriteFailure, PassFails
    <3> QED BY <3>1, <1>1
  <2> QED BY <2>1, <2>2
<1>3. ASSUME NEW c \in Caller, LifetimeInUse(c) \/ Quiesce(c) PROVE AbstractNext
  <2>0. \/ Unwinding(c, "BUSY") \/ Unwinding(c, "IO")
        \/ at[c] = "lifetime" /\ Goto(c, "join")
        \/ at[c] = "barrier" /\ Goto(c, "quiesce")
        \/ at[c] = "quiesce" /\ Goto(c, "drain")
    BY <1>3, Zenon DEF LifetimeInUse, Quiesce
  <2>1. CASE Unwinding(c, "BUSY") \/ Unwinding(c, "IO")
    BY <1>3, <2>1, <1>1 DEF LifetimeInUse, Quiesce
  <2>2. CASE at[c] = "lifetime" /\ Goto(c, "join")
    BY <1>3, <2>2, Departing DEF LifetimeInUse, Quiesce, Goto, Admitted, Closing
  <2>3. CASE at[c] = "barrier" /\ Goto(c, "quiesce")
    BY <1>3, <2>3, SameRole DEF LifetimeInUse, Quiesce, Goto, Admitted, Closing
  <2>4. CASE at[c] = "quiesce" /\ Goto(c, "drain")
    BY <1>3, <2>4, SameRole DEF LifetimeInUse, Quiesce, Goto, Admitted, Closing
  <2> QED BY <2>0, <2>1, <2>2, <2>3, <2>4
<1>4. ASSUME NEW c \in Caller, Truncate(c) \/ Write(c) PROVE AbstractNext
  BY <1>4, Departing DEF Truncate, Write, Goto, Admitted, Closing
<1>5. ASSUME NEW c \in Caller, Unwind(c) PROVE AbstractNext
  BY <1>5, QuietStep DEF Unwind
<1>6. ASSUME NEW c \in Caller, Return(c) PROVE AbstractNext
  <2>1. at[c] = "unwind" /\ at' = [at EXCEPT ![c] = "idle"] /\ who' = [who EXCEPT ![c] = None]
    BY <1>6 DEF Return, Goto
  <2>2. \A d \in Caller \ {c} : who'[d] = who[d]
    BY <2>1 DEF IInv, CohortType
  <2> QED BY <2>1, <2>2, SameRole DEF Admitted, Closing
<1>7. ASSUME NEW c \in Caller, Start(c) PROVE AbstractNext
  <2>1. ASSUME NEW b, NEW q \in {"maintenance", "intent", "probe", "peek"}, Begin(c, q, b)
        PROVE  AbstractNext
    <3>1. at[c] = "idle" /\ at' = [at EXCEPT ![c] = q] /\ who' = [who EXCEPT ![c] = b]
      BY <2>1 DEF Begin, Goto
    <3> QED BY <3>1, SameRole DEF IInv, CohortType, Admitted, Closing
  <2>2. CASE DaemonClaim(c)
    BY <2>2, SameRole DEF DaemonClaim, Goto, Admitted, Closing
  <2> QED BY <1>7, <2>1, <2>2 DEF Start, Acquire, Reserve, MaintenancePresence, DaemonClaimPresence
<1>8. ASSUME NEW c \in Caller, Take(c) \/ Read(c) \/ Pass(c) PROVE AbstractNext
  BY <1>8, TakeStep, ReadStep, PassStep
<1>9. ASSUME NEW c \in Caller, DeadlinePasses(c) PROVE AbstractNext
  BY <1>9, QuietStep DEF DeadlinePasses
<1>10. ASSUME NEW p \in Proc, ManagerNew(p) \/ ManagerFree(p) PROVE AbstractNext
  BY <1>10, QuietStep DEF ManagerNew, ManagerFree
<1>11. ASSUME NEW p \in Proc, Crash(p) PROVE AbstractNext
  BY <1>11, CrashStep
<1>12. CASE UNCHANGED vars
  BY <1>12, QuietStep DEF vars
<1> QED BY <1>2, <1>3, <1>4, <1>5, <1>6, <1>7, <1>8, <1>9, <1>10, <1>11, <1>12
  DEF Next, Proceed

\* Every behaviour of the protocol, seen through who is admitted, who has closed
\* admission and who mutates, is one of the abstract cohort: all participants
\* run one build, and a mutation works alone after the last of them has gone.
THEOREM Refinement == Spec => ImplementsCohort
<1>1. Init => Abstract!Init
  BY DEF Init, Abstract!Init, Admitted, Closing
<1> QED BY <1>1, NextRefines, Invariance, PTL
  DEF Spec, ImplementsCohort, Abstract!Spec, AbstractNext

-----------------------------------------------------------------------------
(* A conflict is only reported of a cohort that lives.                       *)
(*                                                                           *)
(* Who shares lifetime is the record's build, unless it is still deciding    *)
(* and has admission; and whoever has found another build in the record      *)
(* keeps admission, so that the record is the same when it looks again.      *)

Mine(c) ==
    /\ locks[c]["lifetime"] = "SH" =>
          who[c] \in Build /\ (record = who[c] \/ locks[c]["admission"] = "EX")
    /\ at[c] \in {"leave", "reclaim"} => record # who[c]

CInv == answer \in [Caller -> Answer] /\ \A c \in Caller : Mine(c)

\* Nobody is told CONFLICT.
NoConflict == \A c \in Caller : answer'[c] = "CONFLICT" => answer[c] = "CONFLICT"

\* What a step has to be for the invariant: the others stay, the record too.
LEMMA MineStep ==
    ASSUME CInv, NEW c \in Caller,
           \A d \in Caller \ {c} : at'[d] = at[d] /\ locks'[d] = locks[d] /\ who'[d] = who[d],
           record' = record, Mine(c)', answer' \in [Caller -> Answer]
    PROVE  CInv'
BY DEF CInv, Mine

LEMMA Unchanged ==
    ASSUME IInv, CInv, UNCHANGED <<at, locks, who, record>>, answer' \in [Caller -> Answer]
    PROVE  CInv'
BY DEF CInv, Mine

\* A caller moves on and nothing else changes.
LEMMA MovedOn ==
    ASSUME IInv, CInv, NEW c \in Caller, NEW q, q \notin {"leave", "reclaim"},
           at' = [at EXCEPT ![c] = q], UNCHANGED <<locks, who, record>>,
           answer' \in [Caller -> Answer]
    PROVE  CInv'
<1>1. Mine(c)'
  BY DEF CInv, Mine, IInv, CohortType
<1>2. \A d \in Caller \ {c} : at'[d] = at[d]
  BY DEF IInv, CohortType
<1> QED BY <1>1, <1>2, MineStep

LEMMA Answered ==
    ASSUME CInv, NEW c \in Caller, NEW a \in Answer, answer' = [answer EXCEPT ![c] = a],
           a # "CONFLICT"
    PROVE  NoConflict /\ answer' \in [Caller -> Answer]
BY DEF CInv, NoConflict

LEMMA Silent == ASSUME CInv, answer' = answer PROVE NoConflict /\ answer' \in [Caller -> Answer]
BY DEF CInv, NoConflict

LEMMA TakeMine == ASSUME IInv, CInv, NEW c \in Caller, Take(c) PROVE CInv' /\ NoConflict
<1>1. PICK w \in Wanted :
         at[c] = w.phase /\ SetHandle(c, w.file, w.mode) /\ Goto(c, w.next)
         /\ UNCHANGED <<who, record, answer>>
  BY DEF Take
<1>2. w.file \in File
  BY WantedRow DEF File
<1>3. /\ at'[c] = w.next /\ locks'[c][w.file] = w.mode
      /\ \A g \in File \ {w.file} : locks'[c][g] = locks[c][g]
      /\ \A d \in Caller \ {c} : at'[d] = at[d] /\ locks'[d] = locks[d]
  BY <1>1, <1>2 DEF IInv, CohortType, Goto, SetHandle
<1>4. LeaseShape(c) /\ Mine(c)
  BY DEF IInv, CInv
<1>5. Mine(c)'
  BY <1>1, <1>3, <1>4, WantedRow DEF Mine, LeaseShape, Opening, File
<1> QED BY <1>1, <1>3, <1>5, MineStep, Silent

LEMMA TakeFailsMine == ASSUME IInv, CInv, NEW c \in Caller, TakeFails(c) PROVE CInv' /\ NoConflict
<1>1. PICK w \in Wanted :
         /\ at[c] = w.phase
         /\ locks' = locks \/ \E h \in {w.mode, "shut"} : SetHandle(c, w.file, h)
         /\ Unwinding(c, "IO") /\ UNCHANGED <<who, record>>
  BY DEF TakeFails
<1>2. NoConflict /\ answer' \in [Caller -> Answer]
  BY <1>1, Answered DEF Unwinding, Answer
<1>3. CASE locks' = locks
  BY <1>1, <1>2, <1>3, MovedOn DEF Unwinding, Goto
<1>4. ASSUME NEW h \in {w.mode, "shut"}, SetHandle(c, w.file, h) PROVE CInv'
  <2>1. w.file \in File
    BY WantedRow DEF File
  <2>2. /\ at'[c] = "unwind" /\ locks'[c][w.file] = h
        /\ \A g \in File \ {w.file} : locks'[c][g] = locks[c][g]
        /\ \A d \in Caller \ {c} : at'[d] = at[d] /\ locks'[d] = locks[d]
    BY <1>1, <1>4, <2>1 DEF IInv, CohortType, Unwinding, Goto, SetHandle
  <2>3. LeaseShape(c) /\ Mine(c)
    BY DEF IInv, CInv
  <2>4. Mine(c)'
    BY <1>1, <2>2, <2>3, WantedRow DEF Mine, LeaseShape, Opening, File
  <2> QED BY <1>1, <1>2, <2>2, <2>4, MineStep
<1> QED BY <1>1, <1>2, <1>3, <1>4

\* A handle is given back: admission only when the record is the caller's.
LEMMA PassMine ==
    ASSUME IInv, CInv, NEW c \in Caller, Pass(c) \/ PassFails(c)
    PROVE  CInv' /\ NoConflict
<1>1. PICK w \in Passed, h \in Handle, q \in PhaseNames :
         /\ h \in {w.mode, "shut", "NL"} /\ q \in {w.next, "unwind"}
         /\ q = "unwind" \/ h = "NL"
         /\ at[c] = w.phase /\ SetHandle(c, w.file, h) /\ Goto(c, q)
         /\ UNCHANGED <<who, record>>
  BY PassedRow DEF Pass, PassFails, Unwinding, Handle, PhaseNames
<1>2. \E a \in Answer \ {"CONFLICT"} : answer' = [answer EXCEPT ![c] = a] \/ answer' = answer
  <2>1. CASE PassFails(c)
    <3>1. answer' = [answer EXCEPT ![c] = "IO"]
      BY <2>1 DEF PassFails, Unwinding
    <3> QED BY <3>1 DEF Answer
  <2>2. CASE Pass(c)
    <3>1. [answer EXCEPT ![c] = answer[c]] = answer
      BY DEF CInv
    <3>2. answer' = [answer EXCEPT ![c] = "OK"] \/ answer' = [answer EXCEPT ![c] = answer[c]]
      BY <2>2 DEF Pass
    <3> QED BY <3>1, <3>2 DEF Answer
  <2> QED BY <2>1, <2>2
<1>3. NoConflict /\ answer' \in [Caller -> Answer]
  BY <1>2, Answered, Silent
<1>4. w.file \in File
  BY PassedRow DEF File
<1>5. /\ at'[c] = q /\ locks'[c][w.file] = h
      /\ \A g \in File \ {w.file} : locks'[c][g] = locks[c][g]
      /\ \A d \in Caller \ {c} : at'[d] = at[d] /\ locks'[d] = locks[d]
  BY <1>1, <1>4 DEF IInv, CohortType, Goto, SetHandle
<1>6. LeaseShape(c) /\ Mine(c) /\ RecordStands(c)
  BY DEF IInv, CInv
<1>7. Mine(c)'
  BY <1>1, <1>5, <1>6, PassedRow DEF Mine, LeaseShape, RecordStands, Opening, Admitted, File
<1> QED BY <1>1, <1>3, <1>5, <1>7, MineStep

LEMMA UnwindMine ==
    ASSUME IInv, CInv, NEW c \in Caller, Unwind(c) \/ UnwindFails(c)
    PROVE  CInv' /\ NoConflict
<1>1. PICK f \in File, h \in Handle :
         h \in {"NL", "shut", locks[c][f]} /\ CanRelease(c, f) /\ SetHandle(c, f, h) /\ UNCHANGED <<at, who, record>>
  BY DEF Unwind, UnwindFails, Handle, IInv, CohortType
<1>2. NoConflict /\ answer' \in [Caller -> Answer]
  BY Answered, Silent DEF Unwind, UnwindFails, Answer
<1>3. /\ locks'[c][f] = h /\ \A g \in File \ {f} : locks'[c][g] = locks[c][g]
      /\ \A d \in Caller \ {c} : locks'[d] = locks[d]
  BY <1>1 DEF IInv, CohortType, SetHandle
<1>4. f = "admission" => locks[c]["lifetime"] = "NL"
  BY <1>1 DEF CanRelease, ReleasedBefore
<1>5. Mine(c)'
  BY <1>1, <1>3, <1>4 DEF CInv, Mine, File
<1> QED BY <1>1, <1>2, <1>3, <1>5, MineStep

LEMMA ReadMine == ASSUME IInv, CInv, NEW c \in Caller, Read(c) PROVE CInv' /\ NoConflict
<1>1. /\ \A d \in Caller \ {c} : at'[d] = at[d]
      /\ at'[c] = "leave" => record # who[c]
      /\ at'[c] # "reclaim" /\ UNCHANGED <<locks, who, record, answer>>
  BY DEF Read, Goto, Compatible, IInv, CohortType
<1>2. Mine(c)'
  BY <1>1 DEF CInv, Mine
<1> QED BY <1>1, <1>2, MineStep, Silent

\* The record is written with lifetime and admission in hand: nobody shares the one or
\* has found another build under the other.
LEMMA WriteMine ==
    ASSUME IInv, CInv, NEW c \in Caller, Truncate(c) \/ Write(c) \/ WriteFails(c)
    PROVE  CInv' /\ NoConflict
<1>1. /\ at[c] \in {"write", "written"} /\ UNCHANGED <<locks, who>>
      /\ \A d \in Caller \ {c} : at'[d] = at[d]
      /\ at'[c] \in {"written", "narrow", "unwind"}
  BY DEF Truncate, Write, WriteFails, AfterWriteFailure, Unwinding, Goto, IInv, CohortType
<1>2. NoConflict /\ answer' \in [Caller -> Answer]
  BY Answered, Silent DEF Truncate, Write, WriteFails, AfterWriteFailure, Unwinding, Answer
<1>3. locks[c]["lifetime"] = "EX" /\ locks[c]["admission"] = "EX"
  BY <1>1 DEF IInv, LeaseShape, Opening
<1>4. ASSUME NEW d \in Caller PROVE Mine(d)'
  <2>1. CASE d = c
    BY <1>1, <1>3, <2>1 DEF Mine
  <2>2. CASE d # c
    <3>1. locks[d]["lifetime"] # "SH" /\ locks[d]["admission"] # "EX"
      BY <1>3, <2>2 DEF IInv, NativeCompatible, File
    <3>2. at[d] \notin {"leave", "reclaim"}
      BY <3>1 DEF IInv, LeaseShape, Opening
    <3> QED BY <1>1, <2>2, <3>1, <3>2 DEF Mine
  <2> QED BY <2>1, <2>2
<1> QED BY <1>2, <1>4 DEF CInv

\* Somebody comes, goes, or is turned away for another reason than a conflict.
LEMMA ComeAndGoMine ==
    ASSUME IInv, CInv, NEW c \in Caller,
           Start(c) \/ Return(c) \/ LifetimeInUse(c) \/ Refused(c) \/ Expire(c) \/ ReadFails(c)
              \/ Quiesce(c) \/ Leave(c) \/ EndMutation(c)
    PROVE  CInv' /\ NoConflict
<1>1. CASE Start(c) /\ ~DaemonClaim(c)
  <2>1. PICK q \in {"maintenance", "intent", "probe", "peek"}, b \in Build \cup {None} :
          Begin(c, q, b)
    BY <1>1 DEF Start, Acquire, Reserve, MaintenancePresence, DaemonClaimPresence
  <2>2. locks[c]["lifetime"] = "NL"
    BY <2>1 DEF Begin, IInv, LeaseShape, File
  <2>3. /\ \A d \in Caller \ {c} : at'[d] = at[d] /\ who'[d] = who[d]
        /\ at'[c] = q /\ UNCHANGED <<locks, record, answer>>
    BY <2>1 DEF Begin, Goto, IInv, CohortType
  <2>4. Mine(c)'
    BY <2>2, <2>3 DEF Mine
  <2> QED BY <2>3, <2>4, MineStep, Silent
<1>2. CASE DaemonClaim(c)
  BY <1>2, MovedOn, Silent DEF DaemonClaim, Goto
<1>3. CASE Return(c)
  <2>1. NoConflict /\ answer' \in [Caller -> Answer]
    BY <1>3, Answered DEF Return, Answer
  <2>2. locks[c]["lifetime"] = "NL"
    BY <1>3 DEF Return, MustRelease, File
  <2>3. /\ \A d \in Caller \ {c} : at'[d] = at[d] /\ who'[d] = who[d]
        /\ at'[c] = "idle" /\ UNCHANGED <<locks, record>>
    BY <1>3 DEF Return, Goto, IInv, CohortType
  <2>4. Mine(c)'
    BY <2>2, <2>3 DEF Mine
  <2> QED BY <2>1, <2>3, <2>4, MineStep
<1>4. ASSUME NEW a \in Answer \ {"CONFLICT"}, Unwinding(c, a), UNCHANGED <<locks, who, record>>
      PROVE  CInv' /\ NoConflict
  <2>1. NoConflict /\ answer' \in [Caller -> Answer]
    BY <1>4, Answered DEF Unwinding
  <2> QED BY <1>4, <2>1, MovedOn DEF Unwinding, Goto
<1>5. ASSUME NEW q \in {"join", "quiesce", "drain"}, Goto(c, q),
             UNCHANGED <<locks, who, record, answer>>
      PROVE  CInv' /\ NoConflict
  BY <1>5, MovedOn, Silent DEF Goto
<1>6. CASE LifetimeInUse(c) \/ Quiesce(c)
  BY <1>4, <1>5, <1>6 DEF LifetimeInUse, Quiesce, Answer
<1>7. CASE Refused(c) \/ Expire(c) \/ ReadFails(c) \/ Leave(c) \/ EndMutation(c)
  BY <1>4, <1>7 DEF Refused, Expire, ReadFails, Leave, EndMutation, Answer
<1> QED BY <1>1, <1>2, <1>3, <1>6, <1>7

LEMMA CrashMine == ASSUME IInv, CInv, NEW p \in Proc, Crash(p) PROVE CInv' /\ NoConflict
<1>1. ASSUME NEW c \in Caller PROVE Mine(c)' /\ (answer'[c] = "CONFLICT" => answer[c] = "CONFLICT")
  <2>1. CASE Home[c] = p
    BY <2>1 DEF Crash, Mine, File
  <2>2. CASE Home[c] # p
    BY <2>2 DEF Crash, CInv, Mine
  <2> QED BY <2>1, <2>2
<1>2. answer' \in [Caller -> Answer]
  BY DEF Crash, CInv, Answer
<1> QED BY <1>1, <1>2 DEF CInv, NoConflict

\* The second look finds lifetime shared by a participant of the build in the record.
Told(c) ==
    \E d \in Caller \ {c} : locks[d]["lifetime"] = "SH" /\ who[d] \in Build \ {who[c]}

LEMMA ConflictMine ==
    ASSUME IInv, CInv, NEW c \in Caller, Conflict(c)
    PROVE  /\ CInv' /\ Told(c)
           /\ \A d \in Caller \ {c} : answer'[d] = answer[d]
<1>1. PICK d \in Caller \ {c} : locks[d]["lifetime"] \in {"SH", "EX"}
  BY DEF Conflict, ConflictIfBusy, Grantable
<1>2. at[c] = "reclaim" /\ locks[c]["admission"] = "EX" /\ record # who[c]
  BY DEF Conflict, ConflictIfBusy, IInv, LeaseShape, Opening, CInv, Mine
<1>3. locks[d]["admission"] # "EX"
  BY <1>2 DEF IInv, NativeCompatible, File
<1>4. locks[d]["lifetime"] = "SH"
  BY <1>1, <1>3 DEF IInv, LeaseShape
<1>5. who[d] \in Build /\ who[d] = record
  BY <1>3, <1>4 DEF CInv, Mine
<1>6. Told(c)
  BY <1>2, <1>4, <1>5 DEF Told
<1>7. answer' \in [Caller -> Answer] /\ \A e \in Caller \ {c} : answer'[e] = answer[e]
  BY DEF Conflict, Unwinding, CInv, Answer
<1> QED BY <1>6, <1>7, MovedOn DEF Conflict, Unwinding, Goto

ConflictStep == \A c \in Caller : answer[c] # "CONFLICT" /\ answer'[c] = "CONFLICT" => Told(c)

LEMMA NextMine == IInv /\ CInv /\ [Next]_vars => CInv' /\ ConflictStep
<1> SUFFICES ASSUME IInv, CInv, [Next]_vars PROVE CInv' /\ ConflictStep
  OBVIOUS
<1>0. NoConflict => ConflictStep
  BY DEF NoConflict, ConflictStep
<1>1. ASSUME NEW c \in Caller, Conflict(c) PROVE CInv' /\ ConflictStep
  BY <1>1, ConflictMine DEF ConflictStep
<1>2. ASSUME NEW c \in Caller, Proceed(c), ~Conflict(c) PROVE CInv' /\ ConflictStep
  BY <1>0, <1>2, TakeMine, PassMine, UnwindMine, ReadMine, WriteMine, ComeAndGoMine DEF Proceed
<1>3. ASSUME NEW c \in Caller, Start(c) \/ Fail(c) \/ Leave(c) PROVE CInv' /\ ConflictStep
  BY <1>0, <1>3, TakeFailsMine, WriteMine, PassMine, UnwindMine, ComeAndGoMine DEF Fail
<1>4. ASSUME NEW c \in Caller, DeadlinePasses(c) PROVE CInv' /\ ConflictStep
  BY <1>0, <1>4, Unchanged, Silent DEF DeadlinePasses
<1>5. ASSUME NEW p \in Proc, ManagerNew(p) \/ ManagerFree(p) PROVE CInv' /\ ConflictStep
  BY <1>0, <1>5, Unchanged, Silent DEF ManagerNew, ManagerFree
<1>6. ASSUME NEW p \in Proc, Crash(p) PROVE CInv' /\ ConflictStep
  BY <1>0, <1>6, CrashMine
<1>7. CASE UNCHANGED vars
  BY <1>0, <1>7, Unchanged, Silent DEF vars
<1> QED BY <1>1, <1>2, <1>3, <1>4, <1>5, <1>6, <1>7 DEF Next

\* CONFLICT is never an echo of a cohort that has ended.
THEOREM ConflictsReal == Spec => ConflictIsReal
<1>1. Init => CInv
  BY DEF Init, CInv, Mine, Answer, File
<1>2. IInv /\ CInv /\ [Next]_vars => CInv' /\ [ConflictStep]_vars
  BY NextMine
<1>3. ConflictStep <=> (\A c \in Caller :
        answer[c] # "CONFLICT" /\ answer'[c] = "CONFLICT" =>
           \E d \in Caller \ {c} : locks[d]["lifetime"] = "SH" /\ who[d] \in Build \ {who[c]})
  BY DEF ConflictStep, Told
<1> QED BY <1>1, <1>2, <1>3, Invariance, PTL DEF Spec, ConflictIsReal

-----------------------------------------------------------------------------
(* The manager's count of its leases.                                        *)
(*                                                                           *)
(* It is the number of callers of the process that are in a call or have a   *)
(* lease.  That this set is finite needs no assumption: it starts empty and  *)
(* grows by one.                                                             *)

Registered(p) == {c \in Caller : Home[c] = p /\ at[c] # "idle"}

BooksTyped ==
    /\ late \in [Caller -> BOOLEAN]
    /\ manager \in [Proc -> BOOLEAN]
    /\ leases \in [Proc -> Nat]
    /\ calls \in Nat /\ faults \in Nat /\ crashes \in Nat

Counted(p) ==
    /\ IsFiniteSet(Registered(p)) /\ leases[p] = Cardinality(Registered(p))
    /\ ~manager[p] => Registered(p) = {}

BInv == BooksTyped /\ \A p \in Proc : Counted(p)

\* A step that starts and ends no call keeps the count.
LEMMA CountKept ==
    ASSUME BInv, BooksTyped', UNCHANGED <<leases, manager>>,
           \A c \in Caller : at'[c] = "idle" <=> at[c] = "idle"
    PROVE  BInv'
<1>1. \A p \in Proc : Registered(p)' = Registered(p)
  BY DEF Registered
<1> QED BY <1>1 DEF BInv, Counted

\* Nor does one that only takes a caller from one phase of its call to another.
LEMMA GoesOn ==
    ASSUME IInv, BInv, BooksTyped', UNCHANGED <<leases, manager>>, NEW c \in Caller, NEW q,
           at[c] # "idle", q # "idle", Goto(c, q)
    PROVE  BInv'
<1>1. \A d \in Caller : at'[d] = "idle" <=> at[d] = "idle"
  BY DEF Goto, IInv, CohortType
<1> QED BY <1>1, CountKept

LEMMA ProceedCounted ==
    ASSUME IInv, BInv, NEW c \in Caller, Proceed(c) \/ Fail(c) \/ Leave(c), ~Return(c)
    PROVE  BInv'
<1>1. BooksTyped' /\ UNCHANGED <<leases, manager>>
  <2>1. UNCHANGED <<leases, manager, calls, crashes>>
    BY DEF Proceed, Fail, Take, Conflict, LifetimeInUse, Refused, Expire, Truncate, Write, Read,
       ReadFails, Pass, Quiesce, Unwind, EndMutation, TakeFails, WriteFails, PassFails,
       UnwindFails, StaysRegistered, Leave
  <2>2. faults' = faults \/ faults' = faults + 1
    BY DEF Fault, Proceed, Fail, Take, Conflict, LifetimeInUse, Refused, Expire, Truncate, Write,
       Read, ReadFails, Pass, Quiesce, Unwind, EndMutation, TakeFails, WriteFails, PassFails,
       UnwindFails, Leave
  <2>3. late' = late \/ late' = [late EXCEPT ![c] = FALSE]
    BY DEF Proceed, Fail, Take, Conflict, LifetimeInUse, Refused, Expire, Truncate, Write, Read,
       ReadFails, Pass, Quiesce, Unwind, EndMutation, TakeFails, WriteFails, PassFails,
       UnwindFails, Leave
  <2>4. late' \in [Caller -> BOOLEAN]
    BY <2>3 DEF BInv, BooksTyped
  <2>5. faults' \in Nat
    BY <2>2 DEF BInv, BooksTyped
  <2> QED BY <2>1, <2>4, <2>5 DEF BInv, BooksTyped
<1>2. CASE Unwind(c) \/ UnwindFails(c)
  BY <1>1, <1>2, CountKept DEF Unwind, UnwindFails
<1>3. CASE ~(Unwind(c) \/ UnwindFails(c))
  <2>1. \A w \in Wanted \cup Passed : w.phase # "idle" /\ w.next # "idle"
    BY WantedRow, PassedRow
  <2>2. at[c] # "idle"
    BY <1>3, <2>1 DEF Proceed, Fail, Take, Conflict, ConflictIfBusy, LifetimeInUse, Refused,
       Expire, Truncate, Write, Read, ReadFails, Pass, Quiesce, EndMutation, TakeFails,
       WriteFails, PassFails, Leave, Wanted
  <2>3. \E q : q # "idle" /\ Goto(c, q)
    BY <1>3, <2>1 DEF Proceed, Fail, Take, Conflict, LifetimeInUse, Refused, Expire, Truncate,
       Write, Read, ReadFails, Pass, Quiesce, EndMutation, TakeFails, WriteFails, PassFails,
       Leave, AfterWriteFailure, Unwinding
  <2> QED BY <1>1, <2>2, <2>3, GoesOn
<1> QED BY <1>2, <1>3

LEMMA BeginCounted ==
    ASSUME IInv, BInv, NEW c \in Caller, NEW ph, NEW b, ph # "idle", Begin(c, ph, b)
    PROVE  BInv'
<1> DEFINE h == Home[c]
<1>1. /\ at[c] = "idle" /\ manager[h] /\ h \in Proc /\ at' = [at EXCEPT ![c] = ph]
      /\ leases' = [leases EXCEPT ![h] = @ + 1]
      /\ BooksTyped' /\ manager' = manager
  BY HomeAssumption DEF BInv, BooksTyped, Begin, Goto
<1>2. Registered(h)' = Registered(h) \cup {c} /\ c \notin Registered(h)
  BY <1>1 DEF Registered, IInv, CohortType
<1>3. \A p \in Proc \ {h} : Registered(p)' = Registered(p)
  BY <1>1 DEF Registered, IInv, CohortType
<1>4. IsFiniteSet(Registered(h)) /\ leases[h] = Cardinality(Registered(h))
  BY <1>1 DEF BInv, Counted
<1>5. Counted(h)'
  <2>1. /\ IsFiniteSet(Registered(h) \cup {c})
        /\ Cardinality(Registered(h) \cup {c}) = Cardinality(Registered(h)) + 1
    BY <1>2, <1>4, FS_AddElement
  <2>2. leases'[h] = leases[h] + 1
    BY <1>1 DEF BInv, BooksTyped
  <2> QED BY <1>1, <1>2, <1>4, <2>1, <2>2 DEF Counted
<1>6. \A p \in Proc \ {h} : Counted(p)'
  BY <1>1, <1>3 DEF BInv, BooksTyped, Counted
<1> QED BY <1>1, <1>5, <1>6 DEF BInv

LEMMA ReturnCounted ==
    ASSUME IInv, BInv, NEW c \in Caller, Return(c)
    PROVE  BInv'
<1> DEFINE h == Home[c]
<1>1. /\ at[c] = "unwind" /\ h \in Proc /\ at' = [at EXCEPT ![c] = "idle"]
      /\ leases' = [leases EXCEPT ![h] = @ - 1]
      /\ late' \in [Caller -> BOOLEAN] /\ UNCHANGED <<manager, calls, faults, crashes>>
  BY HomeAssumption DEF BInv, BooksTyped, Return, Goto
<1>2. Registered(h)' = Registered(h) \ {c} /\ c \in Registered(h)
  BY <1>1 DEF Registered, IInv, CohortType
<1>3. \A p \in Proc \ {h} : Registered(p)' = Registered(p)
  BY <1>1 DEF Registered, IInv, CohortType
<1>4. /\ IsFiniteSet(Registered(h)) /\ leases[h] = Cardinality(Registered(h))
      /\ leases \in [Proc -> Nat]
  BY <1>1 DEF BInv, BooksTyped, Counted
<1>5. /\ IsFiniteSet(Registered(h) \ {c})
      /\ Cardinality(Registered(h) \ {c}) = Cardinality(Registered(h)) - 1
      /\ Cardinality(Registered(h) \ {c}) \in Nat
  BY <1>2, <1>4, FS_RemoveElement, FS_CardinalityType
<1>6. leases'[h] = leases[h] - 1 /\ leases' \in [Proc -> Nat]
  BY <1>1, <1>4, <1>5
<1>7. Counted(h)'
  BY <1>1, <1>2, <1>4, <1>5, <1>6 DEF Counted, BInv
<1>8. \A p \in Proc \ {h} : Counted(p)'
  BY <1>1, <1>3, <1>4 DEF BInv, Counted
<1>9. BooksTyped'
  BY <1>1, <1>6 DEF BInv, BooksTyped
<1> QED BY <1>7, <1>8, <1>9 DEF BInv

LEMMA CrashCounted ==
    ASSUME IInv, BInv, NEW p \in Proc, Crash(p)
    PROVE  BInv'
<1>1. BooksTyped'
  <2>1. late' \in [Caller -> BOOLEAN]
    BY DEF BInv, BooksTyped, Crash
  <2>2. manager' \in [Proc -> BOOLEAN]
    BY DEF BInv, BooksTyped, Crash
  <2>3. leases' \in [Proc -> Nat]
    BY DEF BInv, BooksTyped, Crash
  <2>4. calls' \in Nat /\ faults' \in Nat /\ crashes' \in Nat
    BY DEF BInv, BooksTyped, Crash
  <2> QED BY <2>1, <2>2, <2>3, <2>4 DEF BooksTyped
<1>2. Registered(p)' = {} /\ leases'[p] = 0
  BY DEF Registered, Crash, BInv, BooksTyped
<1>3. Counted(p)'
  BY <1>2, FS_EmptySet DEF Counted
<1>4. ASSUME NEW q \in Proc \ {p} PROVE Counted(q)'
  <2>1. Registered(q)' = Registered(q)
    BY DEF Registered, Crash
  <2>2. leases'[q] = leases[q] /\ manager'[q] = manager[q]
    BY DEF Crash, BInv, BooksTyped
  <2> QED BY <2>1, <2>2 DEF BInv, Counted
<1> QED BY <1>1, <1>3, <1>4 DEF BInv

LEMMA ManagerCounted ==
    ASSUME IInv, BInv, NEW p \in Proc, ManagerNew(p) \/ ManagerFree(p)
    PROVE  BInv'
<1>1. BooksTyped' /\ UNCHANGED <<at, leases>>
  BY DEF BInv, BooksTyped, ManagerNew, ManagerFree
<1>2. \A q \in Proc : Registered(q)' = Registered(q)
  BY <1>1 DEF Registered
<1>3. ManagerFree(p) => Registered(p) = {}
  BY FS_EmptySet DEF ManagerFree, CanFree, BInv, Counted
<1>4. \A q \in Proc : ~manager'[q] => ~manager[q] \/ (q = p /\ ManagerFree(p))
  BY DEF ManagerNew, ManagerFree, BInv, BooksTyped
<1> QED BY <1>1, <1>2, <1>3, <1>4 DEF BInv, Counted

LEMMA NextCounted == IInv /\ BInv /\ [Next]_vars => BInv'
<1> SUFFICES ASSUME IInv, BInv, [Next]_vars PROVE BInv'
  OBVIOUS
<1>1. ASSUME NEW c \in Caller, Proceed(c) \/ Fail(c) \/ Leave(c) PROVE BInv'
  BY <1>1, ProceedCounted, ReturnCounted
<1>2. ASSUME NEW c \in Caller, Start(c) PROVE BInv'
  <2>1. CASE DaemonClaim(c)
    <3>1. BooksTyped' /\ UNCHANGED <<leases, manager>>
      BY <2>1 DEF BInv, BooksTyped, DaemonClaim
    <3> QED BY <2>1, <3>1, GoesOn DEF DaemonClaim
  <2> QED
    BY <1>2, <2>1, BeginCounted
    DEF Start, Acquire, Reserve, MaintenancePresence, DaemonClaimPresence
<1>3. ASSUME NEW c \in Caller, DeadlinePasses(c) PROVE BInv'
  <2>1. BooksTyped' /\ UNCHANGED <<at, leases, manager>>
    BY <1>3 DEF BInv, BooksTyped, DeadlinePasses
  <2> QED BY <2>1, CountKept
<1>4. ASSUME NEW p \in Proc, ManagerNew(p) \/ ManagerFree(p) \/ Crash(p) PROVE BInv'
  BY <1>4, ManagerCounted, CrashCounted
<1>5. CASE UNCHANGED vars
  <2>1. BooksTyped' /\ UNCHANGED <<at, leases, manager>>
    BY <1>5 DEF BInv, BooksTyped, vars
  <2> QED BY <2>1, CountKept
<1> QED BY <1>1, <1>2, <1>3, <1>4, <1>5 DEF Next

THEOREM BooksRight == Spec => []BInv
<1>1. Init => BInv
  BY FS_EmptySet DEF Init, BInv, BooksTyped, Counted, Registered
<1> QED BY <1>1, NextCounted, Invariance, PTL DEF Spec

\* The count of leases, in particular, is never decremented below zero, however often
\* a failed release is repeated.
THEOREM TypeCorrect == Spec => []TypeOK
<1>1. Init => CInv
  BY DEF Init, CInv, Mine, Answer, File
<1>2. IInv /\ CInv /\ BInv => TypeOK
  BY DEF IInv, CohortType, CInv, BInv, BooksTyped, TypeOK
<1> QED BY <1>1, <1>2, NextMine, Invariance, BooksRight, PTL DEF Spec

\* A manager with a lease, also one whose release has failed, is not freed.
THEOREM ManagersOutlast == Spec => []ManagerOutlasts
<1>1. BInv => ManagerOutlasts
  BY HomeAssumption DEF BInv, Counted, Registered, ManagerOutlasts
<1> QED BY <1>1, BooksRight, PTL

\* All four: what admission relies on between its steps.
THEOREM CohortSafe == Spec => []CohortSound
BY RecordSafe, MutationExclusive, Nesting, ManagersOutlast, PTL DEF CohortSound
=============================================================================
