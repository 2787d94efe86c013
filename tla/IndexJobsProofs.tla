-------------------------- MODULE IndexJobsProofs --------------------------
(***************************************************************************)
(* The application's books are right, and whoever writes a project's data  *)
(* inside one daemon writes it alone, for every number of sessions, daemon *)
(* threads, projects and jobs, and every bound on requests, calls,         *)
(* cancellations and failures.                                             *)
(*                                                                         *)
(* Writers: a job becomes hot (past the gate) only while no mutation of    *)
(* its project is reserved, a mutation is reserved only while no job of    *)
(* its project is active, and every critical section that touches jobs for *)
(* other reasons is calm: it neither heats a job nor moves it to another   *)
(* project.  That one project has one active job is needed to tell hot     *)
(* jobs by their projects, as the gate of ProjectGate does.  A step is     *)
(* shown to be Fine: it keeps the invariant IInv, and it is a step of      *)
(* ProjectGate or changes nothing that the gate sees.                      *)
(*                                                                         *)
(* Books: every reference to a job is firm (a request, an auto-index       *)
(* owner, a thread between admission and ownership), loose (a disconnect   *)
(* or a watch, which do not keep a job from being cancelled) or a wait.    *)
(* Tally relates the jobs to three functions that count them; each         *)
(* operation on jobs (Drop, Reap, Subscribe, ...) is a lemma about Tally   *)
(* for all counts, and each critical section moves the counts as much as   *)
(* it moves the references (Books).  That needs to know where the          *)
(* references are (Places), that sessions which are gone hold none (OInv), *)
(* and, for wake-ups and cancellations, TInv, Modest and Waker.            *)
(*                                                                         *)
(* Watchers: a job has waiters exactly while the watcher waits for it, so  *)
(* it is the only one that sessions own by watching (Pinned); a step that  *)
(* changes who watches its project changes its owners alike (Retied).      *)
(***************************************************************************)
EXTENDS IndexJobs, FiniteSetTheorems, SequenceTheorems, TLAPS

Hot == {"attempt", "launch", "running", "ended"}

\* A record with the fields of a job, whatever their values.
IsJob(r) ==
    r \in [project : {r.project}, args : {r.args}, phase : {r.phase}, subs : {r.subs},
           waiters : {r.waiters}, cancel : {r.cancel}, killed : {r.killed},
           verdict : {r.verdict}, round : {r.round}, isolated : {r.isolated}]

Storage(js) == js = [j \in Jobs |-> js[j]] /\ \A j \in Jobs : IsJob(js[j])

\* Active jobs are jobs of a project, one of each.
JobsInv(js) ==
    /\ Storage(js)
    /\ \A j \in Active(js) : js[j].project \in Projects
    /\ \A i, j \in Active(js) : js[i].project = js[j].project => i = j

\* What a thread is about to reserve, and what it has reserved.
ThreadsInv ==
    /\ pc \in [Actors -> RequestPc]
    /\ todo \in [Actors -> Seq(Keys)]
    /\ want \in [Sessions -> [kind : Kinds \cup {"none"}, project : Projects, args : Options]]
    /\ muts \subseteq [owner : Actors, key : Keys, phase : {"reserved", "held", "releasing"}]
    /\ \A a \in Actors : pc[a] \in {"reserve", "lock"} => todo[a] # <<>>
    /\ \A a \in Actors : pc[a] = "lock"
            => [owner |-> a, key |-> Head(todo[a]), phase |-> "reserved"] \in muts
    /\ \A s \in Sessions : pc[s] = "entry" /\ want[s].kind = "mutate" => todo[s] # <<>>

IInv == JobsInv(jobs) /\ ThreadsInv /\ WriterAlone

-----------------------------------------------------------------------------
(* Steps of jobs that cannot matter to mutations.                          *)

\* Jobs keep their phases and projects, but finished ones may be freed.
Kept(js, js2) ==
    /\ Storage(js2)
    /\ \A j \in Jobs :
        \/ js2[j].phase = js[j].phase /\ js2[j].project = js[j].project
        \/ js[j].phase = "terminal" /\ js2[j].phase = "free"

\* No job becomes hot, cools down or, being hot, changes its project.
Calm(js, js2) ==
    \A j \in Jobs : js[j].phase \in Hot \/ js2[j].phase \in Hot
        => js2[j].phase = js[j].phase /\ js2[j].project = js[j].project

LEMMA KeptReflexive == ASSUME NEW js, Storage(js) PROVE Kept(js, js)
BY DEF Kept

LEMMA KeptTransitive ==
    ASSUME NEW js, NEW js2, NEW js3, Kept(js, js2), Kept(js2, js3)
    PROVE  Kept(js, js3)
BY DEF Kept

LEMMA KeptCalm ==
    ASSUME NEW js, NEW js2, JobsInv(js), Kept(js, js2)
    PROVE  JobsInv(js2) /\ Calm(js, js2)
BY DEF Kept, JobsInv, Calm, Active, Hot

LEMMA CalmTransitive ==
    ASSUME NEW js, NEW js2, NEW js3, Calm(js, js2), Calm(js2, js3)
    PROVE  Calm(js, js3)
BY DEF Calm

\* A change of counters and flags leaves the record of a job one.
LEMMA Fields ==
    ASSUME NEW r, IsJob(r), NEW v
    PROVE  /\ IsJob([r EXCEPT !.subs = v])
           /\ [r EXCEPT !.subs = v].phase = r.phase
           /\ [r EXCEPT !.subs = v].project = r.project
           /\ IsJob([r EXCEPT !.cancel = v])
           /\ [r EXCEPT !.cancel = v].phase = r.phase
           /\ [r EXCEPT !.cancel = v].project = r.project
           /\ IsJob([r EXCEPT !.waiters = v])
           /\ [r EXCEPT !.waiters = v].phase = r.phase
           /\ [r EXCEPT !.waiters = v].project = r.project
BY DEF IsJob

LEMMA DropKept ==
    ASSUME NEW js, NEW n, Storage(js)
    PROVE  Kept(js, Drop(js, n))
<1> DEFINE left(j) == IF js[j].subs > n[j] THEN js[j].subs - n[j] ELSE 0
           gone(j) == js[j].cancel \/ /\ Orphaned(left(j)) /\ js[j].subs > 0 /\ n[j] > 0
                                      /\ js[j].phase # "terminal"
           js2 == [j \in Jobs |-> [js[j] EXCEPT !.subs = left(j), !.cancel = gone(j)]]
<1>1. Drop(js, n) = js2
  BY Zenon DEF Drop
<1>2. ASSUME NEW j \in Jobs
      PROVE  IsJob(js2[j]) /\ js2[j].phase = js[j].phase /\ js2[j].project = js[j].project
  <2> DEFINE x == left(j)
             y == gone(j)
  <2>1. js2[j] = [js[j] EXCEPT !.subs = x, !.cancel = y]
    OBVIOUS
  <2> HIDE DEF js2, x, y
  <2> QED BY <2>1 DEF Storage, IsJob
<1>3. js2 = [j \in Jobs |-> js2[j]]
  OBVIOUS
<1> HIDE DEF js2
<1> QED BY <1>1, <1>2, <1>3 DEF Kept, Storage

LEMMA ReapKept ==
    ASSUME NEW js, Storage(js)
    PROVE  Kept(js, Reap(js))
BY DEF Kept, Storage, IsJob, Reap, Free

LEMMA CancelAllKept ==
    ASSUME NEW js, Storage(js)
    PROVE  Kept(js, CancelAll(js))
BY Fields DEF Kept, Storage, CancelAll

\* A job that is admitted: the first active one of its project.
Admitted(js, js2) ==
    \E j \in Jobs, p \in Projects, o \in Options :
        /\ js[j].phase = "free" /\ \A i \in Active(js) : js[i].project # p
        /\ js2 = Created(js, j, p, o)

LEMMA AdmittedCalm ==
    ASSUME NEW js, NEW js2, JobsInv(js), Admitted(js, js2)
    PROVE  JobsInv(js2) /\ Calm(js, js2)
<1>1. PICK j \in Jobs, p \in Projects, o \in Options :
        /\ js[j].phase = "free" /\ \A i \in Active(js) : js[i].project # p
        /\ js2 = Created(js, j, p, o)
  BY DEF Admitted
<1> DEFINE new == [Free EXCEPT !.project = p, !.args = o, !.phase = "gate", !.subs = 1]
<1>2. IsJob(new) /\ new.project = p /\ new.phase = "gate"
  BY DEF IsJob, Free
<1>3. js2 = [js EXCEPT ![j] = new]
  BY <1>1 DEF Created
<1> HIDE DEF new
<1>4. Storage(js2)
  BY <1>2, <1>3 DEF JobsInv, Storage
<1>5. /\ js2[j].project = p /\ js2[j].phase = "gate"
      /\ \A i \in Jobs \ {j} : js2[i] = js[i]
  BY <1>2, <1>3 DEF JobsInv, Storage
<1>6. Active(js2) = Active(js) \cup {j}
  BY <1>5 DEF Active
<1>7. Calm(js, js2)
  BY <1>1, <1>5 DEF Calm, Hot
<1>8. \A i \in Active(js2) : js2[i].project \in Projects
  BY <1>5, <1>6 DEF JobsInv, Active
<1>9. \A i, k \in Active(js2) : js2[i].project = js2[k].project => i = k
  BY <1>1, <1>5, <1>6 DEF JobsInv, Active
<1> QED BY <1>4, <1>7, <1>8, <1>9 DEF JobsInv

LEMMA SubscribeCalm ==
    ASSUME NEW js, JobsInv(js), NEW p \in Projects, NEW o \in Options,
           NEW r \in Subscribe(js, p, o)
    PROVE  JobsInv(r.jobs) /\ Calm(js, r.jobs)
<1> DEFINE same == {j \in Active(js) : js[j].project = p}
           idle == {j \in Jobs : js[j].phase = "free"}
           own  == CHOOSE i \in same : TRUE
<1>1. CASE r.jobs = js
  BY <1>1 DEF Calm
<1>2. CASE ~stopping /\ same # {} /\ r.jobs = [js EXCEPT ![own].subs = @ + 1]
  <2>1. own \in Jobs
    BY <1>2 DEF Active
  <2> DEFINE x == js[own].subs + 1
  <2>2. r.jobs = [js EXCEPT ![own] = [js[own] EXCEPT !.subs = x]]
    BY <1>2
  <2> HIDE DEF own, x
  <2>3. Kept(js, r.jobs)
    BY <2>1, <2>2 DEF JobsInv, Storage, Kept, IsJob
  <2> QED BY <2>3, KeptCalm
<1>3. CASE same = {} /\ \E j \in idle : r.jobs = Created(js, j, p, o)
  <2>1. Admitted(js, r.jobs)
    BY <1>3 DEF Admitted
  <2> QED BY <2>1, AdmittedCalm
<1> DEFINE No(status) == [status |-> status, job |-> NoJob, jobs |-> js, failed |-> 0]
           grown == [js EXCEPT ![own].subs = @ + 1]
<1>4. CASE stopping
  BY <1>1, <1>4 DEF Subscribe
<1>5. CASE ~stopping /\ same # {}
  <2>1. r \in {No("CANCELLING"), No("CONFLICT"),
               [status |-> "OK", job |-> own, jobs |-> grown, failed |-> 0]}
    BY <1>5, Zenon DEF Subscribe
  <2> HIDE DEF grown
  <2>2. r.jobs = js \/ r.jobs = grown
    BY <2>1
  <2> QED BY <1>1, <1>2, <1>5, <2>2 DEF grown
<1>6. CASE ~stopping /\ same = {}
  <2>1. \/ r = No("BUSY")
        \/ r = [No("UNAVAILABLE") EXCEPT !.failed = 1]
        \/ \E j \in idle : r = [status |-> "OK", job |-> j, jobs |-> Created(js, j, p, o),
                               failed |-> 0]
    BY <1>6, Zenon DEF Subscribe
  <2>2. r.jobs = js \/ \E j \in idle : r.jobs = Created(js, j, p, o)
    BY <2>1
  <2> QED BY <1>1, <1>3, <1>6, <2>2
<1> QED BY <1>4, <1>5, <1>6

LEMMA RefreshedKept ==
    ASSUME NEW S, NEW p, NEW js, NEW ss, Storage(js)
    PROVE  Kept(js, Refreshed(S, p, js, ss).jobs)
<1> DEFINE able == {s \in S : ss[s].autoJob = NoJob /\ ~stopping /\ ~Cancelled(s)}
           gone == Watching(ss, p)
           new  == {s \in able : ~ss[s].watch}
           late == IF gone = {} THEN {} ELSE UNION {Late(js, s, p) : s \in new}
           n(j) == Cardinality({x \in late : x[2] = j})
           grown == [j \in Jobs |-> [js[j] EXCEPT !.subs = @ + n(j)]]
<1>1. \/ Refreshed(S, p, js, ss).jobs = js
      \/ Refreshed(S, p, js, ss).jobs = Drop(js, Pairs(gone))
      \/ Refreshed(S, p, js, ss).jobs = grown
  BY DEF Refreshed
<1>2. Kept(js, grown)
  <2>1. ASSUME NEW j \in Jobs
        PROVE  /\ IsJob(grown[j])
               /\ grown[j].phase = js[j].phase /\ grown[j].project = js[j].project
    <3> DEFINE x == js[j].subs + n(j)
    <3>1. grown[j] = [js[j] EXCEPT !.subs = x]
      OBVIOUS
    <3> HIDE DEF grown, x
    <3> QED BY <3>1 DEF Storage, IsJob
  <2>2. grown = [j \in Jobs |-> grown[j]]
    OBVIOUS
  <2> HIDE DEF grown
  <2> QED BY <2>1, <2>2 DEF Kept, Storage
<1> HIDE DEF grown, gone
<1> QED BY <1>1, <1>2, DropKept, KeptReflexive

-----------------------------------------------------------------------------
(* Steps.                                                                  *)

Changed(js2) == JobsInv(js2) /\ Calm(jobs, js2)

LEMMA ChangedKept ==
    ASSUME JobsInv(jobs), NEW js, NEW js2, Changed(js), Kept(js, js2)
    PROVE  Changed(js2)
BY KeptCalm, CalmTransitive DEF Changed

LEMMA ChangedSubscribe ==
    ASSUME JobsInv(jobs), NEW js, Changed(js), NEW p \in Projects, NEW o \in Options,
           NEW r \in Subscribe(js, p, o)
    PROVE  Changed(r.jobs)
BY SubscribeCalm, CalmTransitive DEF Changed

LEMMA ChangedDrop ==
    ASSUME JobsInv(jobs), NEW js, Changed(js), NEW n
    PROVE  Changed(Drop(js, n))
BY DropKept, ChangedKept DEF Changed, JobsInv

LEMMA ChangedReap ==
    ASSUME JobsInv(jobs), NEW js, Changed(js)
    PROVE  Changed(Reap(js))
BY ReapKept, ChangedKept DEF Changed, JobsInv

LEMMA ChangedCancelAll ==
    ASSUME JobsInv(jobs), NEW js, Changed(js)
    PROVE  Changed(CancelAll(js))
BY CancelAllKept, ChangedKept DEF Changed, JobsInv

LEMMA ChangedRefresh ==
    ASSUME JobsInv(jobs), NEW js, Changed(js), NEW S, NEW p, NEW ss
    PROVE  Changed(Refreshed(S, p, js, ss).jobs)
BY RefreshedKept, ChangedKept DEF Changed, JobsInv

LEMMA Unchanged == ASSUME JobsInv(jobs) PROVE Changed(jobs)
BY DEF Changed, Calm

\* The thread of an active job moves on, within or to the end of its work.
LEMMA Moved ==
    ASSUME JobsInv(jobs), NEW j \in Active(jobs), NEW r, IsJob(r),
           r.project = jobs[j].project, r.phase # "free",
           jobs' = [jobs EXCEPT ![j] = r]
    PROVE  /\ JobsInv(jobs')
           /\ jobs'[j] = r /\ \A i \in Jobs \ {j} : jobs'[i] = jobs[i]
<1>1. jobs'[j] = r /\ \A i \in Jobs \ {j} : jobs'[i] = jobs[i]
  BY DEF JobsInv, Storage, Active
<1>2. Storage(jobs')
  BY <1>1 DEF JobsInv, Storage, Active
<1>3. \A i \in Active(jobs') : i \in Active(jobs) /\ jobs'[i].project = jobs[i].project
  BY <1>1 DEF Active
<1>4. \A i \in Active(jobs') : jobs'[i].project \in Projects
  BY <1>3 DEF JobsInv
<1>5. \A i, k \in Active(jobs') : jobs'[i].project = jobs'[k].project => i = k
  BY <1>3 DEF JobsInv
<1>6. JobsInv(jobs')
  BY <1>2, <1>4, <1>5 DEF JobsInv
<1> QED BY <1>1, <1>6

\* A calm step that leaves the mutations alone keeps the writers apart.
LEMMA CalmWriters ==
    ASSUME WriterAlone, Calm(jobs, jobs'), UNCHANGED muts
    PROVE  WriterAlone'
BY DEF WriterAlone, Calm, Hot

\* A thread goes anywhere but to a reservation.
LEMMA Aside ==
    ASSUME ThreadsInv, NEW a \in Actors, NEW l \in RequestPc \ {"entry", "reserve", "lock"},
           Go(a, l), UNCHANGED <<muts, todo, want>>
    PROVE  ThreadsInv'
BY DEF ThreadsInv, Go, Actors

LEMMA Stays ==
    ASSUME ThreadsInv, UNCHANGED <<pc, muts, todo, want>>
    PROVE  ThreadsInv'
BY DEF ThreadsInv

\* What the gate sees of a state, and what it allows a step to do.
Running == {jobs[j].project : j \in {i \in Jobs : jobs[i].phase = "running"}}
Holding == {m.key : m \in {n \in muts : n.phase = "held"}}

GateStep == [Gated!Next]_<<Running, Holding>>

LEMMA CalmGate == ASSUME Calm(jobs, jobs') PROVE Running' = Running
<1>1. \A j \in Jobs : /\ jobs'[j].phase = "running" <=> jobs[j].phase = "running"
                      /\ jobs[j].phase = "running" => jobs'[j].project = jobs[j].project
  BY DEF Calm, Hot
<1> QED BY <1>1 DEF Running

LEMMA SameMuts == ASSUME UNCHANGED muts PROVE Holding' = Holding
BY DEF Holding

LEMMA CalmGateStep == ASSUME Changed(jobs'), UNCHANGED muts PROVE GateStep
BY CalmGate, SameMuts DEF GateStep, Changed

\* A step keeps the invariant, and is one of the gate or invisible to it.
Fine == IInv' /\ GateStep

LEMMA CalmInv ==
    ASSUME IInv, Changed(jobs'), UNCHANGED muts, ThreadsInv'
    PROVE  Fine
<1>1. IInv'
  BY CalmWriters DEF IInv, Changed
<1> QED BY <1>1, CalmGateStep DEF Fine

LEMMA InitInv == Init => IInv
<1> SUFFICES ASSUME Init PROVE IInv
  OBVIOUS
<1>1. JobsInv(jobs)
  BY DEF Init, JobsInv, Storage, Active, IsJob, Free
<1>2. ThreadsInv
  <2>1. Default \in Options /\ \A s \in Sessions : Home[s] \in Projects
    BY NamesAssumption
  <2> QED BY <2>1 DEF Init, ThreadsInv, RequestPc
<1>3. WriterAlone
  BY DEF Init, WriterAlone, Free
<1> QED BY <1>1, <1>2, <1>3 DEF IInv

LEMMA RequestInv ==
    ASSUME IInv, NEW s \in Sessions,
           Enter(s) \/ Admit(s) \/ Parked(s) \/ Confirm(s) \/ Await(s) \/ RefreshWatch(s)
             \/ Complete(s) \/ Background(s) \/ AutoAdmit(s) \/ RefreshAgain(s)
    PROVE  Fine
<1> USE DEF IInv
<1>1. s \in Actors /\ Changed(jobs) /\ JobsInv(jobs)
  BY Unchanged DEF Actors
<1>2. CASE Enter(s)
  <2>1. CASE pc' = [pc EXCEPT ![s] = "reserve"] /\ want[s].kind = "mutate"
    <3>1. ThreadsInv'
      BY <1>1, <1>2, <2>1 DEF Enter, ThreadsInv, mutation, RequestPc
    <3> QED BY <1>1, <1>2, <3>1, CalmInv DEF Enter, mutation
  <2>2. CASE \E l \in {"idle", "complete", "index", "refresh"} : Go(s, l)
    <3>1. ThreadsInv'
      BY <1>1, <1>2, <2>2, Aside DEF Enter, mutation, RequestPc
    <3> QED BY <1>1, <1>2, <3>1, CalmInv DEF Enter, mutation
  <2> QED BY <1>2, <2>1, <2>2 DEF Enter, Go
<1>3. CASE Admit(s)
  <2>1. PICK r \in Subscribe(Reap(jobs), want[s].project, want[s].args) :
          /\ jobs' = r.jobs
          /\ Go(s, CASE r.status = "OK" -> "admitted"
                     [] r.status \in {"BUSY", "CANCELLING"} -> "parked"
                     [] OTHER -> "refresh")
    BY <1>3 DEF Admit
  <2>2. want[s].project \in Projects /\ want[s].args \in Options
    BY DEF ThreadsInv
  <2>3. Changed(jobs')
    BY <1>1, <2>1, <2>2, ChangedReap, ChangedSubscribe
  <2>4. \E l \in {"admitted", "parked", "refresh"} : Go(s, l)
    BY <2>1
  <2>5. ThreadsInv'
    BY <1>1, <1>3, <2>4, Aside DEF Admit, mutation, RequestPc
  <2> QED BY <1>3, <2>3, <2>5, CalmInv DEF Admit, mutation
<1>4. CASE Parked(s)
  <2>1. \E l \in {"refresh", "index"} : Go(s, l)
    BY <1>4 DEF Parked
  <2>2. ThreadsInv'
    BY <1>1, <1>4, <2>1, Aside DEF Parked, mutation, RequestPc
  <2> QED BY <1>1, <1>4, <2>2, CalmInv DEF Parked, mutation
<1>5. CASE Confirm(s)
  <2>1. \E l \in {"refresh", "waiting"} : Go(s, l)
    BY <1>5 DEF Confirm, Confirmed
  <2>2. ThreadsInv'
    BY <1>1, <1>5, <2>1, Aside DEF Confirm, mutation, RequestPc
  <2>3. Changed(jobs')
    BY <1>1, <1>5, ChangedDrop DEF Confirm, Confirmed
  <2> QED BY <1>5, <2>2, <2>3, CalmInv DEF Confirm, mutation
<1>6. CASE Await(s)
  <2>1. ThreadsInv'
    BY <1>1, <1>6, Aside DEF Await, mutation, RequestPc
  <2>2. Changed(jobs')
    BY <1>1, <1>6, ChangedDrop, ChangedReap DEF Await
  <2> QED BY <1>6, <2>1, <2>2, CalmInv DEF Await, mutation
<1>7. CASE RefreshWatch(s)
  <2>1. ThreadsInv'
    BY <1>1, <1>7, Aside DEF RefreshWatch, mutation, RequestPc
  <2>2. Changed(jobs')
    BY <1>1, <1>7, ChangedRefresh DEF RefreshWatch, Refresh
  <2> QED BY <1>7, <2>1, <2>2, CalmInv DEF RefreshWatch, mutation
<1>8. CASE Complete(s)
  <2>1. \E l \in {"background", "idle"} : Go(s, l)
    BY <1>8 DEF Complete
  <2>2. ThreadsInv'
    BY <1>1, <1>8, <2>1, Aside DEF Complete, mutation, RequestPc
  <2> QED BY <1>1, <1>8, <2>2, CalmInv DEF Complete, mutation
<1>9. CASE Background(s)
  <2>1. ThreadsInv'
    BY <1>1, <1>9, Aside DEF Background, mutation, RequestPc
  <2>2. Changed(jobs')
    BY <1>1, <1>9, ChangedReap DEF Background
  <2> QED BY <1>9, <2>1, <2>2, CalmInv DEF Background, mutation
<1>10. CASE AutoAdmit(s)
  <2>1. \E l \in {"again", "idle"} : Go(s, l)
    BY <1>10 DEF AutoAdmit
  <2>2. ThreadsInv'
    BY <1>1, <1>10, <2>1, Aside DEF AutoAdmit, mutation, RequestPc
  <2>3. jobs' = jobs \/ \E r \in Subscribe(jobs, Home[s], Default) : jobs' = r.jobs
    BY <1>10 DEF AutoAdmit
  <2>4. Changed(jobs')
    BY <1>1, <2>3, ChangedSubscribe, NamesAssumption
  <2> QED BY <1>10, <2>2, <2>4, CalmInv DEF AutoAdmit, mutation
<1>11. CASE RefreshAgain(s)
  <2>1. ThreadsInv'
    BY <1>1, <1>11, Aside DEF RefreshAgain, mutation, RequestPc
  <2>2. Changed(jobs')
    BY <1>1, <1>11, ChangedRefresh DEF RefreshAgain, Refresh
  <2> QED BY <1>11, <2>1, <2>2, CalmInv DEF RefreshAgain, mutation
<1> QED BY <1>2, <1>3, <1>4, <1>5, <1>6, <1>7, <1>8, <1>9, <1>10, <1>11

LEMMA ReleaseChanged ==
    ASSUME JobsInv(jobs), NEW s \in Sessions
    PROVE  Changed(Release(s).jobs)
<1> DEFINE js1  == Drop(jobs, [j \in Jobs |-> IF ses[s].activeJob = j THEN 1 ELSE 0])
           auto == ses[s].autoJob
           fin  == AutoIsFinal(js1, s)
           kill == [js1 EXCEPT ![auto].cancel = TRUE]
           drop == Drop(js1, [j \in Jobs |-> IF auto = j THEN 1 ELSE 0])
           js2  == IF fin THEN kill ELSE drop
<1>1. Changed(js1)
  BY Unchanged, ChangedDrop
<1>2. Changed(drop)
  <2> HIDE DEF js1
  <2> QED BY <1>1, ChangedDrop
<1>3. Changed(kill)
  <2> HIDE DEF js1, auto
  <2>1. Kept(js1, kill)
    BY <1>1 DEF Kept, Changed, JobsInv, Storage, IsJob
  <2> QED BY <1>1, <2>1, ChangedKept
<1>4. Changed(js2)
  BY <1>2, <1>3
<1>5. Changed(Drop(js2, Pairs({s})))
  <2> HIDE DEF js2
  <2> QED BY <1>4, ChangedDrop
<1>6. Release(s).jobs = js2 \/ Release(s).jobs = Drop(js2, Pairs({s}))
  BY DEF Release
<1> HIDE DEF js2
<1> QED BY <1>4, <1>5, <1>6

LEMMA SessionInv ==
    ASSUME IInv, NEW s \in Sessions,
           Open(s) \/ Submit(s) \/ CancelRequest(s) \/ CancelSession(s) \/ Join(s)
             \/ CloseSession(s) \/ Retry(s)
    PROVE  Fine
<1> USE DEF IInv
<1>1. s \in Actors /\ Changed(jobs) /\ JobsInv(jobs)
  BY Unchanged DEF Actors
<1>2. CASE Open(s)
  BY <1>1, <1>2, Stays, CalmInv DEF Open, mutation
<1>3. CASE Submit(s)
  <2>1. PICK k \in Kinds, p \in Projects, o \in Options :
          /\ want' = [want EXCEPT ![s] = [kind |-> k, project |-> p, args |-> o]]
          /\ IF k = "mutate" THEN \E plan \in Plans : todo' = [todo EXCEPT ![s] = plan]
             ELSE UNCHANGED todo
    BY <1>3 DEF Submit
  <2>2. \A plan \in Plans : plan \in Seq(Keys) /\ plan # <<>>
    BY PlansAssumption
  <2>3. Go(s, "entry") /\ UNCHANGED muts /\ UNCHANGED jobs
    BY <1>3 DEF Submit
  <2>4. want' \in [Sessions -> [kind : Kinds \cup {"none"}, project : Projects, args : Options]]
    BY <2>1 DEF ThreadsInv
  <2>5. /\ todo' \in [Actors -> Seq(Keys)]
        /\ \A a \in Actors \ {s} : todo'[a] = todo[a]
        /\ k = "mutate" => todo'[s] # <<>>
    BY <1>1, <2>1, <2>2 DEF ThreadsInv
  <2>6. pc' = [pc EXCEPT ![s] = "entry"] /\ pc' \in [Actors -> RequestPc]
    BY <1>1, <2>3 DEF Go, ThreadsInv, RequestPc
  <2>7. ThreadsInv'
    BY <1>1, <2>1, <2>3, <2>4, <2>5, <2>6 DEF ThreadsInv, Actors
  <2> QED BY <1>1, <2>3, <2>7, CalmInv
<1>4. CASE CancelRequest(s)
  <2>1. Changed(jobs')
    BY <1>1, <1>4, ChangedDrop DEF CancelRequest
  <2> QED BY <1>4, <2>1, Stays, CalmInv DEF CancelRequest, mutation
<1>5. CASE CancelSession(s)
  <2>1. Changed(jobs')
    BY <1>1, <1>5, ReleaseChanged, ChangedCancelAll, ChangedReap DEF CancelSession
  <2> QED BY <1>5, <2>1, Stays, CalmInv DEF CancelSession, mutation
<1>6. CASE Join(s)
  <2>1. Changed(jobs')
    BY <1>1, <1>6, ChangedDrop, ChangedReap DEF Join
  <2> QED BY <1>6, <2>1, Stays, CalmInv DEF Join, mutation
<1>7. CASE CloseSession(s)
  <2>1. Changed(jobs')
    BY <1>1, <1>7, ReleaseChanged, ChangedReap DEF CloseSession
  <2> QED BY <1>7, <2>1, Stays, CalmInv DEF CloseSession, mutation
<1>8. CASE Retry(s)
  <2>1. CASE Home[s] \in db
    BY <1>1, <1>8, <2>1, ChangedRefresh, Stays, CalmInv DEF Retry, Refresh, mutation
  <2>2. CASE Home[s] \notin db
    <3>1. PICK r \in Subscribe(jobs, Home[s], Default) : jobs' = r.jobs
      BY <1>8, <2>2 DEF Retry
    <3>2. Changed(jobs')
      BY <1>1, <3>1, ChangedSubscribe, NamesAssumption
    <3> QED BY <1>8, <3>2, Stays, CalmInv DEF Retry, mutation
  <2> QED BY <2>1, <2>2
<1> QED BY <1>2, <1>3, <1>4, <1>5, <1>6, <1>7, <1>8

LEMMA CallerInv ==
    ASSUME IInv, NEW c \in Callers, NEW p \in Projects,
           CallIndex(c, p) \/ CallMutate(c, p)
    PROVE  Fine
<1> USE DEF IInv
<1>1. c \in Actors /\ Changed(jobs) /\ JobsInv(jobs) /\ Default \in Options
  BY Unchanged, NamesAssumption DEF Actors
<1>2. CASE CallIndex(c, p)
  <2>1. ThreadsInv'
    <3>1. UNCHANGED pc \/ \E l \in {"idle", "waiting"} : Go(c, l)
      BY <1>2 DEF CallIndex
    <3> QED BY <1>1, <1>2, <3>1, Aside, Stays DEF CallIndex, mutation, RequestPc
  <2>2. Changed(Reap(jobs))
    BY <1>1, ChangedReap
  <2>3. ASSUME NEW r \in Subscribe(Reap(jobs), p, Default), NEW n, NEW x, NEW y
        PROVE  /\ Changed(r.jobs)
               /\ Changed(Drop([r.jobs EXCEPT ![r.job].subs = x, ![r.job].waiters = y], n))
    <3>1. Changed(r.jobs)
      BY <1>1, <2>2, ChangedSubscribe
    <3> DEFINE js == r.jobs
               i  == r.job
               js2 == [js EXCEPT ![i].subs = x, ![i].waiters = y]
    <3>2. Kept(js, js2)
      <4>1. Storage(js)
        BY <3>1 DEF Changed, JobsInv
      <4> HIDE DEF js, i
      <4> QED BY <4>1 DEF Kept, Storage, IsJob
    <3> HIDE DEF js2
    <3>3. Changed(js2)
      BY <1>1, <3>1, <3>2, ChangedKept
    <3> QED BY <1>1, <3>1, <3>3, ChangedDrop DEF js2
  <2>4. CASE jobs' = Reap(jobs)
    BY <1>2, <2>1, <2>2, <2>4, CalmInv DEF CallIndex, mutation
  <2>5. CASE jobs' # Reap(jobs)
    <3>1. PICK r \in Subscribe(Reap(jobs), p, Default) :
            \/ jobs' = r.jobs
            \/ \E more, waits : jobs' =
                    Drop([r.jobs EXCEPT ![r.job].subs = @ + more, ![r.job].waiters = @ + waits],
                         Times(r.job, Lent))
      BY <1>2, <2>5, Zenon DEF CallIndex
    <3>2. Changed(jobs')
      <4>1. CASE jobs' = r.jobs
        BY <2>3, <4>1
      <4>2. CASE jobs' # r.jobs
        <5>1. PICK more, waits : jobs' =
                  Drop([r.jobs EXCEPT ![r.job].subs = @ + more, ![r.job].waiters = @ + waits],
                       Times(r.job, Lent))
          BY <3>1, <4>2
        <5> DEFINE x == r.jobs[r.job].subs + more
                   y == r.jobs[r.job].waiters + waits
                   n == Times(r.job, Lent)
        <5>2. jobs' = Drop([r.jobs EXCEPT ![r.job].subs = x, ![r.job].waiters = y], n)
          BY <5>1, Zenon
        <5> HIDE DEF x, y, n
        <5> QED BY <2>3, <5>2
      <4> QED BY <4>1, <4>2
    <3> QED BY <1>2, <2>1, <3>2, CalmInv DEF CallIndex, mutation
  <2> QED BY <2>4, <2>5
<1>3. CASE CallMutate(c, p)
  <2>1. <<p>> \in Seq(Keys) /\ <<p>> # <<>>
    BY DEF Keys
  <2>2. /\ pc' \in [Actors -> RequestPc] /\ todo' \in [Actors -> Seq(Keys)]
        /\ pc'[c] = "reserve" /\ todo'[c] = <<p>>
        /\ \A a \in Actors \ {c} : pc'[a] = pc[a] /\ todo'[a] = todo[a]
    BY <1>1, <1>3, <2>1 DEF CallMutate, Go, ThreadsInv, RequestPc
  <2>3. UNCHANGED <<muts, want, jobs>>
    BY <1>3 DEF CallMutate
  <2>4. ThreadsInv'
    BY <1>1, <2>1, <2>2, <2>3 DEF ThreadsInv, Actors
  <2> QED BY <1>1, <2>3, <2>4, CalmInv
<1> QED BY <1>2, <1>3

LEMMA CallDoneInv == ASSUME IInv, NEW c \in Callers, CallDone(c) PROVE Fine
<1> USE DEF IInv
<1>1. c \in Actors /\ Changed(jobs) /\ JobsInv(jobs)
  BY Unchanged DEF Actors
<1>2. ThreadsInv'
  BY <1>1, Aside DEF CallDone, mutation, RequestPc
<1>3. ASSUME NEW i, NEW n, NEW x
      PROVE  Changed([Drop(jobs, n) EXCEPT ![i].waiters = x])
  <2> DEFINE js == Drop(jobs, n)
             js2 == [js EXCEPT ![i].waiters = x]
  <2>1. Changed(js)
    BY <1>1, ChangedDrop
  <2> HIDE DEF js
  <2>2. Kept(js, js2)
    BY <2>1 DEF Changed, JobsInv, Kept, Storage, IsJob
  <2>3. Changed(js2)
    BY <1>1, <2>1, <2>2, ChangedKept
  <2> QED BY <2>3 DEF js
<1>4. Changed(jobs')
  BY <1>1, <1>3, ChangedDrop, ChangedReap DEF CallDone
<1> QED BY <1>2, <1>4, CalmInv DEF CallDone, mutation

LEMMA DaemonInv == ASSUME IInv, Pruned \/ Shutdown \/ Drained PROVE Fine
<1> USE DEF IInv
<1>1. Changed(jobs) /\ JobsInv(jobs)
  BY Unchanged
<1>2. CASE Pruned
  <2>1. Watcher \in Actors
    BY <1>2 DEF Pruned, Actors
  <2>2. ThreadsInv'
    BY <1>2, <2>1, Aside DEF Pruned, mutation, RequestPc
  <2>3. Changed(jobs')
    BY <1>1, <1>2, ChangedDrop DEF Pruned
  <2> QED BY <1>2, <2>2, <2>3, CalmInv DEF Pruned, mutation
<1>3. CASE Shutdown
  <2>1. Changed(jobs')
    BY <1>1, <1>3, ChangedDrop, ChangedCancelAll DEF Shutdown
  <2> QED BY <1>3, <2>1, Stays, CalmInv DEF Shutdown, mutation
<1>4. CASE Drained
  BY <1>1, <1>4, ChangedReap, Stays, CalmInv DEF Drained, mutation
<1> QED BY <1>2, <1>3, <1>4

\* The thread of a job heats it at most at the gate.
LEMMA MovedInv ==
    ASSUME IInv, NEW j \in Active(jobs), NEW r, IsJob(r), r.project = jobs[j].project,
           r.phase # "free", r.phase \in Hot => jobs[j].phase \in Hot \/ MayPass(j),
           jobs' = [jobs EXCEPT ![j] = r], UNCHANGED <<mutation, pc, want>>
    PROVE  IInv'
<1>1. /\ JobsInv(jobs')
      /\ jobs'[j] = r /\ \A i \in Jobs \ {j} : jobs'[i] = jobs[i]
  BY Moved DEF IInv
<1>2. ThreadsInv'
  BY Stays DEF IInv, mutation
<1>3. ASSUME NEW i \in Jobs, NEW m \in muts, jobs'[i].phase \in Hot
      PROVE  ~Conflict(m.key, jobs'[i].project)
  <2>1. CASE i = j
    BY <1>1, <1>3, <2>1 DEF IInv, WriterAlone, MayPass, Hot
  <2>2. CASE i # j
    BY <1>1, <1>3, <2>2 DEF IInv, WriterAlone, Hot
  <2> QED BY <2>1, <2>2
<1>4. WriterAlone'
  BY <1>3 DEF WriterAlone, Hot, IInv, mutation
<1> QED BY <1>1, <1>2, <1>4 DEF IInv

\* How the thread of a job may change its record.
Progress(j, r) ==
    /\ IsJob(r) /\ r.project = jobs[j].project /\ r.phase \notin {"free", "terminal"}
    /\ jobs[j].phase \notin {"free", "terminal"}
    /\ r.phase \in Hot => jobs[j].phase \in Hot \/ MayPass(j)
    /\ (jobs[j].phase = "running" /\ r.phase = "running")
         \/ (jobs[j].phase = "launch" /\ r.phase = "running")
         \/ r.phase # "running"
    /\ jobs' = [jobs EXCEPT ![j] = r]

LEMMA VerdictMoves ==
    ASSUME JobsInv(jobs), NEW j \in Active(jobs), NEW v, Verdict(j, v)
    PROVE  \E r : Progress(j, r)
<1> DEFINE r == [jobs[j] EXCEPT !.phase = "publish", !.verdict = v]
<1>1. jobs' = [jobs EXCEPT ![j] = r]
  BY DEF Verdict
<1>2. IsJob(r) /\ r.project = jobs[j].project /\ r.phase = "publish"
  BY DEF JobsInv, Storage, IsJob, Active
<1> HIDE DEF r
<1> QED BY <1>1, <1>2 DEF Progress, Hot, Active

LEMMA StepMoves ==
    ASSUME JobsInv(jobs), NEW j \in Active(jobs), NEW ph \in {"attempt", "launch"}, Step(j, ph),
           jobs[j].phase \in Hot \/ MayPass(j)
    PROVE  \E r : Progress(j, r)
<1> DEFINE r == [jobs[j] EXCEPT !.phase = ph]
<1>1. jobs' = [jobs EXCEPT ![j] = r]
  BY DEF Step
<1>2. IsJob(r) /\ r.project = jobs[j].project /\ r.phase = ph
  BY DEF JobsInv, Storage, IsJob, Active
<1> HIDE DEF r
<1> QED BY <1>1, <1>2 DEF Progress, Hot, Active

LEMMA ConcludedMoves ==
    ASSUME JobsInv(jobs), NEW j \in Jobs, jobs[j].phase \in {"launch", "ended"},
           NEW v, Concluded(j, v)
    PROVE  \E r : Progress(j, r)
<1>1. CASE Verdict(j, v)
  BY <1>1, VerdictMoves DEF Active
<1>2. CASE jobs' = [jobs EXCEPT ![j].phase = "attempt", ![j].round = MaxRestarts + 1]
  <2> DEFINE n == MaxRestarts + 1
             r == [jobs[j] EXCEPT !.phase = "attempt", !.round = n]
  <2>1. jobs' = [jobs EXCEPT ![j] = r]
    BY <1>2
  <2> HIDE DEF n
  <2>2. IsJob(r) /\ r.project = jobs[j].project /\ r.phase = "attempt"
    BY DEF JobsInv, Storage, IsJob
  <2> HIDE DEF r
  <2> QED BY <2>1, <2>2 DEF Progress, Hot
<1> QED BY <1>1, <1>2 DEF Concluded

LEMMA JobMoves ==
    ASSUME JobsInv(jobs), NEW j \in Jobs,
           Gate(j) \/ Attempt(j) \/ Launch(j) \/ Kill(j) \/ WorkerEnds(j) \/ Settle(j)
    PROVE  (\E r : Progress(j, r)) /\ UNCHANGED <<mutation, pc, want>>
<1>1. UNCHANGED <<mutation, pc, want>>
  BY DEF Gate, Attempt, Launch, Kill, WorkerEnds, Settle, JobFrame
<1>2. IsJob(jobs[j])
  BY DEF JobsInv, Storage
<1>3. CASE Gate(j)
  <2>1. j \in Active(jobs)
    BY <1>3 DEF Gate, Active
  <2> QED BY <1>1, <1>3, <2>1, VerdictMoves, StepMoves DEF Gate
<1>4. CASE Attempt(j)
  <2>1. j \in Active(jobs) /\ jobs[j].phase \in Hot
    BY <1>4 DEF Attempt, Active, Hot
  <2> QED BY <1>1, <1>4, <2>1, VerdictMoves, StepMoves DEF Attempt
<1>5. CASE Launch(j)
  <2>1. j \in Active(jobs) /\ jobs[j].phase = "launch"
    BY <1>5 DEF Launch, Active
  <2>2. CASE jobs' = [jobs EXCEPT ![j].phase = "running", ![j].killed = Stopped(j)]
    <3> DEFINE v == Stopped(j)
               r == [jobs[j] EXCEPT !.phase = "running", !.killed = v]
    <3>1. jobs' = [jobs EXCEPT ![j] = r]
      BY <2>2
    <3> HIDE DEF v
    <3>2. IsJob(r) /\ r.project = jobs[j].project /\ r.phase = "running"
      BY <1>2 DEF IsJob
    <3> HIDE DEF r
    <3> QED BY <1>1, <2>1, <3>1, <3>2 DEF Progress, Hot
  <2> QED BY <1>1, <1>5, <2>1, <2>2, VerdictMoves, ConcludedMoves DEF Launch
<1>6. CASE Kill(j)
  <2> DEFINE r == [jobs[j] EXCEPT !.killed = TRUE]
  <2>1. jobs' = [jobs EXCEPT ![j] = r] /\ jobs[j].phase = "running"
    BY <1>6 DEF Kill
  <2>2. IsJob(r) /\ r.project = jobs[j].project /\ r.phase = jobs[j].phase
    BY <1>2 DEF IsJob
  <2> HIDE DEF r
  <2> QED BY <1>1, <2>1, <2>2 DEF Progress, Hot
<1>7. CASE WorkerEnds(j)
  <2>1. PICK v \in {"success", "crash", "unsafe", "failure"} :
          jobs' = [jobs EXCEPT ![j].phase = "ended", ![j].killed = FALSE,
                               ![j].verdict = IF Stopped(j) THEN "cancelled" ELSE v]
    BY <1>7 DEF WorkerEnds
  <2> DEFINE w == IF Stopped(j) THEN "cancelled" ELSE v
             r == [jobs[j] EXCEPT !.phase = "ended", !.killed = FALSE, !.verdict = w]
  <2>2. jobs' = [jobs EXCEPT ![j] = r] /\ jobs[j].phase = "running"
    BY <1>7, <2>1 DEF WorkerEnds
  <2> HIDE DEF w
  <2>3. IsJob(r) /\ r.project = jobs[j].project /\ r.phase = "ended"
    BY <1>2 DEF IsJob
  <2> HIDE DEF r
  <2> QED BY <1>1, <2>2, <2>3 DEF Progress, Hot
<1>8. CASE Settle(j)
  <2>1. j \in Active(jobs) /\ jobs[j].phase = "ended"
    BY <1>8 DEF Settle, Active
  <2>2. ASSUME NEW n, NEW x,
               jobs' = [jobs EXCEPT ![j].phase = "attempt", ![j].round = n, ![j].isolated = x]
        PROVE  \E r : Progress(j, r)
    <3> DEFINE r == [jobs[j] EXCEPT !.phase = "attempt", !.round = n, !.isolated = x]
    <3>1. jobs' = [jobs EXCEPT ![j] = r]
      BY <2>2
    <3>2. IsJob(r) /\ r.project = jobs[j].project /\ r.phase = "attempt"
      BY <1>2 DEF IsJob
    <3> HIDE DEF r
    <3> QED BY <2>1, <3>1, <3>2 DEF Progress, Hot
  <2>3. \/ \E v : Verdict(j, v)
        \/ Concluded(j, "failure")
        \/ \E n, x : jobs' = [jobs EXCEPT ![j].phase = "attempt", ![j].round = n,
                                         ![j].isolated = x]
    <3>1. CASE /\ RoundsLeft(j)
               /\ jobs' = [jobs EXCEPT ![j].phase = "attempt", ![j].round = @ + 1,
                                       ![j].isolated = @ \/ jobs[j].round > 1]
      BY <3>1, Zenon
    <3>2. CASE jobs' = [jobs EXCEPT ![j].phase = "attempt", ![j].isolated = TRUE,
                                    ![j].round = MaxRestarts + 1]
      <4> DEFINE n == MaxRestarts + 1
      <4>1. jobs' = [jobs EXCEPT ![j].phase = "attempt", ![j].round = n, ![j].isolated = TRUE]
        <5> HIDE DEF n
        <5> QED BY <1>2, <3>2 DEF n, IsJob
      <4> QED BY <4>1, Zenon
    <3> QED BY <1>8, <3>1, <3>2, Zenon DEF Settle
  <2> QED BY <1>1, <2>1, <2>2, <2>3, VerdictMoves, ConcludedMoves
<1> QED BY <1>3, <1>4, <1>5, <1>6, <1>7, <1>8, <1>1

LEMMA PublishChanged ==
    ASSUME JobsInv(jobs), NEW j \in Jobs, Publish(j)
    PROVE  Changed(jobs')
<1> DEFINE r   == [jobs[j] EXCEPT !.phase = "terminal"]
           end == [jobs EXCEPT ![j] = r]
           S   == {s \in Sessions : ses[s].autoJob = j}
           ss  == [s \in Sessions |-> IF s \in S THEN [ses[s] EXCEPT !.autoJob = NoJob]
                                      ELSE ses[s]]
           js  == Drop(end, Times(j, Cardinality(S)))
<1>1. IsJob(r) /\ r.phase = "terminal" /\ jobs[j].phase = "publish"
  BY DEF JobsInv, Storage, IsJob, Publish
<1>2. Changed(end)
  <2> HIDE DEF r
  <2>1. Storage(end)
    BY <1>1 DEF JobsInv, Storage
  <2>2. \A i \in Active(end) : i \in Active(jobs) /\ end[i] = jobs[i]
    BY <1>1 DEF Active, JobsInv, Storage
  <2>3. Calm(jobs, end)
    BY <1>1 DEF Calm, Hot, JobsInv, Storage
  <2>4. \A i \in Active(end) : end[i].project \in Projects
    BY <2>2 DEF JobsInv
  <2>5. \A i, k \in Active(end) : end[i].project = end[k].project => i = k
    BY <2>2 DEF JobsInv
  <2> QED BY <2>1, <2>3, <2>4, <2>5 DEF Changed, JobsInv
<1>3. Changed(js)
  <2> HIDE DEF end
  <2> QED BY <1>2, ChangedDrop
<1>4. jobs' = js \/ jobs' = Refreshed(S, jobs[j].project, js, ss).jobs
  BY Zenon DEF Publish, Refresh
<1> HIDE DEF js, S, ss
<1> QED BY <1>3, <1>4, ChangedRefresh

\* A worker starts, ends, or goes on.
LEMMA ProgressGate ==
    ASSUME IInv, NEW j \in Jobs, NEW r, Progress(j, r), UNCHANGED muts
    PROVE  GateStep
<1>1. /\ j \in Active(jobs) /\ jobs'[j] = r
      /\ \A i \in Jobs \ {j} : jobs'[i] = jobs[i]
  BY Moved DEF Progress, Active, IInv
<1>2. jobs[j].project \in Projects /\ r.project = jobs[j].project
  BY <1>1 DEF IInv, JobsInv, Progress
<1>3. PICK p \in Projects : p = jobs[j].project
  BY <1>2
<1>4. \A i \in Jobs \ {j} : jobs[i].phase = "running" => jobs[i].project # p
  BY <1>1, <1>3 DEF IInv, JobsInv, Active
<1>5. Holding' = Holding
  BY SameMuts
<1>6. CASE (jobs[j].phase = "running") = (r.phase = "running")
  <2>1. Running' = Running
    BY <1>1, <1>2, <1>6 DEF Running
  <2> QED BY <1>5, <2>1 DEF GateStep
<1>7. CASE jobs[j].phase = "launch" /\ r.phase = "running"
  <2>1. Running' = Running \cup {p} /\ p \notin Running
    BY <1>1, <1>2, <1>3, <1>4, <1>7 DEF Running
  <2>2. \A k \in Holding : ~Conflict(k, p)
    BY <1>3, <1>7 DEF Holding, IInv, WriterAlone
  <2>3. Gated!StartWorker(p)
    BY <1>5, <2>1, <2>2 DEF Gated!StartWorker, Gated!Conflict, Conflict, Running, Holding
  <2> QED BY <2>3 DEF GateStep, Gated!Next
<1>8. CASE jobs[j].phase = "running" /\ r.phase # "running"
  <2>1. Running' = Running \ {p} /\ p \in Running
    BY <1>1, <1>2, <1>3, <1>4, <1>8 DEF Running
  <2>2. Gated!EndWorker(p)
    BY <1>5, <2>1 DEF Gated!EndWorker, Running, Holding
  <2> QED BY <2>2 DEF GateStep, Gated!Next
<1> QED BY <1>6, <1>7, <1>8 DEF Progress

LEMMA JobInv == ASSUME IInv, NEW j \in Jobs, JobStep(j) PROVE Fine
<1>1. CASE Publish(j)
  <2>1. ThreadsInv'
    BY <1>1, Stays DEF Publish, mutation, IInv
  <2> QED BY <1>1, <2>1, PublishChanged, CalmInv DEF IInv, Publish, mutation
<1>2. CASE ~Publish(j)
  <2>1. (\E r : Progress(j, r)) /\ UNCHANGED <<mutation, pc, want>>
    BY <1>2, JobMoves DEF JobStep, JobThread, IInv
  <2>2. PICK r : Progress(j, r)
    BY <2>1
  <2>3. IInv'
    BY <2>1, <2>2, MovedInv DEF Progress, Active
  <2> QED BY <2>1, <2>2, <2>3, ProgressGate DEF Fine, mutation
<1> QED BY <1>1, <1>2

\* What is left to reserve.
LEMMA Rest ==
    ASSUME NEW S, NEW q \in Seq(S), q # <<>>
    PROVE  Tail(q) \in Seq(S) /\ (Len(q) > 1 => Tail(q) # <<>>)
<1> DEFINE t == Tail(q)
<1>1. t \in Seq(S) /\ Len(t) = Len(q) - 1 /\ Len(q) \in Nat
  BY HeadTailProperties, LenProperties
<1>2. Len(<<>>) = 0
  BY EmptySeq
<1> HIDE DEF t
<1>3. Len(q) > 1 => t # <<>>
  BY <1>1, <1>2
<1> QED BY <1>1, <1>3 DEF t

\* The steps of a mutation.  Its reservation is exclusive from the start.
LEMMA MutationInv == ASSUME IInv, NEW a \in Actors, MutationStep(a) PROVE IInv'
<1> DEFINE k == Head(todo[a])
           m == [owner |-> a, key |-> k, phase |-> "reserved"]
           MutType == [owner : Actors, key : Keys, phase : {"reserved", "held", "releasing"}]
<1>1. /\ JobsInv(jobs) /\ WriterAlone
      /\ pc \in [Actors -> RequestPc] /\ todo \in [Actors -> Seq(Keys)]
      /\ muts \subseteq MutType
  BY DEF IInv, ThreadsInv
<1>2. UNCHANGED <<jobs, want>>
  BY DEF MutationStep, Reserve, Lock, Mutate, BeginRelease, EndRelease, MutFrame
<1>3. ASSUME ThreadsInv', WriterAlone' PROVE IInv'
  BY <1>1, <1>2, <1>3 DEF IInv, JobsInv, Storage, Active
<1>4. \A l \in {"release", "refresh", "idle", "mutating"} :
          l \in RequestPc \ {"entry", "reserve", "lock"}
  BY DEF RequestPc
<1>5. After(a) \in {"refresh", "idle"}
  BY DEF After
\* A mutation that gives up: its reservation goes, what is held is released.
<1>6. ASSUME NEW rest, Refused(a, rest), muts' \subseteq muts,
             \A n \in muts \ muts' : n.owner = a
      PROVE  IInv'
  <2>1. PICK l \in {"release", "refresh", "idle"} : Go(a, l)
    BY <1>5, <1>6 DEF Refused
  <2>2. /\ pc' = [pc EXCEPT ![a] = l] /\ l \in RequestPc \ {"entry", "reserve", "lock"}
        /\ todo' = [todo EXCEPT ![a] = <<>>]
    BY <1>4, <1>6, <2>1 DEF Go, Refused
  <2>3. todo' \in [Actors -> Seq(Keys)] /\ pc' \in [Actors -> RequestPc]
    BY <1>1, <2>2
  <2>4. \A b \in Actors \ {a} : pc'[b] = pc[b] /\ todo'[b] = todo[b]
    BY <1>1, <2>2
  <2>5. pc'[a] = l
    BY <1>1, <2>2
  <2>6. \A b \in Actors : pc'[b] = "lock"
            => [owner |-> b, key |-> Head(todo'[b]), phase |-> "reserved"] \in muts'
    <3> SUFFICES ASSUME NEW b \in Actors, pc'[b] = "lock"
                 PROVE  [owner |-> b, key |-> Head(todo'[b]), phase |-> "reserved"] \in muts'
      OBVIOUS
    <3>1. b # a
      BY <2>2, <2>5
    <3>2. [owner |-> b, key |-> Head(todo[b]), phase |-> "reserved"] \in muts
      BY <2>4, <3>1 DEF IInv, ThreadsInv
    <3> QED BY <1>6, <2>4, <3>1, <3>2
  <2>7. ThreadsInv'
    BY <1>1, <1>2, <1>6, <2>2, <2>3, <2>4, <2>5, <2>6 DEF IInv, ThreadsInv, Actors
  <2>8. WriterAlone'
    BY <1>1, <1>2, <1>6 DEF WriterAlone
  <2> QED BY <1>3, <2>7, <2>8
<1>7. CASE Reserve(a)
  <2>1. CASE Refused(a, Own(a)) /\ UNCHANGED muts
    BY <1>6, <2>1
  <2>2. CASE /\ ~Busy(k) /\ muts' = muts \cup {m}
             /\ Go(a, "lock") /\ UNCHANGED todo
    <3>1. todo[a] # <<>> /\ todo[a] \in Seq(Keys)
      BY <1>1, <1>7 DEF Reserve, IInv, ThreadsInv
    <3>2. k \in Keys
      BY <3>1
    <3>3. m \in MutType
      BY <3>2
    <3>4. pc' = [pc EXCEPT ![a] = "lock"] /\ pc' \in [Actors -> RequestPc]
      BY <1>1, <2>2 DEF Go, RequestPc
    <3>5. ThreadsInv'
      BY <1>1, <1>2, <2>2, <3>1, <3>3, <3>4 DEF IInv, ThreadsInv, Actors
    <3>6. m.key = k
      OBVIOUS
    <3>7. \A n \in muts : ~Conflict(n.key, k) /\ ~Conflict(k, n.key)
      BY <2>2 DEF Busy, Conflict
    <3>8. \A j \in Jobs : jobs[j].phase \in Hot => ~Conflict(k, jobs[j].project)
      BY <2>2 DEF Busy, Conflict, Reserves, Hot
    <3> HIDE DEF m, k
    <3>9. WriterAlone'
      BY <1>1, <1>2, <2>2, <3>6, <3>7, <3>8 DEF WriterAlone, Hot
    <3> QED BY <1>3, <3>5, <3>9
  <2> QED BY <1>7, <2>1, <2>2 DEF Reserve
<1>8. CASE Lock(a)
  <2>1. CASE muts' = muts \ {m} /\ Refused(a, Own(a) \ {m})
    <3>1. m.owner = a
      OBVIOUS
    <3> QED BY <1>6, <2>1, <3>1
  <2>2. CASE /\ muts' = (muts \ {m}) \cup {[m EXCEPT !.phase = "held"]}
             /\ todo' = [todo EXCEPT ![a] = Tail(@)]
             /\ Go(a, IF Len(todo[a]) > 1 THEN "reserve" ELSE "mutating")
    <3> DEFINE h == [m EXCEPT !.phase = "held"]
               l == IF Len(todo[a]) > 1 THEN "reserve" ELSE "mutating"
    <3>1. m \in muts /\ todo[a] # <<>> /\ todo[a] \in Seq(Keys)
      BY <1>1, <1>8 DEF Lock, IInv, ThreadsInv
    <3>2. h = [owner |-> a, key |-> k, phase |-> "held"] /\ k \in Keys
      BY <3>1
    <3>3. h \in MutType /\ h.key = m.key /\ m.owner = a
      BY <3>2
    <3>4. Tail(todo[a]) \in Seq(Keys) /\ (Len(todo[a]) > 1 => Tail(todo[a]) # <<>>)
      BY <3>1, Rest
    <3>5. /\ todo' \in [Actors -> Seq(Keys)] /\ todo'[a] = Tail(todo[a])
          /\ \A b \in Actors \ {a} : todo'[b] = todo[b]
      BY <1>1, <2>2, <3>4
    <3>6. /\ pc' \in [Actors -> RequestPc] /\ pc'[a] = l
          /\ \A b \in Actors \ {a} : pc'[b] = pc[b]
      BY <1>1, <2>2 DEF Go, RequestPc
    <3>7. \A b \in Actors : pc'[b] = "lock"
              => [owner |-> b, key |-> Head(todo'[b]), phase |-> "reserved"] \in muts'
      <4> SUFFICES ASSUME NEW b \in Actors, pc'[b] = "lock"
                   PROVE  [owner |-> b, key |-> Head(todo'[b]), phase |-> "reserved"] \in muts'
        OBVIOUS
      <4>1. b # a
        BY <3>6
      <4>2. [owner |-> b, key |-> Head(todo[b]), phase |-> "reserved"] \in muts
        BY <3>6, <4>1 DEF IInv, ThreadsInv
      <4> QED BY <2>2, <3>5, <4>1, <4>2
    <3>8. ThreadsInv'
      BY <1>1, <1>2, <2>2, <3>3, <3>4, <3>5, <3>6, <3>7 DEF IInv, ThreadsInv, Actors
    <3> HIDE DEF h, m, k, l
    <3>9. muts' = (muts \ {m}) \cup {h}
      BY <2>2 DEF h, m, k
    <3>10. WriterAlone'
      BY <1>1, <1>2, <3>1, <3>3, <3>9 DEF WriterAlone
    <3> QED BY <1>3, <3>8, <3>10
  <2> QED BY <1>8, <2>1, <2>2 DEF Lock
<1>9. CASE Mutate(a)
  <2>1. UNCHANGED mutation /\ \E l \in {"release", "refresh"} : Go(a, l)
    BY <1>9 DEF Mutate
  <2>2. ThreadsInv'
    BY <1>2, <1>4, <2>1, Aside DEF IInv, mutation
  <2>3. WriterAlone'
    BY <1>1, <1>2, <2>1 DEF WriterAlone, mutation
  <2> QED BY <1>3, <2>2, <2>3
<1>10. CASE BeginRelease(a)
  <2>1. PICK n \in Own(a) : /\ n.phase = "held"
                            /\ muts' = (muts \ {n}) \cup {[n EXCEPT !.phase = "releasing"]}
    BY <1>10 DEF BeginRelease
  <2> DEFINE h == [n EXCEPT !.phase = "releasing"]
  <2>2. n \in muts /\ n \in MutType
    BY <1>1, <2>1 DEF Own
  <2>3. h \in MutType /\ h.key = n.key
    BY <2>2
  <2> HIDE DEF h
  <2>4. muts' = (muts \ {n}) \cup {h}
    BY <2>1 DEF h
  <2>5. UNCHANGED <<pc, todo>>
    BY <1>10 DEF BeginRelease
  <2>6. \A b \in Actors : [owner |-> b, key |-> Head(todo[b]), phase |-> "reserved"] # n
    BY <2>1
  <2>7. ThreadsInv'
    BY <1>1, <1>2, <2>3, <2>4, <2>5, <2>6 DEF IInv, ThreadsInv
  <2>8. WriterAlone'
    BY <1>1, <1>2, <2>2, <2>3, <2>4 DEF WriterAlone
  <2> QED BY <1>3, <2>7, <2>8
<1>11. CASE EndRelease(a)
  <2>1. PICK n \in Own(a) : /\ n.phase = "releasing" /\ muts' = muts \ {n}
                            /\ Go(a, IF Own(a) = {n} THEN After(a) ELSE "release")
    BY <1>11 DEF EndRelease
  <2>2. PICK l \in {"refresh", "idle", "release"} : Go(a, l)
    BY <1>5, <2>1
  <2>3. /\ pc' = [pc EXCEPT ![a] = l] /\ l \in RequestPc \ {"entry", "reserve", "lock"}
        /\ UNCHANGED todo
    BY <1>4, <1>11, <2>2 DEF Go, EndRelease
  <2>4. \A b \in Actors : [owner |-> b, key |-> Head(todo[b]), phase |-> "reserved"] # n
    BY <2>1
  <2>5. ThreadsInv'
    BY <1>1, <1>2, <2>1, <2>3, <2>4 DEF IInv, ThreadsInv, Actors
  <2>6. WriterAlone'
    BY <1>1, <1>2, <2>1 DEF WriterAlone
  <2> QED BY <1>3, <2>5, <2>6
<1> QED BY <1>7, <1>8, <1>9, <1>10, <1>11 DEF MutationStep

\* A mutation gets its lease, begins to release it, or does neither.
LEMMA MutationGate == ASSUME IInv, NEW a \in Actors, MutationStep(a) PROVE GateStep
<1> DEFINE k == Head(todo[a])
           m == [owner |-> a, key |-> k, phase |-> "reserved"]
<1>1. Running' = Running
  BY DEF MutationStep, Reserve, Lock, Mutate, BeginRelease, EndRelease, MutFrame, Running
<1>2. muts \subseteq [owner : Actors, key : Keys, phase : {"reserved", "held", "releasing"}]
  BY DEF IInv, ThreadsInv
<1>3. ASSUME Holding' = Holding PROVE GateStep
  BY <1>1, <1>3 DEF GateStep
<1>4. CASE Reserve(a)
  <2>1. m.phase = "reserved"
    OBVIOUS
  <2> HIDE DEF m
  <2>2. muts' = muts \/ muts' = muts \cup {m}
    BY <1>4 DEF Reserve, m
  <2>3. Holding' = Holding
    BY <2>1, <2>2 DEF Holding
  <2> QED BY <1>3, <2>3
<1>5. CASE Lock(a)
  <2> DEFINE h == [m EXCEPT !.phase = "held"]
  <2>1. m \in muts /\ m.phase = "reserved" /\ m.key = k
    BY <1>5 DEF Lock, IInv, ThreadsInv
  <2>2. h.phase = "held" /\ h.key = k
    OBVIOUS
  <2>3. k \in Keys
    BY <1>2, <2>1
  <2>4. muts' = muts \ {m} \/ muts' = (muts \ {m}) \cup {h}
    BY <1>5 DEF Lock
  <2> HIDE DEF h, m
  <2>5. CASE muts' = muts \ {m}
    <3>1. Holding' = Holding
      BY <2>1, <2>5 DEF Holding
    <3> QED BY <1>3, <3>1
  <2>6. CASE muts' = (muts \ {m}) \cup {h}
    <3>1. PICK x \in Keys : x = k
      BY <2>3
    <3>2. Holding' = Holding \cup {x}
      BY <2>1, <2>2, <2>6, <3>1 DEF Holding
    <3>3. \A n \in muts : n.phase = "held" => ~Conflict(x, n.key)
      BY <2>1, <3>1 DEF IInv, WriterAlone
    <3>4. \A l \in Holding : ~Conflict(x, l)
      BY <3>3 DEF Holding
    <3>5. \A l \in Running : ~Conflict(x, l)
      BY <2>1, <3>1 DEF IInv, WriterAlone, Running
    <3>6. Gated!StartMutation(x)
      BY <1>1, <3>2, <3>4, <3>5
         DEF Gated!StartMutation, Gated!Conflict, Conflict, Running, Holding
    <3> QED BY <3>6 DEF GateStep, Gated!Next, Keys
  <2> QED BY <2>4, <2>5, <2>6
<1>6. CASE Mutate(a)
  BY <1>3, <1>6, SameMuts DEF Mutate, mutation
<1>7. CASE BeginRelease(a)
  <2>1. PICK n \in Own(a) : /\ n.phase = "held"
                            /\ muts' = (muts \ {n}) \cup {[n EXCEPT !.phase = "releasing"]}
    BY <1>7 DEF BeginRelease
  <2> DEFINE h == [n EXCEPT !.phase = "releasing"]
  <2>2. n \in muts /\ n.key \in Keys /\ h.phase = "releasing"
    BY <1>2, <2>1 DEF Own
  <2> HIDE DEF h
  <2>3. muts' = (muts \ {n}) \cup {h}
    BY <2>1 DEF h
  <2>4. PICK x \in Keys : x = n.key
    BY <2>2
  <2>5. \A l \in muts \ {n} : l.key # x
    BY <2>2, <2>4 DEF IInv, WriterAlone, Conflict
  <2>6. Holding' = Holding \ {x} /\ x \in Holding
    BY <2>1, <2>2, <2>3, <2>4, <2>5 DEF Holding
  <2>7. Gated!EndMutation(x)
    BY <1>1, <2>6 DEF Gated!EndMutation, Running, Holding
  <2> QED BY <2>7 DEF GateStep, Gated!Next, Keys
<1>8. CASE EndRelease(a)
  <2>1. PICK n \in Own(a) : n.phase = "releasing" /\ muts' = muts \ {n}
    BY <1>8 DEF EndRelease
  <2>2. Holding' = Holding
    BY <2>1 DEF Holding
  <2> QED BY <1>3, <2>2
<1> QED BY <1>4, <1>5, <1>6, <1>7, <1>8 DEF MutationStep
\* A step of a mutation, for the invariant and for the gate.
LEMMA MutationFine == ASSUME IInv, NEW a \in Actors, MutationStep(a) PROVE Fine
BY MutationInv, MutationGate DEF Fine

LEMMA NextInv == IInv /\ [Next]_vars => Fine
<1> SUFFICES ASSUME IInv, [Next]_vars PROVE Fine
  OBVIOUS
<1>1. ASSUME NEW s \in Sessions,
             Retry(s) \/ Open(s) \/ Submit(s) \/ RequestStep(s) \/ CancelRequest(s)
               \/ CancelSession(s) \/ Join(s) \/ CloseSession(s)
      PROVE  Fine
  BY <1>1, SessionInv, RequestInv, MutationFine DEF RequestStep, Actors
<1>2. ASSUME NEW j \in Jobs, JobStep(j) PROVE Fine
  BY <1>2, JobInv
<1>3. ASSUME NEW c \in Callers, CallerStep(c) PROVE Fine
  <2>1. CASE MutationStep(c)
    BY <2>1, MutationFine DEF Actors
  <2>2. CASE CallDone(c)
    BY <2>2, CallDoneInv
  <2> QED BY <1>3, <2>1, <2>2 DEF CallerStep
<1>4. ASSUME NEW c \in Callers, NEW p \in Projects, CallIndex(c, p) \/ CallMutate(c, p)
      PROVE  Fine
  BY <1>4, CallerInv
<1>5. CASE Pruned \/ Shutdown \/ Drained
  BY <1>5, DaemonInv
<1>6. CASE UNCHANGED vars
  <2>1. IInv'
    BY <1>6 DEF vars, IInv, JobsInv, Storage, Active, ThreadsInv, WriterAlone
  <2>2. Running' = Running /\ Holding' = Holding
    BY <1>6 DEF vars, Running, Holding
  <2> QED BY <2>1, <2>2 DEF Fine, GateStep
<1> QED BY <1>1, <1>2, <1>3, <1>4, <1>5, <1>6 DEF Next

\* Jobs that are active are of different projects; threads reserve what they hold
\* a reservation for; and writers are alone: an invariant that is inductive.
THEOREM Invariance == Spec => []IInv
<1>1. Fine => IInv'
  BY DEF Fine
<1> QED BY InitInv, NextInv, <1>1, PTL DEF Spec

\* No reservation conflicts with another one, nor with a job between the gate
\* and the end of its worker's process tree.
THEOREM WritersAlone == Spec => []WriterAlone
<1>1. IInv => WriterAlone
  BY DEF IInv
<1> QED BY <1>1, Invariance, PTL

\* The critical sections of application.c, seen by which workers are alive and
\* which mutations hold their lease, are those of a gate that lets one in at a time.
THEOREM Refinement == Spec => ImplementsGate
<1>1. Init => Gated!Init
  BY DEF Init, Gated!Init, Free
<1>2. IInv /\ [Next]_vars => GateStep
  BY NextInv DEF Fine
<1> QED BY <1>1, <1>2, Invariance, PTL DEF Spec, ImplementsGate, Gated!Spec, GateStep, Running, Holding

-----------------------------------------------------------------------------
(* Who owns jobs.                                                          *)

Gone(r) == r.status \in {"cancelled", "closed"}
Nothing(r) == r.activeJob = NoJob /\ r.autoJob = NoJob /\ ~r.watch

\* Sessions that are gone own nothing, and whoever watches a job watches its project.
Owners(ss, subs) ==
    /\ ss \in [Sessions -> Session]
    /\ subs \subseteq Sessions \X Jobs
    /\ \A x \in subs : ss[x[1]].watch
    /\ \A s \in Sessions : Gone(ss[s]) => Nothing(ss[s])

OInv ==
    /\ Owners(ses, watchSubs)
    /\ at \in [Actors -> Jobs \cup {NoJob}]
    /\ retry \subseteq Sessions /\ \A s \in retry : ses[s].status = "open"

\* One session goes on, and keeps its watch.
LEMMA OwnersUpdate ==
    ASSUME NEW ss, NEW subs, Owners(ss, subs), NEW s \in Sessions, NEW r \in Session,
           Gone(r) => Nothing(r), ss[s].watch => r.watch
    PROVE  Owners([ss EXCEPT ![s] = r], subs)
<1> DEFINE ss2 == [ss EXCEPT ![s] = r]
<1>1. ss2 \in [Sessions -> Session] /\ ss2[s] = r /\ \A o \in Sessions \ {s} : ss2[o] = ss[o]
  BY DEF Owners
<1> HIDE DEF ss2
<1>2. \A x \in subs : x[1] \in Sessions
  BY DEF Owners
<1> QED BY <1>1, <1>2 DEF Owners

\* Some sessions lose their watch, and with it their part in the jobs they watch.
LEMMA OwnersUnwatch ==
    ASSUME NEW ss, NEW subs, Owners(ss, subs), NEW gone,
           NEW less, less \subseteq subs, \A x \in less : x[1] \notin gone
    PROVE  Owners([s \in Sessions |-> [ss[s] EXCEPT !.watch = @ /\ s \notin gone]], less)
<1> DEFINE w(s) == ss[s].watch /\ s \notin gone
           ss2 == [s \in Sessions |-> [ss[s] EXCEPT !.watch = w(s)]]
<1>1. ASSUME NEW s \in Sessions
      PROVE  /\ ss2[s] \in Session /\ ss2[s].watch = w(s) /\ ss2[s].status = ss[s].status
             /\ ss2[s].activeJob = ss[s].activeJob /\ ss2[s].autoJob = ss[s].autoJob
  <2> DEFINE y == w(s)
  <2>1. ss2[s] = [ss[s] EXCEPT !.watch = y]
    OBVIOUS
  <2>2. y \in BOOLEAN /\ ss[s] \in Session
    BY DEF Owners
  <2> HIDE DEF ss2, y
  <2>3. /\ ss2[s] \in Session /\ ss2[s].watch = y /\ ss2[s].status = ss[s].status
        /\ ss2[s].activeJob = ss[s].activeJob /\ ss2[s].autoJob = ss[s].autoJob
    BY <2>1, <2>2 DEF Session
  <2> QED BY <2>3 DEF y
<1>2. ss2 \in [Sessions -> Session]
  BY <1>1
<1> HIDE DEF ss2
<1>3. \A x \in subs : x[1] \in Sessions /\ ss[x[1]].watch
  BY DEF Owners
<1>4. \A x \in less : ss2[x[1]].watch
  BY <1>1, <1>3
<1>5. \A s \in Sessions : Gone(ss2[s]) => Nothing(ss2[s])
  BY <1>1 DEF Owners, Gone, Nothing
<1> QED BY <1>2, <1>4, <1>5 DEF Owners, ss2

\* Sessions that are not gone begin to watch, and join jobs of their project.
LEMMA OwnersWatch ==
    ASSUME NEW ss, NEW subs, Owners(ss, subs), NEW new \in SUBSET Sessions,
           \A s \in new : ~Gone(ss[s]),
           NEW late, late \subseteq new \X Jobs
    PROVE  Owners([s \in Sessions |-> [ss[s] EXCEPT !.watch = @ \/ s \in new]], subs \cup late)
<1> DEFINE w(s) == ss[s].watch \/ s \in new
           ss2 == [s \in Sessions |-> [ss[s] EXCEPT !.watch = w(s)]]
<1>1. ASSUME NEW s \in Sessions
      PROVE  /\ ss2[s] \in Session /\ ss2[s].watch = w(s) /\ ss2[s].status = ss[s].status
             /\ ss2[s].activeJob = ss[s].activeJob /\ ss2[s].autoJob = ss[s].autoJob
  <2> DEFINE y == w(s)
  <2>1. ss2[s] = [ss[s] EXCEPT !.watch = y]
    OBVIOUS
  <2>2. y \in BOOLEAN /\ ss[s] \in Session
    BY DEF Owners
  <2> HIDE DEF ss2, y
  <2>3. /\ ss2[s] \in Session /\ ss2[s].watch = y /\ ss2[s].status = ss[s].status
        /\ ss2[s].activeJob = ss[s].activeJob /\ ss2[s].autoJob = ss[s].autoJob
    BY <2>1, <2>2 DEF Session
  <2> QED BY <2>3 DEF y
<1>2. ss2 \in [Sessions -> Session]
  BY <1>1
<1> HIDE DEF ss2
<1>3. \A x \in subs \cup late : x[1] \in Sessions /\ w(x[1])
  BY DEF Owners
<1>4. \A x \in subs \cup late : ss2[x[1]].watch
  BY <1>1, <1>3
<1>5. \A s \in Sessions : Gone(ss2[s]) => Nothing(ss2[s])
  BY <1>1 DEF Owners, Gone, Nothing
<1>6. subs \cup late \subseteq Sessions \X Jobs
  BY DEF Owners
<1> QED BY <1>2, <1>4, <1>5, <1>6 DEF Owners, ss2

LEMMA OwnersRefresh ==
    ASSUME NEW ss, Owners(ss, watchSubs), \A s \in Sessions : ss[s].status = ses[s].status,
           NEW S \in SUBSET Sessions, NEW p, NEW js
    PROVE  Owners(Refreshed(S, p, js, ss).ses, Refreshed(S, p, js, ss).subs)
<1> DEFINE able == {s \in S : ss[s].autoJob = NoJob /\ ~stopping /\ ~Cancelled(s)}
           gone == Watching(ss, p)
           new  == {s \in able : ~ss[s].watch}
           late == IF gone = {} THEN {} ELSE UNION {Late(js, s, p) : s \in new}
           off  == [s \in Sessions |-> [ss[s] EXCEPT !.watch = @ /\ s \notin gone]]
           on   == [s \in Sessions |-> [ss[s] EXCEPT !.watch = @ \/ s \in new]]
           less == {x \in watchSubs : x[1] \notin gone}
<1>1. \/ Refreshed(S, p, js, ss).ses = ss /\ Refreshed(S, p, js, ss).subs = watchSubs
      \/ Refreshed(S, p, js, ss).ses = off /\ Refreshed(S, p, js, ss).subs = less
      \/ Refreshed(S, p, js, ss).ses = on /\ Refreshed(S, p, js, ss).subs = watchSubs \cup late
  BY DEF Refreshed
<1>2. new \in SUBSET Sessions /\ \A s \in new : ~Gone(ss[s])
  BY DEF Cancelled, Gone
<1>3. late \subseteq new \X Jobs
  BY DEF Late, Active
<1>4. Owners(off, less)
  <2>1. less \subseteq watchSubs /\ \A x \in less : x[1] \notin gone
    OBVIOUS
  <2> HIDE DEF gone, less
  <2> QED BY <2>1, OwnersUnwatch
<1>5. Owners(on, watchSubs \cup late)
  <2> HIDE DEF new, late
  <2> QED BY <1>2, <1>3, OwnersWatch
<1> HIDE DEF off, on, less, late
<1> QED BY <1>1, <1>4, <1>5

LEMMA SubscribeJob ==
    ASSUME NEW js, NEW p, NEW o, NEW r \in Subscribe(js, p, o)
    PROVE  r.job \in Jobs \cup {NoJob}
<1> DEFINE same == {j \in Active(js) : js[j].project = p}
           idle == {j \in Jobs : js[j].phase = "free"}
           own  == CHOOSE i \in same : TRUE
           No(status) == [status |-> status, job |-> NoJob, jobs |-> js, failed |-> 0]
           grown == [js EXCEPT ![own].subs = @ + 1]
<1>1. CASE stopping
  BY <1>1 DEF Subscribe
<1>2. CASE ~stopping /\ same # {}
  <2>1. r \in {No("CANCELLING"), No("CONFLICT"),
               [status |-> "OK", job |-> own, jobs |-> grown, failed |-> 0]}
    BY <1>2, Zenon DEF Subscribe
  <2>2. own \in Jobs
    BY <1>2 DEF Active
  <2> HIDE DEF grown, own
  <2> QED BY <2>1, <2>2
<1>3. CASE ~stopping /\ same = {}
  <2>1. \/ r = No("BUSY")
        \/ r = [No("UNAVAILABLE") EXCEPT !.failed = 1]
        \/ \E j \in idle : r = [status |-> "OK", job |-> j, jobs |-> Created(js, j, p, o),
                               failed |-> 0]
    BY <1>3, Zenon DEF Subscribe
  <2> QED BY <2>1
<1> QED BY <1>1, <1>2, <1>3

\* What a session leaves when it goes.
LEMMA Released ==
    ASSUME Owners(ses, watchSubs), NEW s \in Sessions, NEW st \in {"cancelled", "closed"}, NEW n \in Nat
    PROVE  /\ Owners([ses EXCEPT ![s] = [Release(s).ses EXCEPT !.status = st, !.cancelToken = n]],
                     Release(s).subs)
           /\ Owners([ses EXCEPT ![s] = [Release(s).ses EXCEPT !.status = st]], Release(s).subs)
<1> DEFINE q == [ses[s] EXCEPT !.activeJob = NoJob, !.autoJob = NoJob, !.watch = FALSE]
           left == IF ses[s].watch THEN {x \in watchSubs : x[1] # s} ELSE watchSubs
<1>1. Release(s).ses = q /\ Release(s).subs = left
  BY DEF Release
<1>2. ses[s] \in Session
  BY DEF Owners
<1>3. q \in Session /\ q.activeJob = NoJob /\ q.autoJob = NoJob /\ ~q.watch
  BY <1>2 DEF Session
<1>4. \A x \in left : x[1] # s
  BY DEF Owners
<1>5. ASSUME NEW r \in Session, Nothing(r) PROVE Owners([ses EXCEPT ![s] = r], left)
  <2> DEFINE ss2 == [ses EXCEPT ![s] = r]
  <2>1. ss2 \in [Sessions -> Session] /\ ss2[s] = r /\ \A o \in Sessions \ {s} : ss2[o] = ses[o]
    BY DEF Owners
  <2>2. left \subseteq watchSubs /\ \A x \in left : x[1] \in Sessions \ {s}
    BY <1>4 DEF Owners
  <2> HIDE DEF ss2, left
  <2>3. Owners(ss2, left)
    BY <1>5, <2>1, <2>2 DEF Owners
  <2> QED BY <2>3 DEF ss2
<1> HIDE DEF q, left
<1>6. /\ [q EXCEPT !.status = st] \in Session /\ Nothing([q EXCEPT !.status = st])
      /\ [q EXCEPT !.status = st, !.cancelToken = n] \in Session
      /\ Nothing([q EXCEPT !.status = st, !.cancelToken = n])
  BY <1>3 DEF Session, Nothing
<1> QED BY <1>1, <1>5, <1>6

\* A session's record after a request has changed some of it.
LEMMA OwnersEdit ==
    ASSUME Owners(ses, watchSubs), NEW s \in Sessions, NEW r, ses' = [ses EXCEPT ![s] = r],
           r \in Session, r.status = ses[s].status, r.watch = ses[s].watch,
           ~Gone(ses[s]) \/ (r.activeJob \in {NoJob, ses[s].activeJob} /\ r.autoJob = ses[s].autoJob),
           UNCHANGED watchSubs
    PROVE  Owners(ses', watchSubs')
<1>1. Gone(r) => Nothing(r)
  BY DEF Owners, Gone, Nothing
<1>2. ses[s].watch => r.watch
  OBVIOUS
<1> QED BY <1>1, <1>2, OwnersUpdate

LEMMA OwnersStay ==
    ASSUME Owners(ses, watchSubs), UNCHANGED <<ses, watchSubs>> PROVE Owners(ses', watchSubs')
BY DEF Owners

LEMMA RequestOwners ==
    ASSUME IInv, OInv, NEW s \in Sessions, RequestStep(s) \/ Submit(s) \/ Open(s) \/ CancelRequest(s)
    PROVE  Owners(ses', watchSubs')
<1>1. Owners(ses, watchSubs) /\ ses[s] \in Session /\ s \in Actors
  BY DEF OInv, Owners, Actors
<1>2. CASE UNCHANGED <<ses, watchSubs>>
  BY <1>1, <1>2, OwnersStay
<1>3. ASSUME NEW r, ses' = [ses EXCEPT ![s] = r], UNCHANGED watchSubs,
             r \in Session, r.status = ses[s].status, r.watch = ses[s].watch,
             r.activeJob \in {NoJob, ses[s].activeJob}, r.autoJob = ses[s].autoJob
      PROVE  Owners(ses', watchSubs')
  BY <1>1, <1>3, OwnersEdit
<1>4. CASE Open(s)
  <2> DEFINE r == [ses[s] EXCEPT !.status = "open"]
  <2>1. ses' = [ses EXCEPT ![s] = r] /\ UNCHANGED watchSubs
    BY <1>4 DEF Open
  <2>2. r \in Session /\ ~Gone(r) /\ r.watch = ses[s].watch
    BY <1>1 DEF Session, Gone
  <2> HIDE DEF r
  <2>3. ses[s].watch => r.watch
    BY <2>2
  <2> QED BY <1>1, <2>1, <2>2, <2>3, OwnersUpdate
<1>5. CASE Submit(s)
  <2> DEFINE r == [ses[s] EXCEPT !.request = @ + 1]
  <2>1. ses' = [ses EXCEPT ![s] = r] /\ UNCHANGED watchSubs
    BY <1>5 DEF Submit
  <2>2. r \in Session /\ r.status = ses[s].status /\ r.watch = ses[s].watch
        /\ r.activeJob = ses[s].activeJob /\ r.autoJob = ses[s].autoJob
    BY <1>1 DEF Session
  <2> HIDE DEF r
  <2> QED BY <1>3, <2>1, <2>2
<1>6. CASE Enter(s)
  <2>1. CASE UNCHANGED ses
    BY <1>2, <1>6, <2>1 DEF Enter
  <2>2. CASE ~UNCHANGED ses
    <3> DEFINE n == IF Hit(s) THEN ses[s].cancelToken ELSE 0
               r == [ses[s] EXCEPT !.active = TRUE, !.cancelToken = n]
    <3>1. ses' = [ses EXCEPT ![s] = r] /\ UNCHANGED watchSubs
      BY <1>6, <2>2 DEF Enter
    <3>2. n \in Nat
      BY <1>1 DEF Session
    <3> HIDE DEF n
    <3>3. r \in Session /\ r.status = ses[s].status /\ r.watch = ses[s].watch
          /\ r.activeJob = ses[s].activeJob /\ r.autoJob = ses[s].autoJob
      BY <1>1, <3>2 DEF Session
    <3> HIDE DEF r
    <3> QED BY <1>3, <3>1, <3>3
  <2> QED BY <2>1, <2>2
<1>7. CASE Confirm(s)
  <2>1. CASE UNCHANGED ses
    BY <1>2, <1>7, <2>1 DEF Confirm
  <2>2. CASE ~UNCHANGED ses
    <3> DEFINE r == [ses[s] EXCEPT !.activeJob = at[s]]
    <3>1. ses' = [ses EXCEPT ![s] = r] /\ UNCHANGED watchSubs /\ ~Cancelled(s)
      BY <1>7, <2>2 DEF Confirm, Confirmed
    <3>2. at[s] \in Jobs \cup {NoJob}
      BY <1>1 DEF OInv
    <3>3. r \in Session /\ r.status = ses[s].status /\ r.watch = ses[s].watch
      BY <1>1, <3>2 DEF Session
    <3>4. ~Gone(ses[s])
      BY <3>1 DEF Cancelled, Gone
    <3> HIDE DEF r
    <3> QED BY <1>1, <3>1, <3>3, <3>4, OwnersEdit
  <2> QED BY <2>1, <2>2
<1>8. CASE Await(s)
  <2>1. CASE UNCHANGED ses
    BY <1>2, <1>8, <2>1 DEF Await
  <2>2. CASE ~UNCHANGED ses
    <3> DEFINE r == [ses[s] EXCEPT !.activeJob = NoJob]
    <3>1. ses' = [ses EXCEPT ![s] = r] /\ UNCHANGED watchSubs
      BY <1>8, <2>2 DEF Await
    <3>2. r \in Session /\ r.status = ses[s].status /\ r.watch = ses[s].watch
          /\ r.activeJob = NoJob /\ r.autoJob = ses[s].autoJob
      BY <1>1 DEF Session
    <3> HIDE DEF r
    <3> QED BY <1>3, <3>1, <3>2
  <2> QED BY <2>1, <2>2
<1>9. ASSUME NEW ss, NEW p, ses' = Refreshed({s}, p, jobs, ss).ses,
             watchSubs' = Refreshed({s}, p, jobs, ss).subs, Owners(ss, watchSubs),
             \A o \in Sessions : ss[o].status = ses[o].status
      PROVE  Owners(ses', watchSubs')
  BY <1>9, OwnersRefresh
<1>10. CASE RefreshWatch(s)
  <2> DEFINE i == ses[s].init \/ want[s].kind = "initialize"
             r == [ses[s] EXCEPT !.init = i]
             ss == [ses EXCEPT ![s] = r]
  <2>1. /\ ses' = Refreshed({s}, Home[s], jobs, ss).ses
        /\ watchSubs' = Refreshed({s}, Home[s], jobs, ss).subs
    BY <1>10 DEF RefreshWatch, Refresh
  <2>2. i \in BOOLEAN
    BY <1>1 DEF Session
  <2> HIDE DEF i
  <2>3. r \in Session /\ r.status = ses[s].status /\ r.watch = ses[s].watch
        /\ r.activeJob = ses[s].activeJob /\ r.autoJob = ses[s].autoJob
    BY <1>1, <2>2 DEF Session
  <2> HIDE DEF r
  <2>4. Gone(r) => Nothing(r)
    BY <1>1, <2>3 DEF Owners, Gone, Nothing
  <2>5. Owners(ss, watchSubs)
    <3>1. ses[s].watch => r.watch
      BY <2>3
    <3> QED BY <1>1, <2>3, <2>4, <3>1, OwnersUpdate
  <2>6. \A o \in Sessions : ss[o].status = ses[o].status
    BY <1>1, <2>3 DEF Owners
  <2> HIDE DEF ss
  <2> QED BY <1>9, <2>1, <2>5, <2>6
<1>11. CASE Complete(s)
  <2> DEFINE n == IF Hit(s) THEN 0 ELSE ses[s].cancelToken
             r == [ses[s] EXCEPT !.active = FALSE, !.init = FALSE, !.cancelToken = n]
  <2>1. ses' = [ses EXCEPT ![s] = r] /\ UNCHANGED watchSubs
    BY <1>11 DEF Complete
  <2>2. n \in Nat
    BY <1>1 DEF Session
  <2> HIDE DEF n
  <2>3. r \in Session /\ r.status = ses[s].status /\ r.watch = ses[s].watch
        /\ r.activeJob = ses[s].activeJob /\ r.autoJob = ses[s].autoJob
    BY <1>1, <2>2 DEF Session
  <2> HIDE DEF r
  <2> QED BY <1>3, <2>1, <2>3
<1>12. CASE Background(s)
  <2> DEFINE b == AutoIndex /\ Home[s] \notin db
             r == [ses[s] EXCEPT !.needs = b]
  <2>1. ses' = [ses EXCEPT ![s] = r] /\ UNCHANGED watchSubs
    BY <1>12 DEF Background
  <2>2. b \in BOOLEAN
    BY ConfigurationAssumption
  <2> HIDE DEF b
  <2>3. r \in Session /\ r.status = ses[s].status /\ r.watch = ses[s].watch
        /\ r.activeJob = ses[s].activeJob /\ r.autoJob = ses[s].autoJob
    BY <1>1, <2>2 DEF Session
  <2> HIDE DEF r
  <2> QED BY <1>3, <2>1, <2>3
<1>13. CASE AutoAdmit(s)
  <2>1. CASE UNCHANGED ses
    BY <1>2, <1>13, <2>1 DEF AutoAdmit
  <2>2. CASE ~UNCHANGED ses
    <3> DEFINE try == ses[s].autoJob = NoJob /\ (~ses[s].evaluated \/ ses[s].pending)
               ev == ses[s].evaluated \/ try
               pe == ses[s].pending /\ ~try
               q == [ses[s] EXCEPT !.eligible = TRUE, !.evaluated = ev, !.pending = pe]
               ready == [ses EXCEPT ![s].eligible = TRUE, ![s].evaluated = @ \/ try,
                                    ![s].pending = @ /\ ~try]
    <3>1. /\ ~Cancelled(s) /\ UNCHANGED watchSubs
          /\ \/ ses' = ready
             \/ \E r \in Subscribe(jobs, Home[s], Default) :
                    ses' = [ready EXCEPT ![s].autoJob = r.job, ![s].pending = r.job = NoJob]
      BY <1>13, <2>2 DEF AutoAdmit
    <3>2. ev \in BOOLEAN /\ pe \in BOOLEAN
      BY <1>1 DEF Session
    <3>3. ready = [ses EXCEPT ![s] = q]
      BY <1>1 DEF Owners
    <3> HIDE DEF ev, pe, try, ready
    <3>4. q \in Session /\ q.status = ses[s].status /\ q.watch = ses[s].watch
      BY <1>1, <3>2 DEF Session
    <3> HIDE DEF q
    <3>5. ~Gone(ses[s])
      BY <3>1 DEF Cancelled, Gone
    <3>6. CASE ses' = ready
      BY <1>1, <3>1, <3>3, <3>4, <3>5, <3>6, OwnersEdit
    <3>7. ASSUME NEW r \in Subscribe(jobs, Home[s], Default),
                 ses' = [ready EXCEPT ![s].autoJob = r.job, ![s].pending = r.job = NoJob]
          PROVE  Owners(ses', watchSubs')
      <4> DEFINE j == r.job
                 b == r.job = NoJob
                 t == [q EXCEPT !.autoJob = j, !.pending = b]
      <4>1. j \in Jobs \cup {NoJob} /\ b \in BOOLEAN
        BY SubscribeJob
      <4>2. ses' = [ses EXCEPT ![s] = t]
        BY <1>1, <3>3, <3>7 DEF Owners
      <4> HIDE DEF j, b
      <4>3. t \in Session /\ t.status = ses[s].status /\ t.watch = ses[s].watch
        BY <3>4, <4>1 DEF Session
      <4> HIDE DEF t
      <4> QED BY <1>1, <3>1, <3>5, <4>2, <4>3, OwnersEdit
    <3> QED BY <3>1, <3>6, <3>7
  <2> QED BY <2>1, <2>2
<1>14. CASE RefreshAgain(s)
  <2>1. /\ ses' = Refreshed({s}, Home[s], jobs, ses).ses
        /\ watchSubs' = Refreshed({s}, Home[s], jobs, ses).subs
    BY <1>14 DEF RefreshAgain, Refresh
  <2> QED BY <1>1, <1>9, <2>1
<1>15. CASE CancelRequest(s)
  <2> DEFINE n == ses[s].request
             j == IF ses[s].active /\ ses[s].activeJob # NoJob THEN NoJob ELSE ses[s].activeJob
             r == [ses[s] EXCEPT !.cancelToken = n, !.activeJob = j]
  <2>1. ses' = [ses EXCEPT ![s] = r] /\ UNCHANGED watchSubs
    BY <1>1, <1>15 DEF CancelRequest, Owners
  <2>2. n \in Nat /\ j \in {NoJob, ses[s].activeJob}
    BY <1>1 DEF Session
  <2>3. ses[s].activeJob \in Jobs \cup {NoJob}
    BY <1>1 DEF Session
  <2> HIDE DEF n, j
  <2>4. r \in Session /\ r.status = ses[s].status /\ r.watch = ses[s].watch
        /\ r.activeJob = j /\ r.autoJob = ses[s].autoJob
    BY <1>1, <2>2, <2>3 DEF Session
  <2> HIDE DEF r
  <2> QED BY <1>3, <2>1, <2>2, <2>4
<1>16. CASE Admit(s) \/ Parked(s) \/ MutationStep(s)
  BY <1>2, <1>16 DEF Admit, Parked, MutationStep, Reserve, Lock, Mutate, BeginRelease,
     EndRelease, MutFrame
<1> QED BY <1>4, <1>5, <1>6, <1>7, <1>8, <1>10, <1>11, <1>12, <1>13, <1>14, <1>15, <1>16
        DEF RequestStep

\* What decides whether a session's request counts as cancelled.
Same(ss) == \A s \in Sessions :
    /\ ss[s].status = ses[s].status /\ ss[s].request = ses[s].request
    /\ ss[s].cancelToken = ses[s].cancelToken

LEMMA RefreshSame ==
    ASSUME NEW ss, ss \in [Sessions -> Session], Same(ss), NEW S, NEW p, NEW js
    PROVE  Same(Refreshed(S, p, js, ss).ses)
<1> DEFINE able == {s \in S : ss[s].autoJob = NoJob /\ ~stopping /\ ~Cancelled(s)}
           gone == Watching(ss, p)
           new  == {s \in able : ~ss[s].watch}
           off(s) == ss[s].watch /\ s \notin gone
           on(s)  == ss[s].watch \/ s \in new
           ss2 == Refreshed(S, p, js, ss).ses
<1>1. \/ ss2 = ss
      \/ ss2 = [s \in Sessions |-> [ss[s] EXCEPT !.watch = off(s)]]
      \/ ss2 = [s \in Sessions |-> [ss[s] EXCEPT !.watch = on(s)]]
  BY DEF Refreshed
<1> HIDE DEF off, on, ss2
<1>2. ASSUME NEW s \in Sessions
      PROVE  /\ ss2[s].status = ss[s].status /\ ss2[s].request = ss[s].request
             /\ ss2[s].cancelToken = ss[s].cancelToken
  <2>1. ss[s] \in Session
    OBVIOUS
  <2>2. \/ ss2[s] = ss[s] \/ ss2[s] = [ss[s] EXCEPT !.watch = off(s)]
        \/ ss2[s] = [ss[s] EXCEPT !.watch = on(s)]
    BY <1>1
  <2> QED BY <2>1, <2>2 DEF Session
<1> QED BY <1>2 DEF Same, ss2

\* Some sessions lose their auto-index job.
LEMMA Discharged ==
    ASSUME Owners(ses, watchSubs), NEW S, NEW ss,
           ss = [s \in Sessions |-> IF s \in S THEN [ses[s] EXCEPT !.autoJob = NoJob] ELSE ses[s]]
    PROVE  Owners(ss, watchSubs) /\ Same(ss)
<1>1. ASSUME NEW s \in Sessions
      PROVE  /\ ss[s] \in Session /\ ss[s].watch = ses[s].watch /\ ss[s].status = ses[s].status
             /\ ss[s].activeJob = ses[s].activeJob /\ ss[s].autoJob \in {NoJob, ses[s].autoJob}
             /\ ss[s].request = ses[s].request /\ ss[s].cancelToken = ses[s].cancelToken
  <2>1. ses[s] \in Session /\ ss[s] \in {ses[s], [ses[s] EXCEPT !.autoJob = NoJob]}
    BY DEF Owners
  <2> QED BY <2>1 DEF Session
<1>2. ss \in [Sessions -> Session]
  BY <1>1
<1>3. \A x \in watchSubs : x[1] \in Sessions /\ ses[x[1]].watch
  BY DEF Owners
<1>4. \A s \in Sessions : Gone(ss[s]) => Nothing(ss[s])
  BY <1>1 DEF Owners, Gone, Nothing
<1>5. Owners(ss, watchSubs)
  BY <1>1, <1>2, <1>3, <1>4 DEF Owners
<1> QED BY <1>1, <1>5 DEF Same

LEMMA JobOwners ==
    ASSUME OInv, NEW j \in Jobs, JobStep(j)
    PROVE  /\ Owners(ses', watchSubs') /\ Same(ses')
           /\ retry' = retry \/ retry' \subseteq {s \in Sessions : ses[s].status = "open"}
<1>1. CASE Publish(j)
  <2> DEFINE S == {s \in Sessions : ses[s].autoJob = j}
             ss == [s \in Sessions |-> IF s \in S THEN [ses[s] EXCEPT !.autoJob = NoJob] ELSE ses[s]]
  <2>1. PICK js :
          \/ ses' = ss /\ UNCHANGED watchSubs
          \/ /\ ses' = Refreshed(S, jobs[j].project, js, ss).ses
             /\ watchSubs' = Refreshed(S, jobs[j].project, js, ss).subs
    BY <1>1, Zenon DEF Publish, Refresh
  <2>2. S \in SUBSET Sessions
    OBVIOUS
  <2>3. Owners(ss, watchSubs) /\ Same(ss)
    BY Discharged DEF OInv
  <2>4. retry' \subseteq {s \in Sessions : ses[s].status = "open"}
    BY <1>1 DEF Publish, Revisited
  <2> HIDE DEF S, ss
  <2>5. \A s \in Sessions : ss[s].status = ses[s].status
    BY <2>3 DEF Same
  <2>6. ss \in [Sessions -> Session]
    BY <2>3 DEF Owners
  <2>7. CASE ses' = ss /\ UNCHANGED watchSubs
    BY <2>3, <2>4, <2>7
  <2>8. CASE /\ ses' = Refreshed(S, jobs[j].project, js, ss).ses
             /\ watchSubs' = Refreshed(S, jobs[j].project, js, ss).subs
    <3>1. Owners(ses', watchSubs')
      BY <2>2, <2>3, <2>5, <2>8, OwnersRefresh
    <3>2. Same(ses')
      BY <2>3, <2>6, <2>8, RefreshSame
    <3> QED BY <2>4, <3>1, <3>2
  <2> QED BY <2>1, <2>7, <2>8
<1>2. CASE ~Publish(j)
  <2>1. UNCHANGED <<ses, watchSubs, retry>>
    BY <1>2 DEF JobStep, JobThread, Gate, Attempt, Launch, Kill, Settle, WorkerEnds, JobFrame
  <2> QED BY <2>1, OwnersStay DEF OInv, Same
<1> QED BY <1>1, <1>2

LEMMA PartOwners ==
    ASSUME OInv, NEW s \in Sessions, CancelSession(s) \/ CloseSession(s)
    PROVE  Owners(ses', watchSubs')
<1>1. Owners(ses, watchSubs) /\ ses[s] \in Session
  BY DEF OInv, Owners
<1>2. CASE CancelSession(s)
  <2> DEFINE n == IF ses[s].active THEN ses[s].request ELSE ses[s].cancelToken
  <2>1. /\ ses' = [ses EXCEPT ![s] = [Release(s).ses EXCEPT !.status = "cancelled",
                                                            !.cancelToken = n]]
        /\ watchSubs' = Release(s).subs
    <3>1. Release(s).ses.cancelToken = ses[s].cancelToken
      BY <1>1 DEF Release, Session
    <3> QED BY <1>2, <3>1 DEF CancelSession
  <2>2. n \in Nat
    BY <1>1 DEF Session
  <2> HIDE DEF n
  <2> QED BY <1>1, <2>1, <2>2, Released
<1>3. CASE CloseSession(s)
  <2>1. /\ ses' = [ses EXCEPT ![s] = [Release(s).ses EXCEPT !.status = "closed"]]
        /\ watchSubs' = Release(s).subs
    BY <1>3 DEF CloseSession
  <2> QED BY <1>1, <2>1, Released
<1> QED BY <1>2, <1>3

LEMMA RetryOwners ==
    ASSUME OInv, NEW s \in Sessions, Retry(s)
    PROVE  Owners(ses', watchSubs') /\ Same(ses')
<1>1. Owners(ses, watchSubs) /\ ses[s] \in Session /\ ~Gone(ses[s])
  BY DEF OInv, Owners, Retry, Gone
<1>2. CASE Home[s] \in db
  <2> DEFINE r == [ses[s] EXCEPT !.pending = FALSE]
             ss == [ses EXCEPT ![s] = r]
  <2>1. /\ ses' = Refreshed({s}, Home[s], jobs, ss).ses
        /\ watchSubs' = Refreshed({s}, Home[s], jobs, ss).subs
    BY <1>2 DEF Retry, Refresh
  <2>2. /\ r \in Session /\ r.status = ses[s].status /\ r.watch = ses[s].watch
        /\ r.request = ses[s].request /\ r.cancelToken = ses[s].cancelToken
    BY <1>1 DEF Session
  <2> HIDE DEF r
  <2>3. Owners(ss, watchSubs)
    <3>1. ~Gone(r) /\ (ses[s].watch => r.watch)
      BY <1>1, <2>2 DEF Gone
    <3> QED BY <1>1, <2>2, <3>1, OwnersUpdate
  <2>4. Same(ss)
    BY <1>1, <2>2 DEF Same, Owners
  <2> HIDE DEF ss
  <2>5. ss \in [Sessions -> Session] /\ \A o \in Sessions : ss[o].status = ses[o].status
    BY <2>3, <2>4 DEF Owners, Same
  <2> QED BY <2>1, <2>3, <2>4, <2>5, OwnersRefresh, RefreshSame
<1>3. CASE Home[s] \notin db
  <2>1. PICK r \in Subscribe(jobs, Home[s], Default) :
            ses' = IF r.job = NoJob THEN ses
                   ELSE [ses EXCEPT ![s].autoJob = r.job, ![s].pending = FALSE]
    BY <1>3 DEF Retry
  <2>2. UNCHANGED watchSubs
    BY <1>3 DEF Retry
  <2> DEFINE k == r.job
             t == [ses[s] EXCEPT !.autoJob = k, !.pending = FALSE]
  <2>3. k \in Jobs \cup {NoJob}
    BY SubscribeJob
  <2>4. ses' = ses \/ ses' = [ses EXCEPT ![s] = t]
    BY <1>1, <2>1 DEF Owners
  <2> HIDE DEF k
  <2>5. /\ t \in Session /\ t.status = ses[s].status /\ t.watch = ses[s].watch
        /\ t.request = ses[s].request /\ t.cancelToken = ses[s].cancelToken
    BY <1>1, <2>3 DEF Session
  <2> HIDE DEF t
  <2>6. Same(ses')
    BY <1>1, <2>4, <2>5 DEF Same, Owners
  <2> QED BY <1>1, <2>2, <2>4, <2>5, <2>6, OwnersEdit, OwnersStay
<1> QED BY <1>2, <1>3

LEMMA OthersOwners ==
    ASSUME OInv, \/ \E c \in Callers : CallerStep(c) \/ \E p \in Projects : CallIndex(c, p) \/ CallMutate(c, p)
                 \/ \E s \in Sessions : Join(s)
                 \/ Pruned \/ Shutdown \/ Drained
    PROVE  Owners(ses', watchSubs') /\ Same(ses')
<1>1. Owners(ses, watchSubs)
  BY DEF OInv
<1>2. ASSUME UNCHANGED ses, watchSubs' \subseteq watchSubs PROVE Owners(ses', watchSubs') /\ Same(ses')
  BY <1>1, <1>2 DEF Owners, Same
<1>3. ASSUME NEW c \in Callers, CallerStep(c) PROVE Owners(ses', watchSubs') /\ Same(ses')
  BY <1>2, <1>3 DEF CallerStep, CallDone, MutationStep, Reserve, Lock, Mutate, BeginRelease,
     EndRelease, MutFrame
<1>4. ASSUME NEW c \in Callers, NEW p \in Projects, CallIndex(c, p)
      PROVE  Owners(ses', watchSubs') /\ Same(ses')
  <2>1. UNCHANGED ses
    BY <1>4 DEF CallIndex
  <2>2. CASE UNCHANGED watchSubs
    BY <1>2, <2>1, <2>2
  <2>3. CASE ~UNCHANGED watchSubs
    <3>1. PICK r \in Subscribe(Reap(jobs), p, Default) :
            r.job # NoJob /\ watchSubs' = watchSubs \cup WatchOwners(p, r.job)
      BY <1>4, <2>3, Zenon DEF CallIndex
    <3>2. r.job \in Jobs
      BY <3>1, SubscribeJob
    <3>3. \A x \in WatchOwners(p, r.job) : x \in Sessions \X Jobs /\ ses[x[1]].watch
      BY <3>2 DEF WatchOwners, Watching
    <3> QED BY <1>1, <2>1, <3>1, <3>3 DEF Owners, Same
  <2> QED BY <2>2, <2>3
<1>5. ASSUME NEW c \in Callers, NEW p \in Projects, CallMutate(c, p)
      PROVE  Owners(ses', watchSubs') /\ Same(ses')
  BY <1>2, <1>5 DEF CallMutate
<1>6. CASE Drained \/ \E s \in Sessions : Join(s)
  BY <1>2, <1>6 DEF Drained, Join
<1>7. CASE Pruned
  <2> DEFINE gone == UNION {Watching(ses, m.key) : m \in Own(Watcher)}
             off(s) == ses[s].watch /\ s \notin gone
             less == {x \in watchSubs : x[1] \notin gone}
  <2>1. /\ ses' = [s \in Sessions |-> [ses[s] EXCEPT !.watch = @ /\ s \notin gone]]
        /\ watchSubs' = less
    BY <1>7 DEF Pruned
  <2>2. less \subseteq watchSubs /\ \A x \in less : x[1] \notin gone
    OBVIOUS
  <2> HIDE DEF gone, less
  <2>3. Owners(ses', watchSubs')
    BY <1>1, <2>1, <2>2, OwnersUnwatch
  <2> HIDE DEF off
  <2>4. Same(ses')
    <3> SUFFICES ASSUME NEW s \in Sessions
                 PROVE  /\ ses'[s].status = ses[s].status /\ ses'[s].request = ses[s].request
                        /\ ses'[s].cancelToken = ses[s].cancelToken
      BY DEF Same
    <3>1. ses'[s] = [ses[s] EXCEPT !.watch = off(s)] /\ ses[s] \in Session
      BY <1>1, <2>1 DEF off, Owners
    <3> QED BY <3>1 DEF Session
  <2> QED BY <2>3, <2>4
<1>8. CASE Shutdown
  <2>1. ses' = [s \in Sessions |-> IF s \in Sessions THEN [ses[s] EXCEPT !.autoJob = NoJob] ELSE ses[s]]
    BY <1>8 DEF Shutdown
  <2>2. UNCHANGED watchSubs
    BY <1>8 DEF Shutdown
  <2>3. Owners(ses', watchSubs) /\ Same(ses')
    BY <1>1, <2>1, Discharged
  <2> QED BY <2>2, <2>3
<1> QED BY <1>3, <1>4, <1>5, <1>6, <1>7, <1>8

\* Steps of a request that leave its cancellation alone.
Passing(s) ==
    \/ Admit(s) \/ Parked(s) \/ Confirm(s) \/ Await(s) \/ RefreshWatch(s)
    \/ Background(s) \/ AutoAdmit(s) \/ RefreshAgain(s) \/ MutationStep(s)

LEMMA PassingSame == ASSUME OInv, NEW s \in Sessions, Passing(s) PROVE Same(ses')
<1>1. ses \in [Sessions -> Session] /\ ses[s] \in Session
  BY DEF OInv, Owners
<1>2. ASSUME UNCHANGED ses PROVE Same(ses')
  BY <1>2 DEF Same
<1>3. ASSUME NEW r, ses' = [ses EXCEPT ![s] = r], r.status = ses[s].status,
             r.request = ses[s].request, r.cancelToken = ses[s].cancelToken
      PROVE  Same(ses')
  BY <1>1, <1>3 DEF Same
<1>4. CASE Admit(s) \/ Parked(s) \/ MutationStep(s)
  BY <1>2, <1>4 DEF Admit, Parked, MutationStep, Reserve, Lock, Mutate, BeginRelease, EndRelease,
     MutFrame
<1>5. CASE Confirm(s) \/ Await(s)
  <2>1. PICK x : UNCHANGED ses \/ ses' = [ses EXCEPT ![s] = [ses[s] EXCEPT !.activeJob = x]]
    BY <1>5 DEF Confirm, Confirmed, Await
  <2> DEFINE r == [ses[s] EXCEPT !.activeJob = x]
  <2>2. r.status = ses[s].status /\ r.request = ses[s].request /\ r.cancelToken = ses[s].cancelToken
    BY <1>1 DEF Session
  <2> HIDE DEF r
  <2>3. UNCHANGED ses \/ ses' = [ses EXCEPT ![s] = r]
    BY <2>1 DEF r
  <2> QED BY <1>2, <1>3, <2>2, <2>3
<1>6. CASE RefreshWatch(s)
  <2> DEFINE i == ses[s].init \/ want[s].kind = "initialize"
             r == [ses[s] EXCEPT !.init = i]
             ss == [ses EXCEPT ![s] = r]
  <2>1. ses' = Refreshed({s}, Home[s], jobs, ss).ses
    BY <1>6 DEF RefreshWatch, Refresh
  <2>2. i \in BOOLEAN
    BY <1>1 DEF Session
  <2> HIDE DEF i
  <2>3. /\ r \in Session /\ r.status = ses[s].status /\ r.request = ses[s].request
        /\ r.cancelToken = ses[s].cancelToken
    BY <1>1, <2>2 DEF Session
  <2> HIDE DEF r
  <2>4. ss \in [Sessions -> Session] /\ Same(ss)
    BY <1>1, <2>3 DEF Same
  <2> HIDE DEF ss
  <2> QED BY <2>1, <2>4, RefreshSame
<1>7. CASE Background(s)
  <2> DEFINE b == AutoIndex /\ Home[s] \notin db
             r == [ses[s] EXCEPT !.needs = b]
  <2>1. ses' = [ses EXCEPT ![s] = r]
    BY <1>7 DEF Background
  <2> HIDE DEF b
  <2>2. r.status = ses[s].status /\ r.request = ses[s].request /\ r.cancelToken = ses[s].cancelToken
    BY <1>1 DEF Session
  <2> HIDE DEF r
  <2> QED BY <1>3, <2>1, <2>2
<1>8. CASE AutoAdmit(s)
  <2> DEFINE try == ses[s].autoJob = NoJob /\ (~ses[s].evaluated \/ ses[s].pending)
             ev == ses[s].evaluated \/ try
             pe == ses[s].pending /\ ~try
             q == [ses[s] EXCEPT !.eligible = TRUE, !.evaluated = ev, !.pending = pe]
             ready == [ses EXCEPT ![s].eligible = TRUE, ![s].evaluated = @ \/ try,
                                  ![s].pending = @ /\ ~try]
  <2>1. \/ UNCHANGED ses \/ ses' = ready
        \/ \E r : ses' = [ready EXCEPT ![s].autoJob = r.job, ![s].pending = r.job = NoJob]
    BY <1>8 DEF AutoAdmit
  <2>2. ready = [ses EXCEPT ![s] = q]
    BY <1>1
  <2> HIDE DEF ev, pe, try, ready
  <2>3. q.status = ses[s].status /\ q.request = ses[s].request /\ q.cancelToken = ses[s].cancelToken
    BY <1>1 DEF Session
  <2>4. ASSUME NEW r, ses' = [ready EXCEPT ![s].autoJob = r.job, ![s].pending = r.job = NoJob]
        PROVE  Same(ses')
    <3> DEFINE j == r.job
               b == r.job = NoJob
               t == [q EXCEPT !.autoJob = j, !.pending = b]
    <3>1. ses' = [ses EXCEPT ![s] = t]
      BY <1>1, <2>2, <2>4
    <3> HIDE DEF j, b
    <3>2. t.status = q.status /\ t.request = q.request /\ t.cancelToken = q.cancelToken
      BY <1>1 DEF Session
    <3> HIDE DEF t, q
    <3> QED BY <1>3, <2>3, <3>1, <3>2
  <2> HIDE DEF q
  <2> QED BY <1>2, <1>3, <2>1, <2>2, <2>3, <2>4
<1>9. CASE RefreshAgain(s)
  <2>1. ses' = Refreshed({s}, Home[s], jobs, ses).ses /\ Same(ses)
    BY <1>9 DEF RefreshAgain, Refresh, Same
  <2> QED BY <1>1, <2>1, RefreshSame
<1> QED BY <1>4, <1>5, <1>6, <1>7, <1>8, <1>9 DEF Passing

\* Pointers are to jobs, and the sessions to be revisited are connected.
LEMMA PointersKept ==
    ASSUME IInv, OInv, Next
    PROVE  at' \in [Actors -> Jobs \cup {NoJob}]
<1>1. ASSUME NEW a, NEW x \in Jobs \cup {NoJob}, at' = [at EXCEPT ![a] = x]
      PROVE  at' \in [Actors -> Jobs \cup {NoJob}]
  BY <1>1 DEF OInv
<1>2. ASSUME UNCHANGED at PROVE at' \in [Actors -> Jobs \cup {NoJob}]
  BY <1>2 DEF OInv
<1>3. ASSUME NEW s \in Sessions, Admit(s) PROVE at' \in [Actors -> Jobs \cup {NoJob}]
  BY <1>1, <1>3, SubscribeJob DEF Admit
<1>4. ASSUME NEW s \in Sessions, Confirm(s) \/ Await(s) PROVE at' \in [Actors -> Jobs \cup {NoJob}]
  BY <1>1, <1>2, <1>4 DEF Confirm, Confirmed, Await
<1>5. ASSUME NEW c \in Callers, CallDone(c) PROVE at' \in [Actors -> Jobs \cup {NoJob}]
  BY <1>1, <1>5 DEF CallDone
<1>6. ASSUME NEW c \in Callers, NEW p \in Projects, CallIndex(c, p)
      PROVE  at' \in [Actors -> Jobs \cup {NoJob}]
  <2>1. UNCHANGED at \/ \E r \in Subscribe(Reap(jobs), p, Default) : \E x :
            x \in {r.job, NoJob} /\ at' = [at EXCEPT ![c] = x]
    BY <1>6, Zenon DEF CallIndex
  <2> QED BY <1>1, <1>2, <2>1, SubscribeJob
<1>7. ASSUME NEW s \in Sessions,
             \/ Retry(s) \/ Open(s) \/ Submit(s) \/ CancelRequest(s) \/ CancelSession(s)
             \/ Join(s) \/ CloseSession(s) \/ Enter(s) \/ Parked(s) \/ RefreshWatch(s)
             \/ Complete(s) \/ Background(s) \/ AutoAdmit(s) \/ RefreshAgain(s)
      PROVE  UNCHANGED at
  BY <1>7 DEF Retry, Open, Submit, CancelRequest, CancelSession, Join, CloseSession, Enter, Parked,
     RefreshWatch, Complete, Background, AutoAdmit, RefreshAgain
<1>8. ASSUME NEW j \in Jobs, JobStep(j) PROVE UNCHANGED at
  BY <1>8 DEF JobStep, JobThread, Gate, Attempt, Launch, Kill, Settle, WorkerEnds, Publish, JobFrame
<1>9. ASSUME NEW a \in Actors, MutationStep(a) PROVE UNCHANGED at
  BY <1>9 DEF MutationStep, Reserve, Lock, Mutate, BeginRelease, EndRelease, MutFrame
<1>10. ASSUME NEW c \in Callers, NEW p \in Projects, CallMutate(c, p) PROVE UNCHANGED at
  BY <1>10 DEF CallMutate
<1>11. CASE Pruned \/ Shutdown \/ Drained
  BY <1>2, <1>11 DEF Pruned, Shutdown, Drained
<1> QED BY <1>2, <1>3, <1>4, <1>5, <1>6, <1>7, <1>8, <1>9, <1>10, <1>11
        DEF Next, RequestStep, CallerStep, Actors

LEMMA NextOwners == IInv /\ OInv /\ [Next]_vars => OInv'
<1> SUFFICES ASSUME IInv, OInv, [Next]_vars PROVE OInv'
  OBVIOUS
<1>1. CASE UNCHANGED vars
  BY <1>1 DEF vars, OInv, Owners
<1>2. CASE Next
  <2>1. at' \in [Actors -> Jobs \cup {NoJob}]
    BY <1>2, PointersKept
  <2>2. ASSUME retry' \subseteq {s \in Sessions : ses[s].status = "open"}, Same(ses'), Owners(ses', watchSubs')
        PROVE  OInv'
    BY <2>1, <2>2 DEF OInv, Same
  <2>3. retry \subseteq {s \in Sessions : ses[s].status = "open"}
    BY DEF OInv
  <2>4. ASSUME retry' = {}, Owners(ses', watchSubs') PROVE OInv'
    BY <2>1, <2>4 DEF OInv
  <2>5. ASSUME NEW s \in Sessions, Retry(s) PROVE OInv'
    <3>1. retry' \subseteq retry
      BY <2>5 DEF Retry
    <3> QED BY <2>2, <2>3, <2>5, <3>1, RetryOwners
  <2>6. ASSUME NEW s \in Sessions, RequestStep(s) \/ Submit(s) \/ Open(s) \/ CancelRequest(s), retry = {}
        PROVE  OInv'
    <3>1. UNCHANGED retry
      BY <2>6 DEF RequestStep, Submit, Open, CancelRequest, Enter, Admit, Parked, Confirm, Await,
         RefreshWatch, Complete, Background, AutoAdmit, RefreshAgain, MutationStep, Reserve, Lock,
         Mutate, BeginRelease, EndRelease, MutFrame
    <3> QED BY <2>4, <2>6, <3>1, RequestOwners
  <2>7. ASSUME NEW s \in Sessions, CancelSession(s) \/ CloseSession(s), retry = {} PROVE OInv'
    BY <2>4, <2>7, PartOwners DEF CancelSession, CloseSession
  <2>8. ASSUME NEW j \in Jobs, JobStep(j), retry = {} PROVE OInv'
    BY <2>2, <2>3, <2>8, JobOwners
  <2>9. ASSUME \/ \E c \in Callers : CallerStep(c) \/ \E p \in Projects : CallIndex(c, p) \/ CallMutate(c, p)
               \/ \E s \in Sessions : Join(s)
               \/ Pruned \/ Shutdown \/ Drained,
               retry = {}
        PROVE  OInv'
    <3>1. UNCHANGED retry
      BY <2>9 DEF CallerStep, CallDone, CallIndex, CallMutate, Join, Pruned, Shutdown, Drained,
         MutationStep, Reserve, Lock, Mutate, BeginRelease, EndRelease, MutFrame
    <3> QED BY <2>4, <2>9, <3>1, OthersOwners
  <2> QED BY <1>2, <2>5, <2>6, <2>7, <2>8, <2>9 DEF Next
<1> QED BY <1>1, <1>2

LEMMA InitOwners == Init => OInv
<1> SUFFICES ASSUME Init PROVE OInv
  OBVIOUS
<1>1. ses \in [Sessions -> Session]
  BY DEF Init, Session
<1>2. \A s \in Sessions : ses[s].status = "new"
  BY DEF Init
<1> QED BY <1>1, <1>2 DEF Init, OInv, Owners, Gone

-----------------------------------------------------------------------------
(* Who is told that a request was cancelled.                               *)

\* Until it completes, a request is to be answered as cancelled if its client asked
\* for that in time; then it is.
Told(s) ==
    /\ ses[s].cancelToken <= ses[s].request
    /\ pc[s] # "idle" => ses[s].status # "new" /\ ses[s].request > 0
    /\ InTime(s) => answer[s] = "none" /\ (asked[s] <=> CancelWon(s))
    /\ answer[s] \in {"done", "cancelled"} => (answer[s] = "cancelled" <=> asked[s])

TInv ==
    /\ asked \in [Sessions -> BOOLEAN]
    /\ answer \in [Sessions -> {"none", "done", "cancelled", "refused"}]
    /\ \A s \in Sessions : Told(s)

\* A session's request stays where it is, or goes on without its completion.
LEMMA ToldStays ==
    ASSUME TInv, NEW s \in Sessions, asked'[s] = asked[s], answer'[s] = answer[s],
           ses'[s].status = ses[s].status, ses'[s].request = ses[s].request,
           ses'[s].cancelToken = ses[s].cancelToken,
           pc'[s] = pc[s] \/ (pc[s] # "idle" /\ (InTime(s)' => InTime(s)))
    PROVE  Told(s)'
BY DEF TInv, Told, CancelWon, Hit, InTime

LEMMA ToldKept ==
    ASSUME TInv, Same(ses'), UNCHANGED history,
           \A s \in Sessions : pc'[s] = pc[s] \/ (pc[s] # "idle" /\ (InTime(s)' => InTime(s)))
    PROVE  TInv'
BY ToldStays DEF TInv, Same, history

\* One session's request begins, is cancelled, or ends.
LEMMA ToldOne ==
    ASSUME IInv, OInv, TInv, NEW s \in Sessions, NEW r \in Session, ses' = [ses EXCEPT ![s] = r],
           NEW l \in RequestPc, pc' = [pc EXCEPT ![s] = l],
           NEW q \in BOOLEAN, asked' = [asked EXCEPT ![s] = q],
           NEW x \in {"none", "done", "cancelled", "refused"}, answer' = [answer EXCEPT ![s] = x],
           r.cancelToken <= r.request,
           l # "idle" => r.status # "new" /\ r.request > 0,
           l \notin {"idle", "background", "admit", "again"}
               => x = "none" /\ (q <=> r.status # "open" \/ r.cancelToken = r.request),
           x \in {"done", "cancelled"} => (x = "cancelled" <=> q)
    PROVE  TInv'
<1>1. /\ ses \in [Sessions -> Session] /\ pc \in [Actors -> RequestPc] /\ s \in Actors
      /\ asked \in [Sessions -> BOOLEAN]
      /\ answer \in [Sessions -> {"none", "done", "cancelled", "refused"}]
  BY DEF OInv, Owners, IInv, ThreadsInv, TInv, Actors
<1>2. /\ asked' \in [Sessions -> BOOLEAN]
      /\ answer' \in [Sessions -> {"none", "done", "cancelled", "refused"}]
  BY <1>1
<1>3. ses'[s] = r /\ pc'[s] = l /\ asked'[s] = q /\ answer'[s] = x
  BY <1>1
<1>4. Told(s)'
  BY <1>3 DEF Told, CancelWon, Hit, InTime
<1>5. ASSUME NEW o \in Sessions \ {s} PROVE Told(o)'
  <2>1. ses'[o] = ses[o] /\ pc'[o] = pc[o] /\ asked'[o] = asked[o] /\ answer'[o] = answer[o]
    BY <1>1 DEF Actors
  <2> QED BY <2>1, ToldStays
<1> QED BY <1>2, <1>4, <1>5 DEF TInv

LEMMA GoStays ==
    ASSUME IInv, NEW a \in Actors, NEW l, Go(a, l),
           a \in Sessions => pc[a] # "idle" /\ (l \notin {"idle", "background", "admit", "again"} => InTime(a))
    PROVE  \A s \in Sessions : pc'[s] = pc[s] \/ (pc[s] # "idle" /\ (InTime(s)' => InTime(s)))
BY DEF IInv, ThreadsInv, Go, InTime, Actors

LEMMA PassingTold == ASSUME IInv, OInv, TInv, NEW s \in Sessions, Passing(s) PROVE TInv'
<1>1. UNCHANGED history
  BY DEF Passing, Admit, Parked, Confirm, Await, RefreshWatch, Background, AutoAdmit, RefreshAgain,
     MutationStep, Reserve, Lock, Mutate, BeginRelease, EndRelease, MutFrame
<1>2. PICK l : Go(s, l) \/ UNCHANGED pc
  BY DEF Passing, Admit, Parked, Confirm, Confirmed, Await, RefreshWatch, Background, AutoAdmit,
     RefreshAgain, MutationStep, Reserve, Refused, Lock, Mutate, BeginRelease, EndRelease
<1>3. pc[s] # "idle"
  BY DEF Passing, Admit, Parked, Confirm, Await, RefreshWatch, Background, AutoAdmit,
     RefreshAgain, MutationStep, Reserve, Lock, Mutate, BeginRelease, EndRelease
<1>4. CASE InTime(s)
  BY <1>1, <1>2, <1>3, <1>4, PassingSame, GoStays, ToldKept DEF Actors
<1>5. CASE ~InTime(s)
  <2>1. \E k \in {"admit", "again", "idle"} : Go(s, k)
    BY <1>5 DEF Passing, InTime, Admit, Parked, Confirm, Await, RefreshWatch, Background, AutoAdmit,
       RefreshAgain, MutationStep, Reserve, Lock, Mutate, BeginRelease, EndRelease
  <2> QED BY <1>1, <1>3, <2>1, PassingSame, GoStays, ToldKept DEF Actors
<1> QED BY <1>4, <1>5

LEMMA SessionTold ==
    ASSUME IInv, OInv, TInv, NEW s \in Sessions,
           \/ Open(s) \/ Submit(s) \/ Enter(s) \/ Complete(s) \/ CancelRequest(s)
           \/ CancelSession(s) \/ CloseSession(s)
    PROVE  TInv'
<1>1. /\ ses \in [Sessions -> Session] /\ ses[s] \in Session /\ s \in Actors /\ Told(s)
      /\ pc \in [Actors -> RequestPc] /\ pc[s] \in RequestPc
      /\ asked \in [Sessions -> BOOLEAN] /\ asked[s] \in BOOLEAN
      /\ answer \in [Sessions -> {"none", "done", "cancelled", "refused"}]
      /\ answer[s] \in {"none", "done", "cancelled", "refused"}
  BY DEF OInv, Owners, IInv, ThreadsInv, TInv, Actors
<1>2. /\ pc = [pc EXCEPT ![s] = pc[s]] /\ asked = [asked EXCEPT ![s] = asked[s]]
      /\ answer = [answer EXCEPT ![s] = answer[s]]
  BY <1>1
<1>3. CASE Open(s)
  <2> DEFINE r == [ses[s] EXCEPT !.status = "open"]
  <2>1. ses' = [ses EXCEPT ![s] = r] /\ UNCHANGED <<pc, asked, answer>> /\ ses[s].status = "new"
    BY <1>3 DEF Open, history
  <2>2. /\ r \in Session /\ r.status = "open" /\ r.request = ses[s].request
        /\ r.cancelToken = ses[s].cancelToken
    BY <1>1 DEF Session
  <2>3. pc[s] = "idle"
    BY <1>1, <2>1 DEF Told
  <2> HIDE DEF r
  <2>4. /\ r.cancelToken <= r.request
        /\ answer[s] \in {"done", "cancelled"} => (answer[s] = "cancelled" <=> asked[s])
    BY <1>1, <2>2 DEF Told
  <2>5. /\ pc[s] # "idle" => r.status # "new" /\ r.request > 0
        /\ pc[s] \notin {"idle", "background", "admit", "again"}
               => answer[s] = "none" /\ (asked[s] <=> r.status # "open" \/ r.cancelToken = r.request)
    BY <2>3
  <2>6. /\ ses' = [ses EXCEPT ![s] = r] /\ pc' = [pc EXCEPT ![s] = pc[s]]
        /\ asked' = [asked EXCEPT ![s] = asked[s]] /\ answer' = [answer EXCEPT ![s] = answer[s]]
    BY <1>2, <2>1
  <2> QED BY ONLY IInv, OInv, TInv, <1>1, <2>2, <2>4, <2>5, <2>6, ToldOne
<1>4. CASE Submit(s)
  <2> DEFINE r == [ses[s] EXCEPT !.request = @ + 1]
  <2>1. /\ ses' = [ses EXCEPT ![s] = r] /\ pc' = [pc EXCEPT ![s] = "entry"]
        /\ asked' = [asked EXCEPT ![s] = FALSE] /\ answer' = [answer EXCEPT ![s] = "none"]
        /\ ses[s].status = "open"
    BY <1>4 DEF Submit, Go
  <2>2. /\ r \in Session /\ r.status = ses[s].status /\ r.request = ses[s].request + 1
        /\ r.cancelToken = ses[s].cancelToken
    BY <1>1 DEF Session
  <2>3. ses[s].request \in Nat /\ ses[s].cancelToken \in Nat
    BY <1>1 DEF Session
  <2>4. "entry" \in RequestPc
    BY DEF RequestPc
  <2> HIDE DEF r
  <2>5. /\ r.cancelToken <= r.request /\ r.request > 0 /\ r.status = "open"
        /\ r.cancelToken # r.request
    BY <1>1, <2>1, <2>2, <2>3 DEF Told
  <2> QED BY <2>1, <2>2, <2>4, <2>5, ToldOne
<1>5. CASE Enter(s)
  <2>1. CASE stopping \/ ses[s].status # "open"
    <3>1. /\ UNCHANGED <<ses, asked>> /\ pc' = [pc EXCEPT ![s] = "idle"]
          /\ answer' = [answer EXCEPT ![s] = "refused"]
      BY <1>5, <2>1 DEF Enter, Go
    <3>2. ses = [ses EXCEPT ![s] = ses[s]] /\ "idle" \in RequestPc
      BY <1>1 DEF RequestPc
    <3> QED BY <1>1, <1>2, <3>1, <3>2, ToldOne DEF Told
  <2>2. CASE ~(stopping \/ ses[s].status # "open")
    <3> DEFINE n == IF Hit(s) THEN ses[s].cancelToken ELSE 0
               r == [ses[s] EXCEPT !.active = TRUE, !.cancelToken = n]
    <3>1. /\ ses' = [ses EXCEPT ![s] = r] /\ UNCHANGED <<asked, answer>>
          /\ pc[s] = "entry" /\ ses[s].status = "open"
      BY <1>5, <2>2 DEF Enter
    <3>2. PICK l \in {"complete", "index", "reserve", "refresh"} : pc' = [pc EXCEPT ![s] = l]
      BY <1>5, <2>2 DEF Enter, Go
    <3>3. ses[s].request \in Nat /\ ses[s].cancelToken \in Nat /\ ses[s].request > 0
      BY <1>1, <3>1 DEF Session, Told
    <3>4. n \in Nat /\ n <= ses[s].request /\ (n = ses[s].request <=> Hit(s))
      BY <1>1, <3>3 DEF Told, Hit
    <3> HIDE DEF n
    <3>5. /\ r \in Session /\ r.status = ses[s].status /\ r.request = ses[s].request
          /\ r.cancelToken = n
      BY <1>1, <3>4 DEF Session
    <3> HIDE DEF r
    <3>6. answer[s] = "none" /\ (asked[s] <=> Hit(s))
      BY <1>1, <3>1 DEF Told, InTime, CancelWon
    <3>7. l \in RequestPc
      BY <3>2 DEF RequestPc
    <3>8. /\ r.cancelToken <= r.request /\ r.status = "open" /\ r.request > 0
          /\ (asked[s] <=> r.status # "open" \/ r.cancelToken = r.request)
      BY <3>1, <3>3, <3>4, <3>5, <3>6
    <3> QED BY <1>1, <1>2, <3>1, <3>2, <3>5, <3>6, <3>7, <3>8, ToldOne
  <2> QED BY <2>1, <2>2
<1>6. CASE Complete(s)
  <2> DEFINE n == IF Hit(s) THEN 0 ELSE ses[s].cancelToken
             r == [ses[s] EXCEPT !.active = FALSE, !.init = FALSE, !.cancelToken = n]
             x == IF CancelWon(s) THEN "cancelled" ELSE "done"
  <2>1. /\ ses' = [ses EXCEPT ![s] = r] /\ UNCHANGED asked /\ pc[s] = "complete"
        /\ answer' = [answer EXCEPT ![s] = x]
    BY <1>6 DEF Complete
  <2>2. PICK l \in {"background", "idle"} : pc' = [pc EXCEPT ![s] = l]
    BY <1>6 DEF Complete, Go
  <2>3. ses[s].request \in Nat /\ ses[s].cancelToken \in Nat
    BY <1>1 DEF Session
  <2>4. n \in Nat /\ n <= ses[s].request
    BY <1>1, <2>3 DEF Told
  <2> HIDE DEF n
  <2>5. /\ r \in Session /\ r.status = ses[s].status /\ r.request = ses[s].request
        /\ r.cancelToken = n
    BY <1>1, <2>4 DEF Session
  <2> HIDE DEF r
  <2>6. (x = "cancelled" <=> asked[s]) /\ x \in {"none", "done", "cancelled", "refused"}
    BY <1>1, <2>1 DEF Told, InTime
  <2>7. l \in RequestPc
    BY <2>2 DEF RequestPc
  <2>8. r.cancelToken <= r.request /\ r.status # "new" /\ r.request > 0
    BY <1>1, <2>1, <2>4, <2>5 DEF Told
  <2> HIDE DEF x
  <2> QED BY <1>1, <1>2, <2>1, <2>2, <2>5, <2>6, <2>7, <2>8, ToldOne
<1>7. CASE CancelRequest(s)
  <2> DEFINE n == ses[s].request
             j == IF ses[s].active /\ ses[s].activeJob # NoJob THEN NoJob ELSE ses[s].activeJob
             r == [ses[s] EXCEPT !.cancelToken = n, !.activeJob = j]
             q == asked[s] \/ InTime(s)
  <2>1. /\ ses' = [ses EXCEPT ![s] = r] /\ asked' = [asked EXCEPT ![s] = q]
        /\ UNCHANGED <<pc, answer>> /\ ses[s].status = "open" /\ pc[s] # "idle"
    BY <1>1, <1>7 DEF CancelRequest
  <2>2. n \in Nat /\ j \in Jobs \cup {NoJob} /\ q \in BOOLEAN
    BY <1>1 DEF Session, InTime
  <2>3. (n > 0 /\ answer[s] = "none") \/ ~InTime(s)
    BY <1>1, <2>1 DEF Told
  <2>4. answer[s] \in {"done", "cancelled"} => (answer[s] = "cancelled" <=> q)
    BY <1>1 DEF Told
  <2>5. InTime(s) => answer[s] = "none" /\ q
    BY <1>1 DEF Told
  <2>6. n > 0
    BY <1>1, <2>1 DEF Told
  <2> HIDE DEF n, j, q
  <2>7. /\ r \in Session /\ r.status = ses[s].status /\ r.request = ses[s].request
        /\ r.cancelToken = n
    BY <1>1, <2>2 DEF Session
  <2>8. r.request = n
    BY <2>7 DEF n
  <2> HIDE DEF r
  <2>9. r.cancelToken <= r.request /\ r.request > 0 /\ r.status # "new"
    BY <2>1, <2>2, <2>6, <2>7, <2>8
  <2>10. pc[s] \notin {"idle", "background", "admit", "again"}
            => answer[s] = "none" /\ (q <=> r.status # "open" \/ r.cancelToken = r.request)
    BY <2>5, <2>7, <2>8 DEF InTime
  <2> QED BY <1>1, <1>2, <2>1, <2>2, <2>4, <2>7, <2>9, <2>10, ToldOne
<1>8. CASE CancelSession(s)
  <2> DEFINE n == IF ses[s].active THEN ses[s].request ELSE ses[s].cancelToken
             z == [ses[s] EXCEPT !.activeJob = NoJob, !.autoJob = NoJob, !.watch = FALSE]
             r == [z EXCEPT !.status = "cancelled", !.cancelToken = n]
             q == asked[s] \/ InTime(s)
  <2>1. Release(s).ses = z
    BY DEF Release
  <2>2. /\ z \in Session /\ z.request = ses[s].request /\ z.cancelToken = ses[s].cancelToken
    BY <1>1 DEF Session
  <2> HIDE DEF z
  <2>3. /\ ses' = [ses EXCEPT ![s] = r] /\ asked' = [asked EXCEPT ![s] = q]
        /\ UNCHANGED <<pc, answer>>
    BY <1>8, <2>1, <2>2 DEF CancelSession
  <2>4. n \in Nat /\ n <= ses[s].request /\ q \in BOOLEAN
    BY <1>1 DEF Session, Told, InTime
  <2>5. answer[s] \in {"done", "cancelled"} => (answer[s] = "cancelled" <=> q)
    BY <1>1 DEF Told
  <2>6. InTime(s) => answer[s] = "none" /\ q
    BY <1>1 DEF Told
  <2> HIDE DEF n, q
  <2>7. /\ r \in Session /\ r.status = "cancelled" /\ r.request = ses[s].request
        /\ r.cancelToken = n
    BY <2>2, <2>4 DEF Session
  <2>8. pc[s] # "idle" => r.request > 0
    BY <1>1, <2>7 DEF Told
  <2> HIDE DEF r
  <2>9. r.cancelToken <= r.request /\ r.status # "new"
    BY <2>4, <2>7
  <2>10. pc[s] \notin {"idle", "background", "admit", "again"}
            => answer[s] = "none" /\ (q <=> r.status # "open" \/ r.cancelToken = r.request)
    BY <2>6, <2>7 DEF InTime
  <2> QED BY ZenonT(30), <1>1, <1>2, <2>3, <2>4, <2>5, <2>7, <2>8, <2>9, <2>10, ToldOne
<1>9. CASE CloseSession(s)
  <2> DEFINE z == [ses[s] EXCEPT !.activeJob = NoJob, !.autoJob = NoJob, !.watch = FALSE]
             r == [z EXCEPT !.status = "closed"]
  <2>1. Release(s).ses = z
    BY DEF Release
  <2>2. /\ ses' = [ses EXCEPT ![s] = r] /\ UNCHANGED <<pc, asked, answer>> /\ pc[s] = "idle"
    BY <1>9, <2>1 DEF CloseSession, history
  <2>3. /\ r \in Session /\ r.request = ses[s].request /\ r.cancelToken = ses[s].cancelToken
    BY <1>1 DEF Session
  <2> HIDE DEF r
  <2>4. /\ r.cancelToken <= r.request
        /\ answer[s] \in {"done", "cancelled"} => (answer[s] = "cancelled" <=> asked[s])
    BY <1>1, <2>3 DEF Told
  <2>5. /\ pc' = [pc EXCEPT ![s] = "idle"] /\ "idle" \in RequestPc
        /\ asked' = [asked EXCEPT ![s] = asked[s]] /\ answer' = [answer EXCEPT ![s] = answer[s]]
    BY <1>1, <1>2, <2>2 DEF RequestPc
  <2> QED BY <1>1, <2>2, <2>3, <2>4, <2>5, ToldOne
<1> QED BY <1>3, <1>4, <1>5, <1>6, <1>7, <1>8, <1>9

LEMMA NextTold == IInv /\ OInv /\ TInv /\ [Next]_vars => TInv'
<1> SUFFICES ASSUME IInv, OInv, TInv, [Next]_vars PROVE TInv'
  OBVIOUS
<1>1. ASSUME NEW s \in Sessions,
             \/ Open(s) \/ Submit(s) \/ Enter(s) \/ Complete(s) \/ CancelRequest(s)
             \/ CancelSession(s) \/ CloseSession(s) \/ Passing(s)
      PROVE  TInv'
  BY <1>1, SessionTold, PassingTold
<1>2. ASSUME UNCHANGED <<history, pc>>, Same(ses') PROVE TInv'
  BY <1>2, ToldKept
<1>3. ASSUME NEW a \in Callers, NEW l, Go(a, l), UNCHANGED history, Same(ses') PROVE TInv'
  <2>1. a \in Actors /\ a \notin Sessions
    BY NamesAssumption DEF Actors
  <2> QED BY <1>3, <2>1, GoStays, ToldKept
<1>4. ASSUME NEW s \in Sessions, Retry(s) PROVE TInv'
  BY <1>2, <1>4, RetryOwners DEF Retry
<1>5. ASSUME NEW j \in Jobs, JobStep(j) PROVE TInv'
  <2>1. UNCHANGED <<history, pc>>
    BY <1>5 DEF JobStep, JobThread, Gate, Attempt, Launch, Kill, Settle, WorkerEnds, Publish, JobFrame
  <2> QED BY <1>2, <1>5, <2>1, JobOwners
<1>6. ASSUME NEW c \in Callers, CallerStep(c) PROVE TInv'
  <2>1. UNCHANGED history
    BY <1>6 DEF CallerStep, CallDone, MutationStep, Reserve, Lock, Mutate, BeginRelease,
       EndRelease, MutFrame
  <2>2. (\E l : Go(c, l)) \/ UNCHANGED pc
    BY <1>6 DEF CallerStep, CallDone, MutationStep, Reserve, Refused, Lock, Mutate, BeginRelease,
       EndRelease
  <2> QED BY <1>2, <1>3, <1>6, <2>1, <2>2, OthersOwners
<1>7. ASSUME NEW c \in Callers, NEW p \in Projects, CallIndex(c, p) \/ CallMutate(c, p) PROVE TInv'
  <2>1. UNCHANGED history
    BY <1>7 DEF CallIndex, CallMutate
  <2>2. (\E l : Go(c, l)) \/ UNCHANGED pc
    BY <1>7 DEF CallIndex, CallMutate
  <2> QED BY <1>2, <1>3, <1>7, <2>1, <2>2, OthersOwners
<1>8. CASE Shutdown \/ Drained \/ \E s \in Sessions : Join(s)
  <2>1. UNCHANGED <<history, pc>>
    BY <1>8 DEF Shutdown, Drained, Join
  <2> QED BY <1>2, <1>8, <2>1, OthersOwners
<1>9. CASE Pruned
  BY <1>3, <1>9, OthersOwners DEF Pruned
<1>10. CASE UNCHANGED vars
  BY <1>2, <1>10 DEF vars, history, Same
<1> QED BY <1>1, <1>4, <1>5, <1>6, <1>7, <1>8, <1>9, <1>10 DEF Next, RequestStep, Passing

-----------------------------------------------------------------------------
(* Counting references.                                                    *)

One(b) == IF b THEN 1 ELSE 0

\* Two finite sets that differ in one element at most.
LEMMA CountChange ==
    ASSUME NEW A, NEW B, NEW x, IsFiniteSet(A), B \ {x} = A \ {x}
    PROVE  /\ IsFiniteSet(B) /\ Cardinality(A) \in Nat /\ Cardinality(B) \in Nat
           /\ Cardinality(B) + One(x \in A) = Cardinality(A) + One(x \in B)
<1> DEFINE C == A \ {x}
<1>1. IsFiniteSet(C) /\ Cardinality(C) \in Nat
  BY FS_RemoveElement, FS_CardinalityType
<1>2. A = C \/ (A = C \cup {x} /\ x \in A)
  OBVIOUS
<1>3. B = C \/ (B = C \cup {x} /\ x \in B)
  OBVIOUS
<1>4. x \notin C /\ IsFiniteSet(C \cup {x}) /\ Cardinality(C \cup {x}) = Cardinality(C) + 1
  BY <1>1, FS_AddElement
<1>5. (x \in A <=> A # C) /\ (x \in B <=> B # C)
  BY <1>2, <1>3
<1> HIDE DEF C
<1> QED BY <1>1, <1>2, <1>3, <1>4, <1>5 DEF One

\* Who watches job j, as pairs and as sessions.
Of(ws, j) == {x \in ws : x[2] = j}

LEMMA Column ==
    ASSUME NEW ws, ws \subseteq Sessions \X Jobs, NEW j \in Jobs
    PROVE  /\ IsFiniteSet(Of(ws, j))
           /\ Cardinality(Of(ws, j)) = Cardinality({s \in Sessions : <<s, j>> \in ws})
<1> DEFINE S == {s \in Sessions : <<s, j>> \in ws}
           T == Of(ws, j)
           f == [s \in S |-> <<s, j>>]
<1>1. IsFiniteSet(S)
  BY FinitenessAssumption, FS_Subset
<1>2. f \in [S -> T]
  BY DEF Of
<1>3. \A s, t \in S : f[s] = f[t] => s = t
  OBVIOUS
<1>4. \A x \in T : \E s \in S : f[s] = x
  <2> SUFFICES ASSUME NEW x \in T PROVE \E s \in S : f[s] = x
    OBVIOUS
  <2>1. x = <<x[1], j>> /\ x[1] \in Sessions /\ x \in ws
    BY DEF Of
  <2> QED BY <2>1
<1>5. f \in Bijection(S, T)
  BY <1>2, <1>3, <1>4 DEF Bijection, Injection, Surjection, IsInjective
<1>6. ExistsBijection(S, T)
  BY <1>5 DEF ExistsBijection
<1> HIDE DEF f, S, T
<1>7. IsFiniteSet(T) /\ Cardinality(T) = Cardinality(S)
  BY <1>1, <1>6, FS_Bijection
<1> QED BY <1>7 DEF S, T

\* What is left of them when the sessions of T leave.
LEMMA ColumnLeft ==
    ASSUME NEW ws, ws \subseteq Sessions \X Jobs, NEW j \in Jobs, NEW T \in SUBSET Sessions
    PROVE  LET less == {x \in ws : x[1] \notin T}
           IN  /\ Cardinality({s \in T : <<s, j>> \in ws}) \in Nat
               /\ Cardinality(Of(less, j)) \in Nat
               /\ Cardinality(Of(ws, j))
                    = Cardinality(Of(less, j)) + Cardinality({s \in T : <<s, j>> \in ws})
<1> DEFINE less == {x \in ws : x[1] \notin T}
           S == {s \in Sessions : <<s, j>> \in ws}
           U == {s \in Sessions : <<s, j>> \in less}
           V == {s \in T : <<s, j>> \in ws}
<1>1. less \subseteq Sessions \X Jobs
  OBVIOUS
<1>2. S = U \cup V /\ U \cap V = {} /\ U \subseteq Sessions /\ V \subseteq Sessions
  OBVIOUS
<1>3. /\ Cardinality(Of(ws, j)) = Cardinality(S)
      /\ Cardinality(Of(less, j)) = Cardinality(U)
  <2> HIDE DEF less
  <2> QED BY <1>1, Column
<1>4. IsFiniteSet(U) /\ IsFiniteSet(V)
  <2> HIDE DEF U, V, S
  <2> QED BY <1>2, FinitenessAssumption, FS_Subset
<1> HIDE DEF U, V, S
<1>5. Cardinality(U) \in Nat /\ Cardinality(V) \in Nat
  BY <1>4, FS_CardinalityType
<1>6. Cardinality(S) = Cardinality(U) + Cardinality(V)
  <2>1. Cardinality(U \cup V) = Cardinality(U) + Cardinality(V) - Cardinality(U \cap V)
    BY <1>4, FS_Union
  <2>2. Cardinality(U \cap V) = 0
    BY <1>2, FS_EmptySet
  <2> QED BY <1>2, <1>5, <2>1, <2>2
<1> QED BY <1>3, <1>5, <1>6 DEF V

\* What becomes of them when other pairs come.
LEMMA ColumnMore ==
    ASSUME NEW ws, ws \subseteq Sessions \X Jobs, NEW late, late \subseteq Sessions \X Jobs,
           NEW j \in Jobs
    PROVE  /\ Cardinality(Of(ws, j)) \in Nat
           /\ Cardinality(Of(late \ ws, j)) \in Nat
           /\ Cardinality(Of(ws \cup late, j))
                = Cardinality(Of(ws, j)) + Cardinality(Of(late \ ws, j))
<1> DEFINE A == Of(ws, j)
           B == Of(late \ ws, j)
           C == Of(ws \cup late, j)
<1>1. C = A \cup B /\ A \cap B = {}
  BY DEF Of
<1>2. IsFiniteSet(A) /\ IsFiniteSet(B)
  <2>1. late \ ws \subseteq Sessions \X Jobs
    OBVIOUS
  <2> QED BY <2>1, Column
<1> HIDE DEF A, B, C
<1>3. Cardinality(A) \in Nat /\ Cardinality(B) \in Nat
  BY <1>2, FS_CardinalityType
<1>4. Cardinality(C) = Cardinality(A) + Cardinality(B)
  <2>1. Cardinality(A \cup B) = Cardinality(A) + Cardinality(B) - Cardinality(A \cap B)
    BY <1>2, FS_Union
  <2>2. Cardinality(A \cap B) = 0
    BY <1>1, FS_EmptySet
  <2> QED BY <1>1, <1>3, <2>1, <2>2
<1> QED BY <1>3, <1>4 DEF A, B, C

-----------------------------------------------------------------------------
(* The books of the jobs: f[j] references that keep job j going, l[j] that *)
(* only wait for its end, w[j] callers that wait without a reference.      *)

Alive(r) == r.phase \notin {"free", "terminal"}

Entry(r, f, l, w, st) ==
    /\ r \in Job /\ r.subs = f + l /\ r.waiters = w
    /\ r.phase = "free" => r.subs = 0 /\ r.waiters = 0
    /\ Alive(r) => IF r.cancel THEN st \/ f = 0 ELSE r.subs > 0

Tally(js, f, l, w, st) ==
    /\ js = [j \in Jobs |-> js[j]]
    /\ \A j \in Jobs : f[j] \in Nat /\ l[j] \in Nat /\ w[j] \in Nat
    /\ \A j \in Jobs : Entry(js[j], f[j], l[j], w[j], st)

\* A job whose record changes in what the books mention.
LEMMA Entered ==
    ASSUME NEW r, NEW st, NEW f \in Nat, NEW l \in Nat, NEW w \in Nat, Entry(r, f, l, w, st),
           NEW f2 \in Nat, NEW l2 \in Nat, NEW w2 \in Nat, NEW st2,
           NEW c \in BOOLEAN, NEW q,
           q = [r EXCEPT !.subs = f2 + l2, !.cancel = c, !.waiters = w2],
           r.phase = "free" => f2 + l2 = 0 /\ w2 = 0,
           Alive(r) => IF c THEN st2 \/ f2 = 0 ELSE f2 + l2 > 0
    PROVE  Entry(q, f2, l2, w2, st2)
<1>1. r \in Job /\ f2 + l2 \in Nat
  BY DEF Entry
<1> DEFINE n == f2 + l2
<1>2. n \in Nat /\ q = [r EXCEPT !.subs = n, !.cancel = c, !.waiters = w2]
  BY <1>1
<1>3. n = f2 + l2
  OBVIOUS
<1> HIDE DEF n
<1>4. q \in Job /\ q.phase = r.phase /\ q.subs = n /\ q.waiters = w2 /\ q.cancel = c
  BY <1>1, <1>2 DEF Job
<1> QED BY <1>3, <1>4 DEF Entry, Alive

LEMMA TallyDrop ==
    ASSUME NEW js, NEW f, NEW l, NEW w, NEW st, Tally(js, f, l, w, st),
           NEW f2, NEW l2, NEW n,
           \A j \in Jobs : /\ f2[j] \in Nat /\ l2[j] \in Nat /\ n[j] \in Nat
                           /\ f2[j] <= f[j] /\ f[j] + l[j] = f2[j] + l2[j] + n[j]
    PROVE  Tally(Drop(js, n), f2, l2, w, st)
<1> DEFINE left(j) == IF js[j].subs > n[j] THEN js[j].subs - n[j] ELSE 0
           gone(j) == js[j].cancel \/ /\ Orphaned(left(j)) /\ js[j].subs > 0 /\ n[j] > 0
                                      /\ js[j].phase # "terminal"
           js2 == [j \in Jobs |-> [js[j] EXCEPT !.subs = left(j), !.cancel = gone(j)]]
<1>1. Drop(js, n) = js2
  BY Zenon DEF Drop
<1>2. ASSUME NEW j \in Jobs
      PROVE  Entry(js2[j], f2[j], l2[j], w[j], st)
  <2> DEFINE r == js[j]
             c == gone(j)
  <2>1. /\ f[j] \in Nat /\ l[j] \in Nat /\ w[j] \in Nat /\ Entry(r, f[j], l[j], w[j], st)
        /\ f2[j] \in Nat /\ l2[j] \in Nat /\ n[j] \in Nat
        /\ f2[j] <= f[j] /\ f[j] + l[j] = f2[j] + l2[j] + n[j]
    BY DEF Tally
  <2>2. r \in Job /\ r.subs = f[j] + l[j] /\ r.waiters = w[j] /\ r.cancel \in BOOLEAN
    BY <2>1 DEF Entry, Job
  <2>3. left(j) = f2[j] + l2[j]
    <3> DEFINE m == js[j].subs
               k == f2[j] + l2[j]
    <3>1. m \in Nat /\ k \in Nat /\ m = k + n[j]
      BY <2>1, <2>2
    <3> HIDE DEF m, k
    <3>2. (IF m > n[j] THEN m - n[j] ELSE 0) = k
      BY <2>1, <3>1
    <3> QED BY <3>2 DEF m, k
  <2>4. c \in BOOLEAN
    BY <2>2 DEF Orphaned
  <2>5. js2[j] = [r EXCEPT !.subs = f2[j] + l2[j], !.cancel = c, !.waiters = w[j]]
    <3> DEFINE x == left(j)
    <3>1. js2[j] = [r EXCEPT !.subs = x, !.cancel = c]
      OBVIOUS
    <3> HIDE DEF c, js2, x
    <3>2. r = [r EXCEPT !.waiters = w[j]]
      BY <2>2 DEF Job
    <3>3. x = f2[j] + l2[j]
      BY <2>3 DEF x
    <3> HIDE DEF r
    <3> QED BY <2>2, <3>1, <3>2, <3>3 DEF Job
  <2>6. r.phase = "free" => f2[j] + l2[j] = 0 /\ w[j] = 0
    BY <2>1, <2>2 DEF Entry
  <2>7. Alive(r) => IF c THEN st \/ f2[j] = 0 ELSE f2[j] + l2[j] > 0
    BY <2>1, <2>2, <2>3 DEF Entry, Alive, Orphaned
  <2> HIDE DEF c, js2, r
  <2> QED BY <2>1, <2>4, <2>5, <2>6, <2>7, Entered
<1>3. js2 = [j \in Jobs |-> js2[j]]
  OBVIOUS
<1> HIDE DEF js2
<1> QED BY <1>1, <1>2, <1>3 DEF Tally

\* What holds of every job's entry holds of the books.
LEMMA TallyEach ==
    ASSUME NEW js, NEW f, NEW l, NEW w, NEW st, Tally(js, f, l, w, st),
           NEW js2, NEW f2, NEW l2, NEW w2, NEW st2, js2 = [j \in Jobs |-> js2[j]],
           \A j \in Jobs : f2[j] \in Nat /\ l2[j] \in Nat /\ w2[j] \in Nat,
           \A j \in Jobs : Entry(js[j], f[j], l[j], w[j], st)
                => Entry(js2[j], f2[j], l2[j], w2[j], st2)
    PROVE  Tally(js2, f2, l2, w2, st2)
BY DEF Tally

LEMMA TallyOne ==
    ASSUME NEW js, NEW f, NEW l, NEW w, NEW st, Tally(js, f, l, w, st),
           NEW j \in Jobs, NEW q, NEW f2, NEW l2, NEW w2,
           f2[j] \in Nat, l2[j] \in Nat, w2[j] \in Nat,
           \A i \in Jobs \ {j} : f2[i] = f[i] /\ l2[i] = l[i] /\ w2[i] = w[i],
           Entry(q, f2[j], l2[j], w2[j], st)
    PROVE  Tally([js EXCEPT ![j] = q], f2, l2, w2, st)
<1> DEFINE js2 == [js EXCEPT ![j] = q]
<1>1. js2 = [i \in Jobs |-> js2[i]] /\ js2[j] = q /\ \A i \in Jobs \ {j} : js2[i] = js[i]
  BY DEF Tally
<1> HIDE DEF js2
<1>2. \A i \in Jobs : f2[i] \in Nat /\ l2[i] \in Nat /\ w2[i] \in Nat
  BY DEF Tally
<1>3. \A i \in Jobs : Entry(js2[i], f2[i], l2[i], w2[i], st)
  BY <1>1 DEF Tally
<1> QED BY <1>1, <1>2, <1>3 DEF Tally, js2

\* The same books, under other names.
LEMMA TallySame ==
    ASSUME NEW js, NEW f, NEW l, NEW w, NEW st, Tally(js, f, l, w, st), NEW f2, NEW l2, NEW w2,
           \A j \in Jobs : f2[j] = f[j] /\ l2[j] = l[j] /\ w2[j] = w[j]
    PROVE  Tally(js, f2, l2, w2, st)
BY DEF Tally

LEMMA TallyStops ==
    ASSUME NEW js, NEW f, NEW l, NEW w, NEW st, Tally(js, f, l, w, st)
    PROVE  Tally(js, f, l, w, TRUE)
BY DEF Tally, Entry

LEMMA TallyReap ==
    ASSUME NEW js, NEW f, NEW l, NEW w, NEW st, Tally(js, f, l, w, st)
    PROVE  Tally(Reap(js), f, l, w, st)
<1> DEFINE js2 == Reap(js)
<1>1. js2 = [j \in Jobs |-> js2[j]]
  BY DEF Reap
<1>2. Free \in Job /\ Free.subs = 0 /\ Free.waiters = 0 /\ Free.phase = "free"
  BY LimitAssumption DEF Free, Job, Phases, Verdicts
<1>3. ASSUME NEW j \in Jobs PROVE Entry(js2[j], f[j], l[j], w[j], st)
  <2>1. js2[j] = js[j] \/ (js2[j] = Free /\ js[j].subs = 0 /\ js[j].waiters = 0)
    BY DEF Reap
  <2>2. Entry(js[j], f[j], l[j], w[j], st)
    BY DEF Tally
  <2> QED BY <1>2, <2>1, <2>2 DEF Entry, Alive
<1> HIDE DEF js2
<1> QED BY <1>1, <1>3 DEF Tally, js2

LEMMA TallyCancelAll ==
    ASSUME NEW js, NEW f, NEW l, NEW w, NEW st, Tally(js, f, l, w, st)
    PROVE  Tally(CancelAll(js), f, l, w, TRUE)
<1> DEFINE c(j) == js[j].cancel \/ js[j].phase \notin {"free", "terminal"}
           js2 == [j \in Jobs |-> [js[j] EXCEPT !.cancel = c(j)]]
<1>1. CancelAll(js) = js2
  BY DEF CancelAll
<1>2. ASSUME NEW j \in Jobs PROVE Entry(js2[j], f[j], l[j], w[j], TRUE)
  <2> DEFINE y == c(j)
  <2>1. js2[j] = [js[j] EXCEPT !.cancel = y]
    OBVIOUS
  <2>2. Entry(js[j], f[j], l[j], w[j], st)
    BY DEF Tally
  <2>3. y \in BOOLEAN /\ js[j] \in Job /\ (Alive(js[j]) => y)
    BY <2>2 DEF Entry, Job, Alive
  <2> HIDE DEF y, js2
  <2>4. js2[j] \in Job /\ js2[j].phase = js[j].phase /\ js2[j].subs = js[j].subs
        /\ js2[j].waiters = js[j].waiters /\ js2[j].cancel = y
    BY <2>1, <2>3 DEF Job
  <2> QED BY <2>2, <2>3, <2>4 DEF Entry, Alive
<1>3. js2 = [j \in Jobs |-> js2[j]]
  OBVIOUS
<1> HIDE DEF js2
<1> QED BY <1>1, <1>2, <1>3 DEF Tally

\* What Subscribe answers: nothing, a job that runs, or a new one.
Refuses(js, r) ==
    /\ r.job = NoJob /\ r.jobs = js /\ r.status # "OK"
    /\ r.failed \in {0, 1} /\ (r.failed = 1 => startFailures < mix.startFailures)
    /\ stopping \/ Active(js) # {} \/ r.failed = 1
    /\ r.status = "BUSY" => Active(js) # {}

Shares(js, p, r) ==
    /\ r.job \in Jobs /\ Alive(js[r.job]) /\ js[r.job].project = p /\ ~js[r.job].cancel
    /\ r.jobs = [js EXCEPT ![r.job].subs = @ + 1]
    /\ r.status = "OK" /\ r.failed = 0

Creates(js, p, o, r) ==
    /\ r.job \in Jobs /\ js[r.job].phase = "free" /\ r.jobs = Created(js, r.job, p, o)
    /\ \A j \in Active(js) : js[j].project # p
    /\ r.status = "OK" /\ r.failed = 0

LEMMA Subscribed ==
    ASSUME NEW js, NEW p, NEW o, NEW r \in Subscribe(js, p, o)
    PROVE  Refuses(js, r) \/ Shares(js, p, r) \/ Creates(js, p, o, r)
<1> DEFINE same == {j \in Active(js) : js[j].project = p}
           idle == {j \in Jobs : js[j].phase = "free"}
           own  == CHOOSE i \in same : TRUE
           No(status) == [status |-> status, job |-> NoJob, jobs |-> js, failed |-> 0]
           grown == [js EXCEPT ![own].subs = @ + 1]
<1>1. CASE stopping
  <2>1. r = No("UNAVAILABLE")
    BY <1>1 DEF Subscribe
  <2> QED BY <1>1, <2>1 DEF Refuses
<1>2. CASE ~stopping /\ same # {}
  <2>1. \/ r \in {No("CANCELLING"), No("CONFLICT")}
        \/ /\ r = [status |-> "OK", job |-> own, jobs |-> grown, failed |-> 0]
           /\ ~js[own].cancel
    BY <1>2, Zenon DEF Subscribe
  <2>2. own \in same
    BY <1>2
  <2>3. Active(js) # {}
    BY <1>2
  <2>4. CASE r \in {No("CANCELLING"), No("CONFLICT")}
    BY <2>3, <2>4 DEF Refuses
  <2>5. CASE /\ r = [status |-> "OK", job |-> own, jobs |-> grown, failed |-> 0]
             /\ ~js[own].cancel
    <3>1. own \in Jobs /\ Alive(js[own]) /\ js[own].project = p
      BY <2>2 DEF Active, Alive
    <3> HIDE DEF own
    <3> QED BY <2>5, <3>1 DEF Shares
  <2> QED BY <2>1, <2>4, <2>5
<1>3. CASE ~stopping /\ same = {}
  <2>1. \/ r = No("BUSY") /\ Full(js)
        \/ r = [No("UNAVAILABLE") EXCEPT !.failed = 1] /\ startFailures < mix.startFailures
        \/ \E j \in idle : r = [status |-> "OK", job |-> j, jobs |-> Created(js, j, p, o),
                               failed |-> 0]
    <3>1. CASE Full(js)
      BY <1>3, <3>1, Zenon DEF Subscribe
    <3>2. CASE ~Full(js)
      <4>1. \/ r \in {[status |-> "OK", job |-> j, jobs |-> Created(js, j, p, o), failed |-> 0] :
                        j \in {i \in idle : i = CHOOSE k \in idle : TRUE}}
            \/ r \in {[No("UNAVAILABLE") EXCEPT !.failed = 1] :
                        x \in {n \in {startFailures} : n < mix.startFailures}}
        BY <1>3, <3>2, Zenon DEF Subscribe
      <4> QED BY <4>1, Zenon
    <3> QED BY <3>1, <3>2
  <2>2. Full(js) => Active(js) # {}
    BY FS_EmptySet, LimitAssumption DEF Full
  <2>3. \A j \in Active(js) : js[j].project # p
    BY <1>3
  <2>4. CASE r = No("BUSY") /\ Full(js)
    BY <2>2, <2>4 DEF Refuses
  <2>5. CASE r = [No("UNAVAILABLE") EXCEPT !.failed = 1] /\ startFailures < mix.startFailures
    BY <2>5 DEF Refuses
  <2>6. CASE \E j \in idle : r = [status |-> "OK", job |-> j, jobs |-> Created(js, j, p, o),
                                 failed |-> 0]
    BY <2>3, <2>6 DEF Creates
  <2> QED BY <2>1, <2>4, <2>5, <2>6
<1> QED BY <1>1, <1>2, <1>3

\* The reference that an admission gives.
Plus(f, k) == [j \in Jobs |-> IF j = k THEN f[j] + 1 ELSE f[j]]

LEMMA TallySubscribe ==
    ASSUME NEW js, NEW f, NEW l, NEW w, NEW st, Tally(js, f, l, w, st),
           NEW p \in Projects, NEW o \in Options, NEW r \in Subscribe(js, p, o)
    PROVE  /\ r.job = NoJob => Tally(r.jobs, f, l, w, st)
           /\ r.job # NoJob => /\ r.job \in Jobs /\ Tally(r.jobs, Plus(f, r.job), l, w, st)
                               /\ Alive(r.jobs[r.job]) /\ ~r.jobs[r.job].cancel
                               /\ r.jobs[r.job].project = p
<1> DEFINE j == r.job
           f2 == Plus(f, j)
<1>1. ASSUME j \in Jobs
      PROVE  /\ f[j] \in Nat /\ l[j] \in Nat /\ w[j] \in Nat /\ f2[j] = f[j] + 1
             /\ Entry(js[j], f[j], l[j], w[j], st)
             /\ \A i \in Jobs \ {j} : f2[i] = f[i] /\ l[i] = l[i] /\ w[i] = w[i]
  BY <1>1 DEF Tally, Plus
<1>2. ASSUME Shares(js, p, r)
      PROVE  /\ j \in Jobs /\ Tally(r.jobs, f2, l, w, st) /\ Alive(r.jobs[j])
             /\ ~r.jobs[j].cancel /\ r.jobs[j].project = p
  <2> DEFINE n == js[j].subs + 1
             q == [js[j] EXCEPT !.subs = n]
  <2>1. j \in Jobs /\ Alive(js[j]) /\ js[j].project = p /\ ~js[j].cancel
    BY <1>2 DEF Shares
  <2>2. r.jobs = [js EXCEPT ![j] = q]
    BY <1>2, <2>1 DEF Tally, Shares
  <2>3. r.jobs[j] = q
    BY <2>1, <2>2 DEF Tally
  <2>4. js[j] \in Job /\ js[j].subs = f[j] + l[j] /\ js[j].waiters = w[j]
    BY <1>1, <2>1 DEF Entry
  <2>5. n \in Nat /\ n = f2[j] + l[j] /\ n > 0
    BY <1>1, <2>1, <2>4
  <2> HIDE DEF n, f2
  <2>6. q \in Job /\ q.subs = n /\ q.phase = js[j].phase /\ q.cancel = js[j].cancel
        /\ q.waiters = js[j].waiters /\ q.project = js[j].project
    BY <2>4, <2>5 DEF Job
  <2> HIDE DEF q
  <2>7. Entry(q, f2[j], l[j], w[j], st)
    BY <1>1, <2>1, <2>4, <2>5, <2>6 DEF Entry, Alive
  <2>8. f2[j] \in Nat
    BY <1>1, <2>1
  <2>9. Tally([js EXCEPT ![j] = q], f2, l, w, st)
    BY <1>1, <2>1, <2>7, <2>8, TallyOne
  <2> QED BY <2>1, <2>2, <2>3, <2>6, <2>9 DEF Alive
<1>3. ASSUME Creates(js, p, o, r)
      PROVE  /\ j \in Jobs /\ Tally(r.jobs, f2, l, w, st) /\ Alive(r.jobs[j])
             /\ ~r.jobs[j].cancel /\ r.jobs[j].project = p
  <2>0. j \in Jobs /\ js[j].phase = "free" /\ r.jobs = Created(js, j, p, o)
    BY <1>3 DEF Creates
  <2> DEFINE q == [Free EXCEPT !.project = p, !.args = o, !.phase = "gate", !.subs = 1]
  <2>1. r.jobs = [js EXCEPT ![j] = q]
    BY <2>0 DEF Created
  <2>2. r.jobs[j] = q
    BY <2>0, <2>1 DEF Tally
  <2>3. /\ q \in Job /\ q.subs = 1 /\ q.phase = "gate" /\ q.cancel = FALSE /\ q.waiters = 0
        /\ q.project = p
    <3>1. Free \in Job
      BY LimitAssumption DEF Free, Job, Phases, Verdicts
    <3>2. Free.waiters = 0 /\ Free.cancel = FALSE
      BY DEF Free
    <3>3. "gate" \in Phases
      BY DEF Phases
    <3> QED BY <3>1, <3>2, <3>3 DEF Job
  <2> HIDE DEF q
  <2>4. js[j].subs = 0 /\ js[j].waiters = 0 /\ f[j] = 0 /\ l[j] = 0 /\ w[j] = 0
    BY <1>1, <2>0 DEF Entry
  <2>5. Entry(q, f2[j], l[j], w[j], st)
    BY <1>1, <2>0, <2>3, <2>4 DEF Entry, Alive
  <2>6. f2[j] \in Nat
    BY <1>1, <2>0
  <2> HIDE DEF f2
  <2>7. Tally([js EXCEPT ![j] = q], f2, l, w, st)
    BY <1>1, <2>0, <2>5, <2>6, TallyOne
  <2> QED BY <2>0, <2>1, <2>2, <2>3, <2>7 DEF Alive
<1> HIDE DEF f2
<1>4. ASSUME Refuses(js, r) PROVE r.job = NoJob /\ r.jobs = js
  BY <1>4 DEF Refuses
<1>5. NoJob \notin Jobs
  BY NamesAssumption
<1> QED BY <1>2, <1>3, <1>4, <1>5, Subscribed DEF f2

-----------------------------------------------------------------------------
(* Where references are held.                                              *)

\* Sessions keep what they own, and stay gone.
Links(ss, ss2) == \A s \in Sessions :
    /\ ss2[s].activeJob = ss[s].activeJob /\ ss2[s].autoJob = ss[s].autoJob
    /\ ss2[s].pending = ss[s].pending /\ (Gone(ss[s]) => Gone(ss2[s]))

LEMMA RefreshLinks ==
    ASSUME NEW ss, ss \in [Sessions -> Session], NEW S, NEW p, NEW js
    PROVE  Links(ss, Refreshed(S, p, js, ss).ses)
<1> DEFINE able == {s \in S : ss[s].autoJob = NoJob /\ ~stopping /\ ~Cancelled(s)}
           gone == Watching(ss, p)
           new  == {s \in able : ~ss[s].watch}
           off(s) == ss[s].watch /\ s \notin gone
           on(s)  == ss[s].watch \/ s \in new
           ss2 == Refreshed(S, p, js, ss).ses
<1>1. \/ ss2 = ss
      \/ ss2 = [s \in Sessions |-> [ss[s] EXCEPT !.watch = off(s)]]
      \/ ss2 = [s \in Sessions |-> [ss[s] EXCEPT !.watch = on(s)]]
  BY DEF Refreshed
<1> HIDE DEF off, on, ss2
<1>2. ASSUME NEW s \in Sessions
      PROVE  /\ ss2[s].activeJob = ss[s].activeJob /\ ss2[s].autoJob = ss[s].autoJob
             /\ ss2[s].pending = ss[s].pending /\ ss2[s].status = ss[s].status
  <2>1. ss[s] \in Session
    OBVIOUS
  <2>2. \/ ss2[s] = ss[s] \/ ss2[s] = [ss[s] EXCEPT !.watch = off(s)]
        \/ ss2[s] = [ss[s] EXCEPT !.watch = on(s)]
    BY <1>1
  <2> QED BY <2>1, <2>2 DEF Session
<1> QED BY <1>2 DEF Links, Gone, ss2

\* Requests that move on without an index job, an auto-index job or a place in the queue.
Aloof(s) ==
    \/ Open(s) \/ Submit(s) \/ Enter(s) \/ Admit(s) \/ Parked(s) \/ RefreshWatch(s) \/ Complete(s)
    \/ Background(s) \/ RefreshAgain(s) \/ MutationStep(s)

LEMMA AloofLinks == ASSUME OInv, NEW s \in Sessions, Aloof(s) PROVE Links(ses, ses')
<1>1. ses \in [Sessions -> Session] /\ ses[s] \in Session
  BY DEF OInv, Owners
<1>2. ASSUME UNCHANGED ses PROVE Links(ses, ses')
  BY <1>2 DEF Links
<1>3. ASSUME NEW r, ses' = [ses EXCEPT ![s] = r], r.activeJob = ses[s].activeJob,
             r.autoJob = ses[s].autoJob, r.pending = ses[s].pending, Gone(ses[s]) => Gone(r)
      PROVE  Links(ses, ses')
  BY <1>1, <1>3 DEF Links
<1>4. CASE Admit(s) \/ Parked(s) \/ MutationStep(s)
  BY <1>2, <1>4 DEF Admit, Parked, MutationStep, Reserve, Lock, Mutate, BeginRelease, EndRelease,
     MutFrame
<1>5. CASE Open(s)
  <2> DEFINE r == [ses[s] EXCEPT !.status = "open"]
  <2>1. ses' = [ses EXCEPT ![s] = r] /\ ses[s].status = "new"
    BY <1>5 DEF Open
  <2>2. /\ r.activeJob = ses[s].activeJob /\ r.autoJob = ses[s].autoJob
        /\ r.pending = ses[s].pending
    BY <1>1 DEF Session
  <2> HIDE DEF r
  <2> QED BY <1>3, <2>1, <2>2 DEF Gone
<1>6. CASE Submit(s)
  <2> DEFINE n == ses[s].request + 1
             r == [ses[s] EXCEPT !.request = n]
  <2>1. ses' = [ses EXCEPT ![s] = r]
    BY <1>6 DEF Submit
  <2> HIDE DEF n
  <2>2. /\ r.activeJob = ses[s].activeJob /\ r.autoJob = ses[s].autoJob
        /\ r.pending = ses[s].pending /\ r.status = ses[s].status
    BY <1>1 DEF Session
  <2> HIDE DEF r
  <2> QED BY <1>3, <2>1, <2>2 DEF Gone
<1>7. CASE Enter(s)
  <2> DEFINE n == IF Hit(s) THEN ses[s].cancelToken ELSE 0
             r == [ses[s] EXCEPT !.active = TRUE, !.cancelToken = n]
  <2>1. UNCHANGED ses \/ ses' = [ses EXCEPT ![s] = r]
    BY <1>7 DEF Enter
  <2> HIDE DEF n
  <2>2. /\ r.activeJob = ses[s].activeJob /\ r.autoJob = ses[s].autoJob
        /\ r.pending = ses[s].pending /\ r.status = ses[s].status
    BY <1>1 DEF Session
  <2> HIDE DEF r
  <2> QED BY <1>2, <1>3, <2>1, <2>2 DEF Gone
<1>8. CASE Complete(s)
  <2> DEFINE n == IF Hit(s) THEN 0 ELSE ses[s].cancelToken
             r == [ses[s] EXCEPT !.active = FALSE, !.init = FALSE, !.cancelToken = n]
  <2>1. ses' = [ses EXCEPT ![s] = r]
    BY <1>8 DEF Complete
  <2> HIDE DEF n
  <2>2. /\ r.activeJob = ses[s].activeJob /\ r.autoJob = ses[s].autoJob
        /\ r.pending = ses[s].pending /\ r.status = ses[s].status
    BY <1>1 DEF Session
  <2> HIDE DEF r
  <2> QED BY <1>3, <2>1, <2>2 DEF Gone
<1>9. CASE Background(s)
  <2> DEFINE b == AutoIndex /\ Home[s] \notin db
             r == [ses[s] EXCEPT !.needs = b]
  <2>1. ses' = [ses EXCEPT ![s] = r]
    BY <1>9 DEF Background
  <2> HIDE DEF b
  <2>2. /\ r.activeJob = ses[s].activeJob /\ r.autoJob = ses[s].autoJob
        /\ r.pending = ses[s].pending /\ r.status = ses[s].status
    BY <1>1 DEF Session
  <2> HIDE DEF r
  <2> QED BY <1>3, <2>1, <2>2 DEF Gone
<1>10. CASE RefreshWatch(s)
  <2> DEFINE i == ses[s].init \/ want[s].kind = "initialize"
             r == [ses[s] EXCEPT !.init = i]
             ss == [ses EXCEPT ![s] = r]
  <2>1. ses' = Refreshed({s}, Home[s], jobs, ss).ses
    BY <1>10 DEF RefreshWatch, Refresh
  <2>2. i \in BOOLEAN
    BY <1>1 DEF Session
  <2> HIDE DEF i
  <2>3. /\ r.activeJob = ses[s].activeJob /\ r.autoJob = ses[s].autoJob
        /\ r.pending = ses[s].pending /\ r.status = ses[s].status /\ r \in Session
    BY <1>1, <2>2 DEF Session
  <2> HIDE DEF r
  <2>4. ss \in [Sessions -> Session] /\ Links(ses, ss)
    BY <1>1, <2>3 DEF Links, Gone
  <2> HIDE DEF ss
  <2>5. Links(ss, ses')
    BY <2>1, <2>4, RefreshLinks
  <2> QED BY <2>4, <2>5 DEF Links
<1>11. CASE RefreshAgain(s)
  <2>1. ses' = Refreshed({s}, Home[s], jobs, ses).ses
    BY <1>11 DEF RefreshAgain, Refresh
  <2> QED BY <1>1, <2>1, RefreshLinks
<1> QED BY <1>4, <1>5, <1>6, <1>7, <1>8, <1>9, <1>10, <1>11 DEF Aloof

\* What the other steps do to a session's references.
Edited(s, r) ==
    /\ ses' = [ses EXCEPT ![s] = r]
    /\ r.autoJob = ses[s].autoJob /\ r.pending = ses[s].pending /\ r.status = ses[s].status

LEMMA AwaitEffect ==
    ASSUME OInv, NEW s \in Sessions, Await(s)
    PROVE  \E r : /\ Edited(s, r)
                  /\ r.activeJob = IF ses[s].activeJob = at[s] THEN NoJob ELSE ses[s].activeJob
<1>1. ses \in [Sessions -> Session] /\ ses[s] \in Session
  BY DEF OInv, Owners
<1>2. CASE ses[s].activeJob # at[s]
  <2> DEFINE r == ses[s]
  <2>1. ses' = [ses EXCEPT ![s] = r]
    BY <1>1, <1>2 DEF Await
  <2> QED BY <1>2, <2>1 DEF Edited
<1>3. CASE ses[s].activeJob = at[s]
  <2> DEFINE r == [ses[s] EXCEPT !.activeJob = NoJob]
  <2>1. ses' = [ses EXCEPT ![s] = r]
    BY <1>3 DEF Await
  <2>2. r.autoJob = ses[s].autoJob /\ r.pending = ses[s].pending
        /\ r.status = ses[s].status /\ r.activeJob = NoJob
    BY <1>1 DEF Session
  <2> HIDE DEF r
  <2> QED BY <1>3, <2>1, <2>2 DEF Edited
<1> QED BY <1>2, <1>3

LEMMA ConfirmEffect ==
    ASSUME OInv, NEW s \in Sessions, Confirm(s)
    PROVE  \E r : /\ Edited(s, r)
                  /\ r.activeJob = IF Cancelled(s) THEN ses[s].activeJob ELSE at[s]
<1>1. ses \in [Sessions -> Session] /\ ses[s] \in Session
  BY DEF OInv, Owners
<1>2. CASE Cancelled(s)
  <2> DEFINE r == ses[s]
  <2>1. ses' = [ses EXCEPT ![s] = r]
    BY <1>1, <1>2 DEF Confirm, Confirmed
  <2> QED BY <1>2, <2>1 DEF Edited
<1>3. CASE ~Cancelled(s)
  <2> DEFINE r == [ses[s] EXCEPT !.activeJob = at[s]]
  <2>1. ses' = [ses EXCEPT ![s] = r]
    BY <1>3 DEF Confirm, Confirmed
  <2>2. r.autoJob = ses[s].autoJob /\ r.pending = ses[s].pending
        /\ r.status = ses[s].status /\ r.activeJob = at[s]
    BY <1>1 DEF Session
  <2> HIDE DEF r
  <2> QED BY <1>3, <2>1, <2>2 DEF Edited
<1> QED BY <1>2, <1>3

LEMMA CancelEffect ==
    ASSUME OInv, NEW s \in Sessions, CancelRequest(s)
    PROVE  \E r : /\ Edited(s, r)
                  /\ r.activeJob = IF ses[s].active THEN NoJob ELSE ses[s].activeJob
<1>1. ses \in [Sessions -> Session] /\ ses[s] \in Session
  BY DEF OInv, Owners
<1> DEFINE j == IF ses[s].active /\ ses[s].activeJob # NoJob THEN NoJob ELSE ses[s].activeJob
           r == [ses[s] EXCEPT !.cancelToken = ses[s].request, !.activeJob = j]
<1>2. ses' = [ses EXCEPT ![s] = r]
  BY <1>1 DEF CancelRequest
<1>3. j = IF ses[s].active THEN NoJob ELSE ses[s].activeJob
  OBVIOUS
<1> HIDE DEF j
<1>4. r.autoJob = ses[s].autoJob /\ r.pending = ses[s].pending
      /\ r.status = ses[s].status /\ r.activeJob = j
  BY <1>1 DEF Session
<1> HIDE DEF r
<1> QED BY <1>2, <1>3, <1>4 DEF Edited

\* An auto-index job is one that Subscribe admits.
LEMMA AutoEffect ==
    ASSUME OInv, NEW s \in Sessions, AutoAdmit(s)
    PROVE  \/ Links(ses, ses') /\ UNCHANGED jobs
           \/ /\ ses[s].autoJob = NoJob
              /\ \E r : /\ ses' = [ses EXCEPT ![s] = r] /\ r.status = ses[s].status
                        /\ r.activeJob = ses[s].activeJob
                        /\ \/ r.autoJob = NoJob /\ ~r.pending /\ UNCHANGED <<jobs, startFailures>>
                           \/ \E x \in Subscribe(jobs, Home[s], Default) :
                                /\ jobs' = x.jobs /\ startFailures' = startFailures + x.failed
                                /\ r.autoJob = x.job /\ (r.pending <=> x.job = NoJob)
<1>1. ses \in [Sessions -> Session] /\ ses[s] \in Session
  BY DEF OInv, Owners
<1> DEFINE try == ses[s].autoJob = NoJob /\ (~ses[s].evaluated \/ ses[s].pending)
           ev == ses[s].evaluated \/ try
           pe == ses[s].pending /\ ~try
           q == [ses[s] EXCEPT !.eligible = TRUE, !.evaluated = ev, !.pending = pe]
           ready == [ses EXCEPT ![s].eligible = TRUE, ![s].evaluated = @ \/ try,
                                ![s].pending = @ /\ ~try]
<1>2. \/ UNCHANGED <<ses, jobs>>
      \/ ses' = ready /\ UNCHANGED <<jobs, startFailures>>
      \/ /\ try
         /\ \E x \in Subscribe(jobs, Home[s], Default) :
                /\ ses' = [ready EXCEPT ![s].autoJob = x.job, ![s].pending = x.job = NoJob]
                /\ jobs' = x.jobs /\ startFailures' = startFailures + x.failed
  BY DEF AutoAdmit
<1>3. ready = [ses EXCEPT ![s] = q]
  BY <1>1
<1>4. /\ (try => ses[s].autoJob = NoJob /\ ~pe) /\ (~try => pe = ses[s].pending)
      /\ try \in BOOLEAN
  BY <1>1 DEF Session
<1> HIDE DEF ev, pe, try, ready
<1>5. /\ q.status = ses[s].status /\ q.activeJob = ses[s].activeJob /\ q.autoJob = ses[s].autoJob
      /\ q.pending = pe
  BY <1>1 DEF Session
<1>6. CASE UNCHANGED <<ses, jobs>>
  BY <1>6 DEF Links
<1>7. CASE ses' = ready /\ UNCHANGED <<jobs, startFailures>>
  <2> HIDE DEF q
  <2>1. CASE try
    BY <1>3, <1>4, <1>5, <1>7, <2>1
  <2>2. CASE ~try
    BY <1>1, <1>3, <1>4, <1>5, <1>7, <2>2 DEF Links, Gone
  <2> QED BY <2>1, <2>2
<1>8. ASSUME try, NEW x \in Subscribe(jobs, Home[s], Default),
             ses' = [ready EXCEPT ![s].autoJob = x.job, ![s].pending = x.job = NoJob],
             jobs' = x.jobs, startFailures' = startFailures + x.failed
      PROVE  \E r : /\ ses' = [ses EXCEPT ![s] = r] /\ r.status = ses[s].status
                    /\ r.activeJob = ses[s].activeJob
                    /\ r.autoJob = x.job /\ (r.pending <=> x.job = NoJob)
  <2> DEFINE j == x.job
             b == x.job = NoJob
             t == [q EXCEPT !.autoJob = j, !.pending = b]
  <2>1. ses' = [ses EXCEPT ![s] = t]
    BY <1>1, <1>3, <1>8
  <2> HIDE DEF j, b
  <2>2. /\ t.status = q.status /\ t.activeJob = q.activeJob /\ t.autoJob = j
        /\ t.pending = b
    BY <1>1 DEF Session
  <2> HIDE DEF t, q
  <2> QED BY <1>5, <2>1, <2>2 DEF j, b
<1> HIDE DEF q
<1> QED BY <1>2, <1>4, <1>6, <1>7, <1>8

\* A session need not be revisited any more.
Dequeued(s, ss) == \A o \in Sessions :
    /\ ss[o].activeJob = ses[o].activeJob /\ ss[o].autoJob = ses[o].autoJob
    /\ ss[o].status = ses[o].status /\ ss[o].watch = ses[o].watch
    /\ ss[o].pending = (ses[o].pending /\ o # s)

LEMMA RetryEffect ==
    ASSUME OInv, NEW s \in Sessions, Retry(s)
    PROVE  \/ /\ Home[s] \in db
              /\ \E ss : /\ Refresh({s}, Home[s], jobs, ss) /\ ss \in [Sessions -> Session]
                         /\ Dequeued(s, ss)
              /\ retry' = retry \ {s}
           \/ /\ Home[s] \notin db /\ UNCHANGED watchSubs
              /\ \E x \in Subscribe(jobs, Home[s], Default) :
                    /\ jobs' = x.jobs /\ startFailures' = startFailures + x.failed
                    /\ retry' = IF x.status = "BUSY" THEN {} ELSE retry \ {s}
                    /\ \/ x.job = NoJob /\ UNCHANGED ses
                       \/ /\ x.job # NoJob
                          /\ \E r : /\ ses' = [ses EXCEPT ![s] = r] /\ r.status = ses[s].status
                                    /\ r.activeJob = ses[s].activeJob /\ r.autoJob = x.job
                                    /\ ~r.pending
<1>1. ses \in [Sessions -> Session] /\ ses[s] \in Session
  BY DEF OInv, Owners
<1>2. CASE Home[s] \in db
  <2> DEFINE r == [ses[s] EXCEPT !.pending = FALSE]
             ss == [ses EXCEPT ![s] = r]
  <2>1. Refresh({s}, Home[s], jobs, ss) /\ retry' = retry \ {s}
    BY <1>2 DEF Retry
  <2>2. /\ r \in Session /\ r.status = ses[s].status /\ r.watch = ses[s].watch
        /\ r.activeJob = ses[s].activeJob /\ r.autoJob = ses[s].autoJob
        /\ r.pending = FALSE
    BY <1>1 DEF Session
  <2> HIDE DEF r
  <2>3. ASSUME NEW o \in Sessions
        PROVE  /\ ss[o].activeJob = ses[o].activeJob /\ ss[o].autoJob = ses[o].autoJob
               /\ ss[o].status = ses[o].status /\ ss[o].watch = ses[o].watch
               /\ ss[o].pending = (ses[o].pending /\ o # s)
    <3>1. ses[o].pending \in BOOLEAN
      BY <1>1 DEF Session
    <3> QED BY <1>1, <2>2, <3>1
  <2>4. ss \in [Sessions -> Session]
    BY <1>1, <2>2
  <2> HIDE DEF ss
  <2> QED BY <1>2, <2>1, <2>3, <2>4 DEF Dequeued
<1>3. CASE Home[s] \notin db
  <2>1. PICK x \in Subscribe(jobs, Home[s], Default) :
            /\ ses' = IF x.job = NoJob THEN ses
                      ELSE [ses EXCEPT ![s].autoJob = x.job, ![s].pending = FALSE]
            /\ jobs' = x.jobs /\ startFailures' = startFailures + x.failed
            /\ retry' = IF x.status = "BUSY" THEN {} ELSE retry \ {s}
    BY <1>3 DEF Retry
  <2>2. UNCHANGED watchSubs
    BY <1>3 DEF Retry
  <2> DEFINE k == x.job
             t == [ses[s] EXCEPT !.autoJob = k, !.pending = FALSE]
  <2>3. x.job # NoJob => ses' = [ses EXCEPT ![s] = t]
    BY <1>1, <2>1
  <2> HIDE DEF k
  <2>4. /\ t.status = ses[s].status /\ t.activeJob = ses[s].activeJob /\ t.autoJob = k
        /\ t.pending = FALSE
    BY <1>1 DEF Session
  <2> HIDE DEF t
  <2>5. x.job # NoJob => \E r : /\ ses' = [ses EXCEPT ![s] = r] /\ r.status = ses[s].status
                                /\ r.activeJob = ses[s].activeJob /\ r.autoJob = x.job
                                /\ ~r.pending
    BY <2>3, <2>4 DEF k
  <2> QED BY <1>3, <2>1, <2>2, <2>5
<1> QED BY <1>2, <1>3

LEMMA PartEffect ==
    ASSUME OInv, NEW s \in Sessions, CancelSession(s) \/ CloseSession(s)
    PROVE  \E r : /\ ses' = [ses EXCEPT ![s] = r] /\ Gone(r) /\ r.pending = ses[s].pending
                  /\ r.activeJob = NoJob /\ r.autoJob = NoJob
<1>1. ses \in [Sessions -> Session] /\ ses[s] \in Session
  BY DEF OInv, Owners
<1> DEFINE z == [ses[s] EXCEPT !.activeJob = NoJob, !.autoJob = NoJob, !.watch = FALSE]
<1>2. Release(s).ses = z
  BY DEF Release
<1>3. /\ z.pending = ses[s].pending /\ z.activeJob = NoJob /\ z.autoJob = NoJob
      /\ z.cancelToken = ses[s].cancelToken /\ z \in Session
  BY <1>1, NamesAssumption DEF Session
<1> HIDE DEF z
<1>4. CASE CancelSession(s)
  <2> DEFINE n == IF ses[s].active THEN ses[s].request ELSE ses[s].cancelToken
             r == [z EXCEPT !.status = "cancelled", !.cancelToken = n]
  <2>1. ses' = [ses EXCEPT ![s] = r]
    BY <1>2, <1>3, <1>4 DEF CancelSession
  <2> HIDE DEF n
  <2>2. /\ r.pending = z.pending /\ r.activeJob = z.activeJob /\ r.autoJob = z.autoJob
        /\ r.status = "cancelled"
    BY <1>3 DEF Session
  <2> HIDE DEF r
  <2> QED BY <1>3, <2>1, <2>2 DEF Gone
<1>5. CASE CloseSession(s)
  <2> DEFINE r == [z EXCEPT !.status = "closed"]
  <2>1. ses' = [ses EXCEPT ![s] = r]
    BY <1>2, <1>5 DEF CloseSession
  <2>2. /\ r.pending = z.pending /\ r.activeJob = z.activeJob /\ r.autoJob = z.autoJob
        /\ r.status = "closed"
    BY <1>3 DEF Session
  <2> HIDE DEF r
  <2> QED BY <1>3, <2>1, <2>2 DEF Gone
<1> QED BY <1>4, <1>5

\* The sessions of S cease to own an auto-index job.
Disowned(S, ss) == \A s \in Sessions :
    /\ ss[s].activeJob = ses[s].activeJob /\ ss[s].pending = ses[s].pending
    /\ ss[s].autoJob = (IF s \in S THEN NoJob ELSE ses[s].autoJob)
    /\ ss[s].status = ses[s].status /\ ss[s].watch = ses[s].watch

LEMMA Disown ==
    ASSUME OInv, NEW S, NEW ss,
           ss = [s \in Sessions |-> IF s \in S THEN [ses[s] EXCEPT !.autoJob = NoJob] ELSE ses[s]]
    PROVE  ss \in [Sessions -> Session] /\ Disowned(S, ss)
<1>1. ASSUME NEW s \in Sessions
      PROVE  /\ ss[s] \in Session
             /\ ss[s].activeJob = ses[s].activeJob /\ ss[s].pending = ses[s].pending
             /\ ss[s].autoJob = (IF s \in S THEN NoJob ELSE ses[s].autoJob)
             /\ ss[s].status = ses[s].status /\ ss[s].watch = ses[s].watch
  <2>1. ses[s] \in Session
    BY DEF OInv, Owners
  <2>2. CASE s \in S
    <3>1. ss[s] = [ses[s] EXCEPT !.autoJob = NoJob]
      BY <2>2
    <3> QED BY <2>1, <2>2, <3>1 DEF Session
  <2>3. CASE s \notin S
    BY <2>1, <2>3
  <2> QED BY <2>2, <2>3
<1>2. ss \in [Sessions -> Session]
  BY <1>1
<1> QED BY <1>1, <1>2 DEF Disowned

LEMMA PublishEffect ==
    ASSUME OInv, NEW j \in Jobs, Publish(j)
    PROVE  LET S  == {s \in Sessions : ses[s].autoJob = j}
               js == Drop([jobs EXCEPT ![j].phase = "terminal"], Times(j, Cardinality(S)))
           IN  /\ jobs[j].phase = "publish"
               /\ \E ss : /\ ss \in [Sessions -> Session] /\ Disowned(S, ss)
                          /\ \/ Refresh(S, jobs[j].project, js, ss)
                             \/ jobs' = js /\ ses' = ss /\ UNCHANGED watchSubs
                          /\ retry' = {s \in Sessions : /\ ses[s].pending /\ ~stopping
                                          /\ ss[s].autoJob = NoJob /\ ses[s].status = "open"}
<1> DEFINE S  == {s \in Sessions : ses[s].autoJob = j}
           js == Drop([jobs EXCEPT ![j].phase = "terminal"], Times(j, Cardinality(S)))
           ss == [s \in Sessions |-> IF s \in S THEN [ses[s] EXCEPT !.autoJob = NoJob] ELSE ses[s]]
<1>1. /\ Refresh(S, jobs[j].project, js, ss) \/ (jobs' = js /\ ses' = ss /\ UNCHANGED watchSubs)
      /\ jobs[j].phase = "publish"
      /\ retry' = {s \in Revisited(j) : ~stopping /\ ss[s].autoJob = NoJob /\ ses[s].status = "open"}
  BY Zenon DEF Publish
<1>2. ss \in [Sessions -> Session] /\ Disowned(S, ss)
  BY Disown
<1> HIDE DEF S, js, ss
<1>3. retry' = {s \in Sessions : /\ ses[s].pending /\ ~stopping
                                 /\ ss[s].autoJob = NoJob /\ ses[s].status = "open"}
  BY <1>1 DEF Revisited
<1> QED BY <1>1, <1>2, <1>3 DEF S, js

LEMMA ShutdownEffect ==
    ASSUME OInv, Shutdown PROVE ses' \in [Sessions -> Session] /\ Disowned(Sessions, ses')
<1>1. ses' = [s \in Sessions |-> IF s \in Sessions THEN [ses[s] EXCEPT !.autoJob = NoJob] ELSE ses[s]]
  BY DEF Shutdown
<1> QED BY <1>1, Disown

LEMMA PrunedLinks == ASSUME OInv, Pruned PROVE Links(ses, ses')
<1> DEFINE gone == UNION {Watching(ses, m.key) : m \in Own(Watcher)}
           off(s) == ses[s].watch /\ s \notin gone
<1>1. ses' = [s \in Sessions |-> [ses[s] EXCEPT !.watch = off(s)]]
  BY DEF Pruned
<1> HIDE DEF off
<1>2. ASSUME NEW s \in Sessions
      PROVE  /\ ses'[s].activeJob = ses[s].activeJob /\ ses'[s].autoJob = ses[s].autoJob
             /\ ses'[s].pending = ses[s].pending /\ ses'[s].status = ses[s].status
  <2>1. ses[s] \in Session /\ ses'[s] = [ses[s] EXCEPT !.watch = off(s)]
    BY <1>1 DEF OInv, Owners
  <2> QED BY <2>1 DEF Session
<1> QED BY <1>2 DEF Links, Gone

\* A thread holds a job from its admission to the end of its wait, and owns it
\* while it waits; only sessions that are gone wait for the end of an auto-index.
SessionPlace(s) ==
    /\ at[s] # NoJob <=> pc[s] \in {"admitted", "waiting"}
    /\ ses[s].activeJob # NoJob => pc[s] = "waiting" /\ at[s] = ses[s].activeJob
    /\ joining[s] # NoJob => Gone(ses[s])
    /\ ses[s].pending => ses[s].autoJob = NoJob

CallerPlace(c) == pc[c] # "admitted" /\ (at[c] # NoJob <=> pc[c] = "waiting")

Places ==
    /\ joining \in [Sessions -> Jobs \cup {NoJob}]
    /\ \A s \in Sessions : SessionPlace(s)
    /\ \A c \in Callers : CallerPlace(c)

Still == {"admitted", "waiting"}

\* A thread that holds no job goes on without one.
LEMMA PlacesMove ==
    ASSUME IInv, OInv, Places, UNCHANGED <<at, joining>>,
           Links(ses, ses'),
           NEW a \in Actors, pc[a] \notin Still,
           UNCHANGED pc \/ \E l : l \notin Still /\ pc' = [pc EXCEPT ![a] = l]
    PROVE  Places'
<1>1. \A x \in Actors : pc'[x] = pc[x] \/ (x = a /\ pc'[x] \notin Still)
  BY DEF IInv, ThreadsInv
<1>2. ASSUME NEW s \in Sessions PROVE SessionPlace(s)'
  <2>1. SessionPlace(s) /\ s \in Actors
    BY DEF Places, Actors
  <2> QED BY <1>1, <2>1 DEF SessionPlace, Links, Still
<1>3. ASSUME NEW c \in Callers PROVE CallerPlace(c)'
  <2>1. CallerPlace(c) /\ c \in Actors
    BY DEF Places, Actors
  <2> QED BY <1>1, <2>1 DEF CallerPlace, Still
<1> QED BY <1>2, <1>3 DEF Places

\* One session's thread moves, or its references change.
LEMMA PlacesSession ==
    ASSUME IInv, OInv, Places, NEW s \in Sessions, SessionPlace(s)',
           joining' \in [Sessions -> Jobs \cup {NoJob}],
           \A o \in Sessions \ {s} :
                /\ ses'[o].activeJob = ses[o].activeJob /\ ses'[o].autoJob = ses[o].autoJob
                /\ ses'[o].pending = ses[o].pending /\ (Gone(ses[o]) => Gone(ses'[o]))
                /\ joining'[o] = joining[o],
           \A a \in Actors \ {s} : at'[a] = at[a] /\ pc'[a] = pc[a]
    PROVE  Places'
<1>1. ASSUME NEW o \in Sessions \ {s} PROVE SessionPlace(o)'
  <2>1. SessionPlace(o) /\ o \in Actors
    BY DEF Places, Actors
  <2> QED BY <2>1 DEF SessionPlace
<1>2. ASSUME NEW c \in Callers PROVE CallerPlace(c)'
  <2>1. CallerPlace(c) /\ c \in Actors \ {s}
    BY NamesAssumption DEF Places, Actors
  <2> QED BY <2>1 DEF CallerPlace
<1> QED BY <1>1, <1>2 DEF Places

LEMMA PlacesCaller ==
    ASSUME IInv, OInv, Places, NEW c \in Callers, CallerPlace(c)', UNCHANGED <<ses, joining>>,
           \A a \in Actors \ {c} : at'[a] = at[a] /\ pc'[a] = pc[a]
    PROVE  Places'
<1>1. ASSUME NEW o \in Sessions PROVE SessionPlace(o)'
  <2>1. SessionPlace(o) /\ o \in Actors \ {c}
    BY NamesAssumption DEF Places, Actors
  <2> QED BY <2>1 DEF SessionPlace
<1>2. ASSUME NEW d \in Callers \ {c} PROVE CallerPlace(d)'
  <2>1. CallerPlace(d) /\ d \in Actors
    BY DEF Places, Actors
  <2> QED BY <2>1 DEF CallerPlace
<1> QED BY <1>1, <1>2 DEF Places

LEMMA SubscribeStatus ==
    ASSUME NEW js, NEW p, NEW o, NEW r \in Subscribe(js, p, o)
    PROVE  r.status = "OK" <=> r.job # NoJob
<1>1. Refuses(js, r) => r.job = NoJob /\ r.status # "OK"
  BY DEF Refuses
<1>2. Shares(js, p, r) \/ Creates(js, p, o, r) => r.job \in Jobs /\ r.status = "OK"
  BY DEF Shares, Creates
<1>3. NoJob \notin Jobs
  BY NamesAssumption
<1> QED BY <1>1, <1>2, <1>3, Subscribed

LEMMA RequestPlaces ==
    ASSUME IInv, OInv, Places, NEW s \in Sessions,
           RequestStep(s) \/ Submit(s) \/ Open(s) \/ CancelRequest(s)
    PROVE  Places'
<1>1. /\ ses \in [Sessions -> Session] /\ s \in Actors /\ SessionPlace(s)
      /\ pc \in [Actors -> RequestPc] /\ at \in [Actors -> Jobs \cup {NoJob}]
  BY DEF OInv, Owners, IInv, ThreadsInv, Places, Actors
<1>2. ASSUME NEW r, ses' = [ses EXCEPT ![s] = r], r.status = ses[s].status,
             UNCHANGED joining, \A a \in Actors \ {s} : at'[a] = at[a] /\ pc'[a] = pc[a],
             at'[s] # NoJob <=> pc'[s] \in Still,
             r.activeJob # NoJob => pc'[s] = "waiting" /\ at'[s] = r.activeJob,
             r.pending => r.autoJob = NoJob
      PROVE  Places'
  <2>1. ses'[s] = r /\ \A o \in Sessions \ {s} : ses'[o] = ses[o]
    BY <1>1, <1>2
  <2>2. SessionPlace(s)'
    BY <1>1, <1>2, <2>1 DEF SessionPlace, Gone, Still
  <2>3. joining' \in [Sessions -> Jobs \cup {NoJob}]
    BY <1>2 DEF Places
  <2> QED BY <1>2, <2>1, <2>2, <2>3, PlacesSession
<1>3. CASE Admit(s)
  <2>1. PICK r \in Subscribe(Reap(jobs), want[s].project, want[s].args) :
            /\ at' = [at EXCEPT ![s] = r.job]
            /\ Go(s, CASE r.status = "OK" -> "admitted"
                       [] r.status \in {"BUSY", "CANCELLING"} -> "parked"
                       [] OTHER -> "refresh")
    BY <1>3 DEF Admit
  <2>2. /\ ses = [ses EXCEPT ![s] = ses[s]] /\ UNCHANGED <<ses, joining>> /\ pc[s] = "index"
    BY <1>1, <1>3 DEF Admit
  <2>3. at'[s] = r.job /\ \A a \in Actors \ {s} : at'[a] = at[a] /\ pc'[a] = pc[a]
    BY <1>1, <2>1 DEF Go
  <2>4. pc'[s] \in Still <=> r.status = "OK"
    BY <1>1, <2>1 DEF Go, Still
  <2>5. r.status = "OK" <=> r.job # NoJob
    BY SubscribeStatus
  <2>6. ses[s].activeJob = NoJob /\ (ses[s].pending => ses[s].autoJob = NoJob)
    BY <1>1, <2>2 DEF SessionPlace
  <2> QED BY <1>2, <2>2, <2>3, <2>4, <2>5, <2>6
<1>4. CASE Confirm(s)
  <2>1. PICK r : /\ Edited(s, r)
                 /\ r.activeJob = IF Cancelled(s) THEN ses[s].activeJob ELSE at[s]
    BY <1>4, ConfirmEffect
  <2>2. /\ UNCHANGED joining /\ pc[s] = "admitted"
        /\ IF Cancelled(s) THEN at' = [at EXCEPT ![s] = NoJob] /\ pc' = [pc EXCEPT ![s] = "refresh"]
           ELSE at' = at /\ pc' = [pc EXCEPT ![s] = "waiting"]
    BY <1>4 DEF Confirm, Confirmed, Go
  <2>3. \A a \in Actors \ {s} : at'[a] = at[a] /\ pc'[a] = pc[a]
    BY <1>1, <2>2
  <2>4. IF Cancelled(s) THEN at'[s] = NoJob /\ pc'[s] = "refresh"
        ELSE at'[s] = at[s] /\ pc'[s] = "waiting"
    BY <1>1, <2>2
  <2>5. at[s] # NoJob /\ ses[s].activeJob = NoJob
    BY <1>1, <2>2 DEF SessionPlace
  <2>6. /\ ses' = [ses EXCEPT ![s] = r] /\ r.status = ses[s].status
        /\ r.pending => r.autoJob = NoJob
    BY <1>1, <2>1 DEF Edited, SessionPlace
  <2>7. /\ at'[s] # NoJob <=> pc'[s] \in Still
        /\ r.activeJob # NoJob => pc'[s] = "waiting" /\ at'[s] = r.activeJob
    BY <2>1, <2>4, <2>5 DEF Still
  <2> QED BY <1>2, <2>2, <2>3, <2>6, <2>7
<1>5. CASE Await(s)
  <2>1. PICK r : /\ Edited(s, r)
                 /\ r.activeJob = IF ses[s].activeJob = at[s] THEN NoJob ELSE ses[s].activeJob
    BY <1>5, AwaitEffect
  <2>2. /\ UNCHANGED joining /\ pc[s] = "waiting"
        /\ at' = [at EXCEPT ![s] = NoJob] /\ pc' = [pc EXCEPT ![s] = "refresh"]
    BY <1>5 DEF Await, Go
  <2>3. \A a \in Actors \ {s} : at'[a] = at[a] /\ pc'[a] = pc[a]
    BY <1>1, <2>2
  <2>4. at'[s] = NoJob /\ pc'[s] = "refresh"
    BY <1>1, <2>2
  <2>5. r.activeJob = NoJob
    BY <1>1, <2>1, <2>2 DEF SessionPlace
  <2> QED BY <1>1, <1>2, <2>1, <2>2, <2>3, <2>4, <2>5 DEF Edited, SessionPlace, Still
<1>6. CASE CancelRequest(s)
  <2>1. PICK r : Edited(s, r) /\ r.activeJob = IF ses[s].active THEN NoJob ELSE ses[s].activeJob
    BY <1>6, CancelEffect
  <2>2. UNCHANGED <<at, pc, joining>>
    BY <1>6 DEF CancelRequest
  <2> QED BY <1>1, <1>2, <2>1, <2>2 DEF Edited, SessionPlace, Still
<1>7. CASE AutoAdmit(s)
  <2>1. /\ UNCHANGED <<at, joining>> /\ pc[s] = "admit"
        /\ pc' \in {[pc EXCEPT ![s] = "idle"], [pc EXCEPT ![s] = "again"]}
    BY <1>7 DEF AutoAdmit, Go
  <2>2. pc[s] \notin Still /\ \E l : l \notin Still /\ pc' = [pc EXCEPT ![s] = l]
    BY <2>1 DEF Still
  <2>3. CASE Links(ses, ses')
    BY <1>1, <2>1, <2>2, <2>3, PlacesMove
  <2>4. ASSUME NEW r, ses' = [ses EXCEPT ![s] = r], r.status = ses[s].status,
               r.activeJob = ses[s].activeJob, r.pending => r.autoJob = NoJob
        PROVE  Places'
    <3>1. at[s] = NoJob /\ ses[s].activeJob = NoJob
      BY <1>1, <2>2 DEF SessionPlace, Still
    <3>2. pc'[s] \notin Still /\ \A a \in Actors \ {s} : at'[a] = at[a] /\ pc'[a] = pc[a]
      BY <1>1, <2>1, <2>2
    <3> QED BY <1>2, <2>1, <2>4, <3>1, <3>2
  <2> QED BY <1>7, <2>3, <2>4, AutoEffect
<1>8. CASE Aloof(s) /\ ~Admit(s)
  <2>1. Links(ses, ses')
    BY <1>8, AloofLinks
  <2>2. UNCHANGED <<at, joining>>
    BY <1>8 DEF Aloof, Open, Submit, Enter, Parked, RefreshWatch, Complete, Background,
       RefreshAgain, MutationStep, Reserve, Lock, Mutate, BeginRelease, EndRelease, MutFrame
  <2>3. UNCHANGED pc \/ \E l : l \notin Still /\ pc' = [pc EXCEPT ![s] = l]
    BY <1>8 DEF Aloof, Open, Submit, Enter, Parked, RefreshWatch, Complete, Background,
       RefreshAgain, MutationStep, Reserve, Refused, Lock, Mutate, BeginRelease, EndRelease, After,
       Go, Still
  <2>4. pc[s] \notin Still \/ UNCHANGED pc
    BY <1>8 DEF Aloof, Open, Submit, Enter, Parked, RefreshWatch, Complete, Background,
       RefreshAgain, MutationStep, Reserve, Refused, Lock, Mutate, BeginRelease, EndRelease, Still
  <2>5. CASE pc[s] \notin Still
    BY <1>1, <2>1, <2>2, <2>3, <2>5, PlacesMove
  <2>6. CASE UNCHANGED pc
    BY <2>1, <2>2, <2>6 DEF Places, SessionPlace, CallerPlace, Links
  <2> QED BY <2>4, <2>5, <2>6
<1> QED BY <1>3, <1>4, <1>5, <1>6, <1>7, <1>8 DEF RequestStep, Aloof

LEMMA PartPlaces ==
    ASSUME IInv, OInv, Places, NEW s \in Sessions, CancelSession(s) \/ CloseSession(s)
    PROVE  Places'
<1>1. PICK r : /\ ses' = [ses EXCEPT ![s] = r] /\ Gone(r) /\ r.pending = ses[s].pending
               /\ r.activeJob = NoJob /\ r.autoJob = NoJob
  BY PartEffect
<1>2. ses'[s] = r /\ \A o \in Sessions \ {s} : ses'[o] = ses[o]
  BY <1>1 DEF OInv, Owners
<1>3. UNCHANGED <<at, pc>> /\ joining' = [joining EXCEPT ![s] = Release(s).join]
  BY DEF CancelSession, CloseSession
<1>4. Release(s).join \in Jobs \cup {NoJob}
  <2>1. Release(s).join \in {ses[s].autoJob, NoJob}
    BY DEF Release
  <2>2. ses[s] \in Session
    BY DEF OInv, Owners
  <2> QED BY <2>1, <2>2 DEF Session
<1>5. joining' \in [Sessions -> Jobs \cup {NoJob}]
  BY <1>3, <1>4 DEF Places
<1>6. SessionPlace(s)'
  <2>1. SessionPlace(s)
    BY DEF Places
  <2> QED BY <1>1, <1>2, <1>3, <2>1 DEF SessionPlace
<1>7. \A o \in Sessions \ {s} : joining'[o] = joining[o]
  BY <1>3 DEF Places
<1> QED BY <1>2, <1>3, <1>5, <1>6, <1>7, PlacesSession

\* References go, but those of threads stay.
LEMMA PlacesShed ==
    ASSUME Places, UNCHANGED <<at, pc>>, joining' \in [Sessions -> Jobs \cup {NoJob}],
           \A s \in Sessions :
                /\ ses'[s].activeJob = ses[s].activeJob /\ (Gone(ses[s]) => Gone(ses'[s]))
                /\ ses'[s].pending => ses[s].pending
                /\ ses'[s].autoJob \in {ses[s].autoJob, NoJob}
                /\ joining'[s] \in {joining[s], NoJob}
    PROVE  Places'
<1>1. ASSUME NEW s \in Sessions PROVE SessionPlace(s)'
  <2>1. SessionPlace(s)
    BY DEF Places
  <2> QED BY <2>1 DEF SessionPlace
<1> QED BY <1>1 DEF Places, CallerPlace

LEMMA JobPlaces ==
    ASSUME IInv, OInv, Places, NEW j \in Jobs, JobStep(j) PROVE Places'
<1>1. UNCHANGED <<at, pc, joining>>
  BY DEF JobStep, JobThread, Gate, Attempt, Launch, Kill, Settle, WorkerEnds, Publish, JobFrame
<1>2. CASE Publish(j)
  <2> DEFINE S == {s \in Sessions : ses[s].autoJob = j}
  <2>1. PICK js, ss :
            /\ ss \in [Sessions -> Session] /\ Disowned(S, ss)
            /\ Refresh(S, jobs[j].project, js, ss) \/ ses' = ss
    BY <1>2, PublishEffect
  <2>2. Links(ss, ses')
    <3>1. CASE ses' = ss
      BY <3>1 DEF Links
    <3>2. CASE Refresh(S, jobs[j].project, js, ss)
      BY <2>1, <3>2, RefreshLinks DEF Refresh
    <3> QED BY <2>1, <3>1, <3>2
  <2> QED BY <1>1, <2>1, <2>2, PlacesShed DEF Links, Disowned, Gone, Places
<1>3. CASE ~Publish(j)
  <2>1. UNCHANGED ses
    BY <1>3 DEF JobStep, JobThread, Gate, Attempt, Launch, Kill, Settle, WorkerEnds, JobFrame
  <2> QED BY <1>1, <2>1, PlacesShed DEF Places
<1> QED BY <1>2, <1>3

LEMMA RetryPlaces ==
    ASSUME IInv, OInv, Places, NEW s \in Sessions, Retry(s) PROVE Places'
<1>1. UNCHANGED <<at, pc, joining>>
  BY DEF Retry
<1>2. ASSUME NEW ss, ss \in [Sessions -> Session], Refresh({s}, Home[s], jobs, ss),
             \A o \in Sessions :
                /\ ss[o].activeJob = ses[o].activeJob /\ ss[o].autoJob = ses[o].autoJob
                /\ ss[o].status = ses[o].status /\ (ss[o].pending => ses[o].pending)
      PROVE  Places'
  <2>1. Links(ss, ses')
    BY <1>2, RefreshLinks DEF Refresh
  <2> QED BY <1>1, <1>2, <2>1, PlacesShed DEF Links, Gone, Places
<1>3. CASE UNCHANGED ses
  BY <1>1, <1>3, PlacesShed DEF Places
<1>4. ASSUME NEW r, ses' = [ses EXCEPT ![s] = r], r.status = ses[s].status,
             r.activeJob = ses[s].activeJob, ~r.pending
      PROVE  Places'
  <2>1. ses'[s] = r /\ \A o \in Sessions \ {s} : ses'[o] = ses[o]
    BY <1>4 DEF OInv, Owners
  <2>2. SessionPlace(s)'
    <3>1. SessionPlace(s)
      BY DEF Places
    <3> QED BY <1>1, <1>4, <2>1, <3>1 DEF SessionPlace, Gone
  <2> QED BY <1>1, <2>1, <2>2, PlacesSession DEF Places
<1>5. CASE Home[s] \in db
  <2>1. PICK ss : /\ Refresh({s}, Home[s], jobs, ss) /\ ss \in [Sessions -> Session]
                  /\ Dequeued(s, ss)
    BY <1>5, RetryEffect
  <2> QED BY <1>2, <2>1 DEF Dequeued
<1>6. CASE Home[s] \notin db
  <2>1. \/ UNCHANGED ses
        \/ \E r : /\ ses' = [ses EXCEPT ![s] = r] /\ r.status = ses[s].status
                   /\ r.activeJob = ses[s].activeJob /\ ~r.pending
    BY <1>6, RetryEffect
  <2> QED BY <1>3, <1>4, <2>1
<1> QED BY <1>5, <1>6

LEMMA CallPlaces ==
    ASSUME IInv, OInv, Places, NEW c \in Callers,
           CallerStep(c) \/ \E p \in Projects : CallIndex(c, p) \/ CallMutate(c, p)
    PROVE  Places'
<1>1. /\ c \in Actors /\ CallerPlace(c)
      /\ pc \in [Actors -> RequestPc] /\ at \in [Actors -> Jobs \cup {NoJob}]
  BY DEF OInv, IInv, ThreadsInv, Places, Actors
<1>2. UNCHANGED joining
  BY DEF CallerStep, CallDone, CallIndex, CallMutate, MutationStep, Reserve, Lock, Mutate,
     BeginRelease, EndRelease, MutFrame
<1>3. UNCHANGED ses
  BY DEF CallerStep, CallDone, CallIndex, CallMutate, MutationStep, Reserve, Lock, Mutate,
     BeginRelease, EndRelease, MutFrame
<1>4. Links(ses, ses')
  BY <1>3 DEF Links
<1>5. ASSUME NEW x, NEW l, at' = [at EXCEPT ![c] = x], pc' = [pc EXCEPT ![c] = l],
             l # "admitted", x # NoJob <=> l = "waiting"
      PROVE  Places'
  <2>1. /\ at'[c] = x /\ pc'[c] = l
        /\ \A a \in Actors \ {c} : at'[a] = at[a] /\ pc'[a] = pc[a]
    BY <1>1, <1>5
  <2>2. CallerPlace(c)'
    BY <1>5, <2>1 DEF CallerPlace
  <2> QED BY <1>2, <1>3, <2>1, <2>2, PlacesCaller
<1>6. ASSUME NEW l, l \notin Still, pc' = [pc EXCEPT ![c] = l], UNCHANGED at, pc[c] \notin Still
      PROVE  Places'
  BY <1>1, <1>2, <1>4, <1>6, PlacesMove
<1>7. CASE UNCHANGED <<at, pc>>
  BY <1>2, <1>3, <1>7, PlacesShed DEF Places
<1>8. CASE CallDone(c)
  BY <1>5, <1>8 DEF CallDone, Go
<1>9. CASE MutationStep(c)
  <2>1. UNCHANGED at
    BY <1>9 DEF MutationStep, Reserve, Lock, Mutate, BeginRelease, EndRelease, MutFrame
  <2>2. UNCHANGED pc \/ \E l : l \notin Still /\ pc' = [pc EXCEPT ![c] = l]
    BY <1>9 DEF MutationStep, Reserve, Refused, Lock, Mutate, BeginRelease, EndRelease, After,
       Go, Still
  <2>3. pc[c] \notin Still
    BY <1>9 DEF MutationStep, Reserve, Lock, Mutate, BeginRelease, EndRelease, Still
  <2> QED BY <1>6, <1>7, <2>1, <2>2, <2>3
<1>10. ASSUME NEW p \in Projects, CallMutate(c, p) PROVE Places'
  BY <1>6, <1>10 DEF CallMutate, Go, Still
<1>11. ASSUME NEW p \in Projects, CallIndex(c, p) PROVE Places'
  <2>1. CASE c = Watcher /\ Watching(ses, p) = {}
    BY <1>7, <1>11, <2>1 DEF CallIndex
  <2>2. CASE ~(c = Watcher /\ Watching(ses, p) = {})
    <3>1. PICK r \in Subscribe(Reap(jobs), p, Default) :
            IF r.job = NoJob \/ c # Watcher
            THEN /\ at' = [at EXCEPT ![c] = r.job]
                 /\ Go(c, IF r.job = NoJob THEN "idle" ELSE "waiting")
            ELSE LET waits == IF WatchOwners(p, r.job) = {} THEN 0 ELSE 1
                 IN  /\ at' = [at EXCEPT ![c] = IF waits = 1 THEN r.job ELSE NoJob]
                     /\ Go(c, IF waits = 1 THEN "waiting" ELSE "idle")
      BY <1>11, <2>2, Zenon DEF CallIndex
    <3> QED BY <1>5, <3>1 DEF Go
  <2> QED BY <2>1, <2>2
<1> QED BY <1>8, <1>9, <1>10, <1>11 DEF CallerStep

LEMMA NextPlaces == IInv /\ OInv /\ Places /\ [Next]_vars => Places'
<1> SUFFICES ASSUME IInv, OInv, Places, [Next]_vars PROVE Places'
  OBVIOUS
<1>1. ASSUME NEW s \in Sessions, Join(s) PROVE Places'
  BY <1>1, PlacesShed DEF Join, Places
<1>2. CASE Shutdown
  <2>1. UNCHANGED <<at, pc, joining>>
    BY <1>2 DEF Shutdown
  <2> QED BY <1>2, <2>1, ShutdownEffect, PlacesShed DEF Disowned, Gone, Places
<1>3. CASE Pruned
  <2>1. Watcher \in Actors /\ pc[Watcher] \notin Still /\ UNCHANGED <<at, joining>>
        /\ pc' = [pc EXCEPT ![Watcher] = "release"] /\ "release" \notin Still
    BY <1>3 DEF Pruned, Go, Actors, Still
  <2> QED BY <1>3, <2>1, PrunedLinks, PlacesMove
<1>4. CASE Drained \/ UNCHANGED vars
  <2>1. UNCHANGED <<ses, at, pc, joining>>
    BY <1>4 DEF Drained, vars
  <2> QED BY <2>1, PlacesShed DEF Places
<1> QED BY <1>1, <1>2, <1>3, <1>4, RequestPlaces, PartPlaces, JobPlaces, RetryPlaces, CallPlaces
        DEF Next

LEMMA InitPlaces == Init => Places
<1> SUFFICES ASSUME Init PROVE Places
  OBVIOUS
<1>1. ASSUME NEW s \in Sessions PROVE SessionPlace(s)
  BY DEF Init, SessionPlace, Actors
<1>2. ASSUME NEW c \in Callers PROVE CallerPlace(c)
  BY DEF Init, CallerPlace, Actors
<1> QED BY <1>1, <1>2 DEF Init, Places

-----------------------------------------------------------------------------
(* The rest of the state.                                                  *)

Modest ==
    /\ db \subseteq Projects
    /\ stopping \in BOOLEAN
    /\ asked \in [Sessions -> BOOLEAN]
    /\ answer \in [Sessions -> {"none", "done", "cancelled", "refused"}]
    /\ shutdown \in {"no", "waiting", "drained"}
    /\ mix \in Mixes
    /\ calls \in 0..mix.calls /\ interrupts \in 0..mix.interrupts
    /\ startFailures \in 0..mix.startFailures
    /\ \A s \in retry : ses[s].pending

LEMMA MixIs ==
    ASSUME Modest
    PROVE  /\ mix \in Mix /\ mix.calls \in Nat /\ mix.interrupts \in Nat
           /\ mix.startFailures \in Nat /\ mix.projects \subseteq Projects
           /\ calls \in Nat /\ interrupts \in Nat /\ startFailures \in Nat
BY MixesAssumption DEF Modest, Mix

\* A start that fails is one of those that may.
LEMMA FailureCounted ==
    ASSUME Modest, NEW js, NEW p, NEW o, NEW r \in Subscribe(js, p, o)
    PROVE  startFailures + r.failed \in 0..mix.startFailures
<1>1. Refuses(js, r) \/ Shares(js, p, r) \/ Creates(js, p, o, r)
  BY Subscribed
<1>2. r.failed = 0 \/ (r.failed = 1 /\ startFailures < mix.startFailures)
  BY <1>1 DEF Refuses, Shares, Creates
<1> QED BY <1>2, MixIs DEF Modest

\* Nothing of it changes, or only the failed starts.
LEMMA ModestStays ==
    ASSUME Modest, UNCHANGED <<db, stopping, asked, answer, shutdown, mix, calls, interrupts>>,
           startFailures' \in 0..mix.startFailures,
           \A s \in retry' : ses'[s].pending
    PROVE  Modest'
BY DEF Modest

LEMMA RequestModest ==
    ASSUME OInv, Modest, NEW s \in Sessions, retry = {},
           Open(s) \/ Submit(s) \/ RequestStep(s) \/ CancelRequest(s) \/ CancelSession(s)
             \/ Join(s) \/ CloseSession(s)
    PROVE  Modest'
<1>1. retry' = {}
  BY DEF Open, Submit, RequestStep, Enter, Admit, Parked, Confirm, Await, RefreshWatch, Complete,
     Background, AutoAdmit, RefreshAgain, MutationStep, Reserve, Lock, Mutate, BeginRelease,
     EndRelease, MutFrame, CancelRequest, CancelSession, Join, CloseSession
<1>2. CASE \/ Open(s) \/ Parked(s) \/ Confirm(s) \/ Await(s) \/ RefreshWatch(s) \/ Background(s)
           \/ RefreshAgain(s) \/ Reserve(s) \/ Lock(s) \/ BeginRelease(s) \/ EndRelease(s)
           \/ Join(s) \/ CloseSession(s)
  <2>1. UNCHANGED <<db, stopping, asked, answer, shutdown, mix, calls, interrupts, startFailures>>
    BY <1>2 DEF Open, Parked, Confirm, Await, RefreshWatch, Background, RefreshAgain, Reserve, Lock,
       BeginRelease, EndRelease, MutFrame, Join, CloseSession, history, bounds
  <2> QED BY <1>1, <2>1, ModestStays DEF Modest
<1>3. CASE Submit(s) \/ Enter(s) \/ Complete(s)
  <2>1. UNCHANGED <<db, stopping, shutdown, mix, calls, interrupts, startFailures>>
    BY <1>3 DEF Submit, Enter, Complete, history, bounds
  <2>2. /\ asked' \in [Sessions -> BOOLEAN]
        /\ answer' \in [Sessions -> {"none", "done", "cancelled", "refused"}]
    BY <1>3 DEF Submit, Enter, Complete, history, Modest
  <2> QED BY <1>1, <2>1, <2>2 DEF Modest
<1>4. CASE Admit(s)
  <2>1. UNCHANGED <<db, stopping, asked, answer, shutdown, mix, calls, interrupts>>
    BY <1>4 DEF Admit, history
  <2>2. PICK r \in Subscribe(Reap(jobs), want[s].project, want[s].args) :
            startFailures' = startFailures + r.failed
    BY <1>4 DEF Admit
  <2> QED BY <1>1, <2>1, <2>2, FailureCounted, ModestStays
<1>5. CASE AutoAdmit(s)
  <2>1. UNCHANGED <<db, stopping, asked, answer, shutdown, mix, calls, interrupts>>
    BY <1>5 DEF AutoAdmit, history
  <2>2. \/ UNCHANGED startFailures
        \/ \E r \in Subscribe(jobs, Home[s], Default) : startFailures' = startFailures + r.failed
    BY <1>5 DEF AutoAdmit
  <2>3. startFailures' \in 0..mix.startFailures
    BY <2>2, FailureCounted DEF Modest
  <2> QED BY <1>1, <2>1, <2>3, ModestStays
<1>6. CASE Mutate(s)
  <2>1. UNCHANGED <<stopping, asked, answer, shutdown, mix, calls, interrupts, startFailures>>
    BY <1>6 DEF Mutate, MutFrame, history, bounds
  <2>2. db' \subseteq Projects
    BY <1>6 DEF Mutate, Modest
  <2> QED BY <1>1, <2>1, <2>2 DEF Modest
<1>7. CASE CancelRequest(s)
  <2>1. UNCHANGED <<db, stopping, answer, shutdown, mix, calls, startFailures>>
    BY <1>7 DEF CancelRequest, interrupted
  <2>2. interrupts' \in 0..mix.interrupts /\ asked' \in [Sessions -> BOOLEAN]
    BY <1>7, MixIs DEF CancelRequest, interrupted, Modest
  <2> QED BY <1>1, <2>1, <2>2 DEF Modest
<1>8. CASE CancelSession(s)
  <2>1. UNCHANGED <<db, answer, shutdown, mix, calls, startFailures>>
    BY <1>8 DEF CancelSession, interrupted
  <2>2. interrupts' \in 0..mix.interrupts /\ asked' \in [Sessions -> BOOLEAN]
    BY <1>8, MixIs DEF CancelSession, interrupted, Modest
  <2>3. stopping' \in BOOLEAN
    BY <1>8 DEF CancelSession
  <2> QED BY <1>1, <2>1, <2>2, <2>3 DEF Modest
<1> QED BY <1>2, <1>3, <1>4, <1>5, <1>6, <1>7, <1>8 DEF RequestStep, MutationStep

LEMMA JobModest ==
    ASSUME IInv, OInv, Modest, NEW j \in Jobs, retry = {}, JobStep(j) PROVE Modest'
<1>1. UNCHANGED <<stopping, asked, answer, shutdown, mix, calls, interrupts, startFailures>>
  BY DEF JobStep, JobThread, Gate, Attempt, Launch, Kill, Settle, WorkerEnds, Publish, JobFrame,
     history, bounds
<1>2. CASE WorkerEnds(j)
  <2>1. j \in Active(jobs) /\ retry' = {} /\ db' \in {db, db \cup {jobs[j].project}}
    BY <1>2 DEF WorkerEnds, Active
  <2>2. jobs[j].project \in Projects
    BY <2>1 DEF IInv, JobsInv
  <2> QED BY <1>1, <2>1, <2>2 DEF Modest
<1>3. CASE Publish(j)
  <2> DEFINE S == {s \in Sessions : ses[s].autoJob = j}
             js == Drop([jobs EXCEPT ![j].phase = "terminal"], Times(j, Cardinality(S)))
  <2>1. PICK ss : /\ ss \in [Sessions -> Session] /\ Disowned(S, ss)
                  /\ \/ Refresh(S, jobs[j].project, js, ss)
                     \/ ses' = ss
                  /\ retry' = {s \in Sessions : /\ ses[s].pending /\ ~stopping
                                          /\ ss[s].autoJob = NoJob /\ ses[s].status = "open"}
    BY <1>3, PublishEffect
  <2>2. UNCHANGED db
    BY <1>3 DEF Publish
  <2> HIDE DEF S, js
  <2>3. Links(ss, ses')
    BY <2>1, RefreshLinks DEF Refresh, Links
  <2>4. \A s \in retry' : ses'[s].pending
    BY <2>1, <2>3 DEF Disowned, Links
  <2> QED BY <1>1, <2>2, <2>4, ModestStays DEF Modest
<1>4. CASE ~WorkerEnds(j) /\ ~Publish(j)
  <2>1. UNCHANGED <<db, retry>>
    BY <1>4 DEF JobStep, JobThread, Gate, Attempt, Launch, Kill, Settle
  <2> QED BY <1>1, <2>1, ModestStays DEF Modest
<1> QED BY <1>2, <1>3, <1>4

LEMMA RetryModest == ASSUME OInv, Modest, NEW s \in Sessions, Retry(s) PROVE Modest'
<1>1. UNCHANGED <<db, stopping, asked, answer, shutdown, mix, calls, interrupts>>
  BY DEF Retry, history
<1>2. s \in retry /\ retry \subseteq Sessions
  BY DEF Retry, OInv
<1>3. CASE Home[s] \in db
  <2>1. PICK ss : /\ Refresh({s}, Home[s], jobs, ss) /\ ss \in [Sessions -> Session]
                  /\ Dequeued(s, ss)
    BY <1>3, RetryEffect
  <2>2. retry' = retry \ {s} /\ UNCHANGED startFailures
    BY <1>3 DEF Retry
  <2>3. Links(ss, ses')
    BY <2>1, RefreshLinks DEF Refresh
  <2>4. \A o \in retry' : ses'[o].pending
    BY <1>2, <2>1, <2>2, <2>3 DEF Dequeued, Links, Modest
  <2> QED BY <1>1, <2>2, <2>4, ModestStays DEF Modest
<1>4. CASE Home[s] \notin db
  <2>1. PICK x \in Subscribe(jobs, Home[s], Default) :
                    /\ startFailures' = startFailures + x.failed
                    /\ retry' \in {{}, retry \ {s}}
                    /\ \/ UNCHANGED ses \/ \E r : ses' = [ses EXCEPT ![s] = r]
    BY <1>4, RetryEffect
  <2>2. \A o \in retry' : o \in retry /\ o # s
    BY <2>1
  <2>3. \A o \in retry' : ses'[o].pending
    BY <1>2, <2>1, <2>2 DEF Modest, OInv, Owners
  <2>4. startFailures' \in 0..mix.startFailures
    BY <2>1, FailureCounted
  <2> QED BY <1>1, <2>3, <2>4, ModestStays
<1> QED BY <1>3, <1>4

LEMMA CallModest ==
    ASSUME Modest, NEW c \in Callers, retry = {},
           CallerStep(c) \/ \E p \in Projects : CallIndex(c, p) \/ CallMutate(c, p)
    PROVE  Modest'
<1>1. UNCHANGED <<stopping, asked, answer, shutdown, mix, interrupts, retry>>
  BY DEF CallerStep, CallDone, CallIndex, CallMutate, MutationStep, Reserve, Lock, Mutate,
     BeginRelease, EndRelease, MutFrame, history, bounds
<1>2. CASE CallerStep(c)
  <2>1. UNCHANGED <<calls, startFailures>>
    BY <1>2 DEF CallerStep, CallDone, MutationStep, Reserve, Lock, Mutate,
       BeginRelease, EndRelease, MutFrame, bounds
  <2>2. db' \subseteq Projects
    BY <1>2 DEF CallerStep, CallDone, MutationStep, Reserve, Lock, Mutate,
       BeginRelease, EndRelease, MutFrame, Modest
  <2> QED BY <1>1, <2>1, <2>2 DEF Modest
<1>3. ASSUME NEW p \in Projects, CallMutate(c, p) PROVE Modest'
  <2>1. calls' \in 0..mix.calls /\ UNCHANGED <<db, startFailures>>
    BY <1>3, MixIs DEF CallMutate, Modest
  <2> QED BY <1>1, <2>1 DEF Modest
<1>4. ASSUME NEW p \in Projects, CallIndex(c, p) PROVE Modest'
  <2>1. calls' \in 0..mix.calls /\ UNCHANGED db
    <3>1. calls < mix.calls /\ calls' = calls + 1 /\ UNCHANGED db
      BY ONLY <1>4 DEF CallIndex
    <3> QED BY <3>1, MixIs DEF Modest
  <2>2. \/ UNCHANGED startFailures
        \/ \E r \in Subscribe(Reap(jobs), p, Default) : startFailures' = startFailures + r.failed
    BY <1>4, Zenon DEF CallIndex
  <2>3. startFailures' \in 0..mix.startFailures
    BY <2>2, FailureCounted DEF Modest
  <2> QED BY <1>1, <2>1, <2>3 DEF Modest
<1> QED BY <1>2, <1>3, <1>4

LEMMA NextModest == IInv /\ OInv /\ Modest /\ [Next]_vars => Modest'
<1> SUFFICES ASSUME IInv, OInv, Modest, [Next]_vars PROVE Modest'
  OBVIOUS
<1>1. CASE retry = {} /\ (Pruned \/ Shutdown \/ Drained)
  <2>1. /\ UNCHANGED <<db, asked, answer, mix, calls, interrupts, startFailures>> /\ retry' = {}
        /\ shutdown' \in {shutdown, "waiting", "drained"} /\ stopping' \in {stopping, TRUE}
    BY <1>1 DEF Pruned, Shutdown, Drained, history, bounds
  <2> QED BY <2>1 DEF Modest
<1>2. CASE UNCHANGED vars
  BY <1>2 DEF vars, Modest
<1> QED BY <1>1, <1>2, RequestModest, JobModest, RetryModest, CallModest DEF Next

LEMMA InitModest == Init => Modest
<1> SUFFICES ASSUME Init PROVE Modest
  OBVIOUS
<1>1. mix \in Mix
  BY MixesAssumption DEF Init
<1>2. /\ mix.calls \in Nat /\ mix.interrupts \in Nat /\ mix.startFailures \in Nat
      /\ mix.projects \subseteq Projects
  BY <1>1 DEF Mix
<1>3. /\ asked \in [Sessions -> BOOLEAN]
      /\ answer \in [Sessions -> {"none", "done", "cancelled", "refused"}]
  BY DEF Init
<1>4. /\ mix \in Mixes /\ db \subseteq mix.projects /\ retry = {} /\ stopping = FALSE
      /\ shutdown = "no" /\ calls = 0 /\ interrupts = 0 /\ startFailures = 0
  BY DEF Init
<1>5. /\ calls \in 0..mix.calls /\ interrupts \in 0..mix.interrupts
      /\ startFailures \in 0..mix.startFailures
  BY <1>2, <1>4
<1>6. db \subseteq Projects /\ stopping \in BOOLEAN /\ shutdown \in {"no", "waiting", "drained"}
  BY <1>2, <1>4
<1>7. \A s \in retry : ses[s].pending
  BY <1>4
<1> QED BY <1>3, <1>4, <1>5, <1>6, <1>7, Zenon DEF Modest

-----------------------------------------------------------------------------
(* The references, counted.                                                *)

Requesters(ss, j) == {s \in Sessions : ss[s].activeJob = j}
Autos(ss, j) == {s \in Sessions : ss[s].autoJob = j}
Joiners(jn, j) == {s \in Sessions : jn[s] = j}

\* Threads between admission and ownership, and the UI's, count as references.
Firmly(a, l) == l = "admitted" \/ a \in Callers \ {Watcher}
Threads(x, l, j) == {a \in Actors : x[a] = j /\ (l[a] = "admitted" \/ a \in Callers \ {Watcher})}

\* The reference of one thread.
Thread(x, l, a, j) == IF x[a] = j /\ Firmly(a, l[a]) THEN 1 ELSE 0

Firm(ss, x, l) == [j \in Jobs |-> Cardinality(Requesters(ss, j)) + Cardinality(Autos(ss, j))
                                  + Cardinality(Threads(x, l, j))]
Loose(jn, ws) == [j \in Jobs |-> Cardinality(Joiners(jn, j)) + Cardinality(Of(ws, j))]
Waits(x) == [j \in Jobs |-> Cardinality({c \in Callers \cap {Watcher} : x[c] = j})]

Books == Tally(jobs, Firm(ses, at, pc), Loose(joining, watchSubs), Waits(at), stopping)

LEMMA FiniteActors == IsFiniteSet(Actors) /\ IsFiniteSet(Sessions)
BY FinitenessAssumption, FS_Union DEF Actors

LEMMA FirmType ==
    ASSUME NEW ss, NEW x, NEW l, NEW j \in Jobs
    PROVE  /\ Cardinality(Requesters(ss, j)) \in Nat /\ Cardinality(Autos(ss, j)) \in Nat
           /\ Cardinality(Threads(x, l, j)) \in Nat /\ Firm(ss, x, l)[j] \in Nat
           /\ IsFiniteSet(Requesters(ss, j)) /\ IsFiniteSet(Autos(ss, j))
           /\ IsFiniteSet(Threads(x, l, j))
<1>1. /\ Requesters(ss, j) \subseteq Sessions /\ Autos(ss, j) \subseteq Sessions
      /\ Threads(x, l, j) \subseteq Actors
  BY DEF Requesters, Autos, Threads
<1>2. /\ IsFiniteSet(Requesters(ss, j)) /\ IsFiniteSet(Autos(ss, j))
      /\ IsFiniteSet(Threads(x, l, j))
  BY <1>1, FiniteActors, FS_Subset
<1>3. /\ Cardinality(Requesters(ss, j)) \in Nat /\ Cardinality(Autos(ss, j)) \in Nat
      /\ Cardinality(Threads(x, l, j)) \in Nat
  BY <1>2, FS_CardinalityType
<1> QED BY <1>2, <1>3 DEF Firm

LEMMA LooseType ==
    ASSUME NEW jn, NEW ws, ws \subseteq Sessions \X Jobs, NEW j \in Jobs
    PROVE  /\ Cardinality(Joiners(jn, j)) \in Nat /\ Loose(jn, ws)[j] \in Nat
           /\ IsFiniteSet(Joiners(jn, j)) /\ Cardinality(Of(ws, j)) \in Nat
<1>1. IsFiniteSet(Joiners(jn, j))
  BY FinitenessAssumption, FS_Subset DEF Joiners
<1>2. Cardinality(Of(ws, j)) \in Nat
  BY Column, FS_CardinalityType
<1> QED BY <1>1, <1>2, FS_CardinalityType DEF Loose

LEMMA WaitsType ==
    ASSUME NEW x, NEW j \in Jobs
    PROVE  /\ IsFiniteSet({c \in Callers \cap {Watcher} : x[c] = j})
           /\ Waits(x)[j] \in Nat
<1>1. IsFiniteSet({c \in Callers \cap {Watcher} : x[c] = j})
  BY FinitenessAssumption, FS_Subset
<1> QED BY <1>1, FS_CardinalityType DEF Waits

\* The references of one session.
Mine(ss, s, j) ==
    (IF ss[s].activeJob = j THEN 1 ELSE 0) + (IF ss[s].autoJob = j THEN 1 ELSE 0)

\* A session's references change.
LEMMA FirmSession ==
    ASSUME NEW ss, NEW ss2, NEW s \in Sessions, NEW x, NEW l, NEW j \in Jobs,
           \A o \in Sessions \ {s} : ss2[o].activeJob = ss[o].activeJob /\ ss2[o].autoJob = ss[o].autoJob
    PROVE  Firm(ss2, x, l)[j] + Mine(ss, s, j) = Firm(ss, x, l)[j] + Mine(ss2, s, j)
<1> DEFINE A == Requesters(ss, j)
           A2 == Requesters(ss2, j)
           B == Autos(ss, j)
           B2 == Autos(ss2, j)
<1>1. A2 \ {s} = A \ {s} /\ B2 \ {s} = B \ {s}
  BY DEF Requesters, Autos
<1>2. /\ s \in A <=> ss[s].activeJob = j
      /\ s \in B <=> ss[s].autoJob = j
      /\ s \in A2 <=> ss2[s].activeJob = j
      /\ s \in B2 <=> ss2[s].autoJob = j
  BY DEF Requesters, Autos
<1>3. /\ Firm(ss, x, l)[j] = Cardinality(A) + Cardinality(B) + Cardinality(Threads(x, l, j))
      /\ Firm(ss2, x, l)[j] = Cardinality(A2) + Cardinality(B2) + Cardinality(Threads(x, l, j))
  BY DEF Firm
<1>4. IsFiniteSet(A) /\ IsFiniteSet(B) /\ Cardinality(Threads(x, l, j)) \in Nat
  BY FirmType
<1> HIDE DEF A, A2, B, B2
<1>5. /\ Cardinality(A2) \in Nat /\ Cardinality(A) \in Nat
      /\ Cardinality(A2) + One(s \in A) = Cardinality(A) + One(s \in A2)
  BY <1>1, <1>4, CountChange
<1>6. /\ Cardinality(B2) \in Nat /\ Cardinality(B) \in Nat
      /\ Cardinality(B2) + One(s \in B) = Cardinality(B) + One(s \in B2)
  BY <1>1, <1>4, CountChange
<1> QED BY <1>2, <1>3, <1>4, <1>5, <1>6 DEF One, Mine

\* A thread's pointer changes.
LEMMA FirmThread ==
    ASSUME NEW ss, NEW x, NEW l, NEW x2, NEW l2, NEW a \in Actors, NEW j \in Jobs,
           \A b \in Actors \ {a} : x2[b] = x[b] /\ l2[b] = l[b]
    PROVE  Firm(ss, x2, l2)[j] + Thread(x, l, a, j) = Firm(ss, x, l)[j] + Thread(x2, l2, a, j)
<1> DEFINE A == Threads(x, l, j)
           A2 == Threads(x2, l2, j)
           n == Cardinality(Requesters(ss, j)) + Cardinality(Autos(ss, j))
<1>1. A2 \ {a} = A \ {a}
  BY DEF Threads
<1>2. /\ a \in A <=> x[a] = j /\ Firmly(a, l[a])
      /\ a \in A2 <=> x2[a] = j /\ Firmly(a, l2[a])
  BY DEF Threads, Firmly
<1>3. /\ Firm(ss, x, l)[j] = n + Cardinality(A) /\ Firm(ss, x2, l2)[j] = n + Cardinality(A2)
      /\ n \in Nat
  BY FirmType DEF Firm
<1>4. IsFiniteSet(A)
  BY FirmType
<1> HIDE DEF A, A2, n
<1>5. /\ Cardinality(A2) \in Nat /\ Cardinality(A) \in Nat
      /\ Cardinality(A2) + One(a \in A) = Cardinality(A) + One(a \in A2)
  BY <1>1, <1>4, CountChange
<1> QED BY <1>2, <1>3, <1>5 DEF One, Thread

LEMMA FirmSame ==
    ASSUME NEW ss, NEW x, NEW l, NEW ss2, NEW x2, NEW l2, NEW j \in Jobs,
           \A s \in Sessions : ss2[s].activeJob = ss[s].activeJob /\ ss2[s].autoJob = ss[s].autoJob,
           \A a \in Actors : Thread(x2, l2, a, j) = Thread(x, l, a, j)
    PROVE  Firm(ss2, x2, l2)[j] = Firm(ss, x, l)[j]
<1>0. \A a \in Actors : (x2[a] = j /\ Firmly(a, l2[a])) <=> (x[a] = j /\ Firmly(a, l[a]))
  BY DEF Thread
<1>1. /\ Requesters(ss2, j) = Requesters(ss, j) /\ Autos(ss2, j) = Autos(ss, j)
      /\ Threads(x2, l2, j) = Threads(x, l, j)
  BY <1>0 DEF Requesters, Autos, Threads, Firmly
<1> QED BY <1>1 DEF Firm

LEMMA LooseJoin ==
    ASSUME NEW jn, NEW jn2, NEW ws, ws \subseteq Sessions \X Jobs, NEW s \in Sessions, NEW j \in Jobs,
           \A o \in Sessions \ {s} : jn2[o] = jn[o]
    PROVE  Loose(jn2, ws)[j] + One(jn[s] = j) = Loose(jn, ws)[j] + One(jn2[s] = j)
<1> DEFINE A == Joiners(jn, j)
           A2 == Joiners(jn2, j)
           n == Cardinality(Of(ws, j))
<1>1. A2 \ {s} = A \ {s} /\ (s \in A <=> jn[s] = j) /\ (s \in A2 <=> jn2[s] = j)
  BY DEF Joiners
<1>2. /\ Loose(jn, ws)[j] = Cardinality(A) + n /\ Loose(jn2, ws)[j] = Cardinality(A2) + n
      /\ n \in Nat /\ IsFiniteSet(A)
  BY LooseType DEF Loose
<1> HIDE DEF A, A2, n
<1>3. /\ Cardinality(A2) \in Nat /\ Cardinality(A) \in Nat
      /\ Cardinality(A2) + One(s \in A) = Cardinality(A) + One(s \in A2)
  BY <1>1, <1>2, CountChange
<1> QED BY <1>1, <1>2, <1>3 DEF One

\* The watcher's wait.
WaitOf(c, x, j) == IF c = Watcher /\ x[c] = j THEN 1 ELSE 0

LEMMA WaitsThread ==
    ASSUME NEW x, NEW x2, NEW c \in Callers, NEW j \in Jobs, \A b \in Actors \ {c} : x2[b] = x[b]
    PROVE  Waits(x2)[j] + WaitOf(c, x, j) = Waits(x)[j] + WaitOf(c, x2, j)
<1> DEFINE A == {b \in Callers \cap {Watcher} : x[b] = j}
           A2 == {b \in Callers \cap {Watcher} : x2[b] = j}
<1>1. A2 \ {c} = A \ {c}
  BY DEF Actors
<1>2. /\ c \in A <=> c = Watcher /\ x[c] = j
      /\ c \in A2 <=> c = Watcher /\ x2[c] = j
  OBVIOUS
<1>3. Waits(x)[j] = Cardinality(A) /\ Waits(x2)[j] = Cardinality(A2) /\ IsFiniteSet(A)
  BY WaitsType DEF Waits
<1> HIDE DEF A, A2
<1>4. /\ Cardinality(A2) \in Nat /\ Cardinality(A) \in Nat
      /\ Cardinality(A2) + One(c \in A) = Cardinality(A) + One(c \in A2)
  BY <1>1, <1>3, CountChange
<1> QED BY <1>2, <1>3, <1>4 DEF One, WaitOf

\* Sessions that lose their watch give its references back.
LEMMA LooseLeft ==
    ASSUME NEW jn, watchSubs \subseteq Sessions \X Jobs, NEW T \in SUBSET Sessions, NEW j \in Jobs
    PROVE  LET less == {y \in watchSubs : y[1] \notin T}
           IN  /\ Pairs(T)[j] \in Nat /\ Loose(jn, less)[j] \in Nat
               /\ Loose(jn, watchSubs)[j] = Loose(jn, less)[j] + Pairs(T)[j]
<1> DEFINE less == {y \in watchSubs : y[1] \notin T}
<1>1. /\ Cardinality({s \in T : <<s, j>> \in watchSubs}) \in Nat
      /\ Cardinality(Of(less, j)) \in Nat
      /\ Cardinality(Of(watchSubs, j))
            = Cardinality(Of(less, j)) + Cardinality({s \in T : <<s, j>> \in watchSubs})
  BY ColumnLeft
<1>2. Cardinality(Joiners(jn, j)) \in Nat
  BY LooseType
<1>3. Pairs(T)[j] = Cardinality({s \in T : <<s, j>> \in watchSubs})
  BY DEF Pairs
<1> HIDE DEF less
<1> QED BY <1>1, <1>2, <1>3 DEF Loose, less

LEMMA LooseMore ==
    ASSUME NEW jn, watchSubs \subseteq Sessions \X Jobs,
           NEW late, late \subseteq Sessions \X Jobs, NEW j \in Jobs
    PROVE  /\ Cardinality(Of(late \ watchSubs, j)) \in Nat
           /\ Loose(jn, watchSubs \cup late)[j]
                = Loose(jn, watchSubs)[j] + Cardinality(Of(late \ watchSubs, j))
<1>1. Cardinality(Joiners(jn, j)) \in Nat
  BY LooseType
<1>2. /\ Cardinality(Of(watchSubs, j)) \in Nat
      /\ Cardinality(Of(late \ watchSubs, j)) \in Nat
      /\ Cardinality(Of(watchSubs \cup late, j))
            = Cardinality(Of(watchSubs, j))
                + Cardinality(Of(late \ watchSubs, j))
  BY ColumnMore
<1>3. /\ Loose(jn, watchSubs)[j]
            = Cardinality(Joiners(jn, j)) + Cardinality(Of(watchSubs, j))
      /\ Loose(jn, watchSubs \cup late)[j]
            = Cardinality(Joiners(jn, j)) + Cardinality(Of(watchSubs \cup late, j))
  BY DEF Loose
<1> QED BY <1>1, <1>2, <1>3

\* A refresh of watches keeps the books.
LEMMA TallyRefresh ==
    ASSUME watchSubs \subseteq Sessions \X Jobs, NEW js, NEW f, NEW w, NEW st, NEW jn,
           Tally(js, f, Loose(jn, watchSubs), w, st), NEW S \in SUBSET Sessions, NEW p, NEW ss
    PROVE  Tally(Refreshed(S, p, js, ss).jobs, f, Loose(jn, Refreshed(S, p, js, ss).subs), w, st)
<1> DEFINE able == {s \in S : ss[s].autoJob = NoJob /\ ~stopping /\ ~Cancelled(s)}
           gone == Watching(ss, p)
           new  == {s \in able : ~ss[s].watch}
           late == IF gone = {} THEN {} ELSE UNION {Late(js, s, p) : s \in new}
           less == {x \in watchSubs : x[1] \notin gone}
           n(j) == Cardinality(Of(late, j))
           more == [j \in Jobs |-> [js[j] EXCEPT !.subs = @ + n(j)]]
           l == Loose(jn, watchSubs)
<1>1. \/ Refreshed(S, p, js, ss).jobs = js /\ Refreshed(S, p, js, ss).subs = watchSubs
      \/ Refreshed(S, p, js, ss).jobs = Drop(js, Pairs(gone)) /\ Refreshed(S, p, js, ss).subs = less
      \/ Refreshed(S, p, js, ss).jobs = more /\ Refreshed(S, p, js, ss).subs = watchSubs \cup late
  BY DEF Refreshed, Of
<1>2. Tally(Drop(js, Pairs(gone)), f, Loose(jn, less), w, st)
  <2>1. gone \in SUBSET Sessions
    BY DEF Watching
  <2> HIDE DEF gone
  <2>2. \A j \in Jobs : /\ f[j] \in Nat /\ Loose(jn, less)[j] \in Nat /\ Pairs(gone)[j] \in Nat
                        /\ f[j] <= f[j] /\ f[j] + l[j] = f[j] + Loose(jn, less)[j] + Pairs(gone)[j]
    BY <2>1, LooseLeft DEF Tally
  <2> HIDE DEF less, l
  <2> QED BY <2>2, TallyDrop DEF l
<1>3. Tally(more, f, Loose(jn, watchSubs \cup late), w, st)
  <2>1. late \subseteq Sessions \X Jobs /\ late \ watchSubs = late
    BY DEF Late, Active
  <2>2. \A x \in late : x[2] \in Active(js)
    BY DEF Late
  <2>3. ASSUME NEW j \in Jobs
        PROVE  n(j) \in Nat /\ Loose(jn, watchSubs \cup late)[j] = l[j] + n(j)
    <3> HIDE DEF late
    <3>1. Of(late \ watchSubs, j) = Of(late, j)
      BY <2>1, Zenon
    <3>2. /\ Cardinality(Of(late \ watchSubs, j)) \in Nat
          /\ Loose(jn, watchSubs \cup late)[j]
                = Loose(jn, watchSubs)[j] + Cardinality(Of(late \ watchSubs, j))
      BY <2>1, LooseMore
    <3> QED BY <3>1, <3>2, Zenon
  <2>4. ASSUME NEW j \in Jobs, js[j].phase = "free" PROVE n(j) = 0
    <3>1. Of(late, j) = {}
      BY <2>2, <2>4 DEF Active, Of
    <3> QED BY <3>1, FS_EmptySet
  <2> DEFINE l2 == Loose(jn, watchSubs \cup late)
  <2> HIDE DEF n, l2, late
  <2>5. ASSUME NEW j \in Jobs, Entry(js[j], f[j], l[j], w[j], st)
        PROVE  l2[j] \in Nat /\ Entry(more[j], f[j], l2[j], w[j], st)
    <3>1. f[j] \in Nat /\ l[j] \in Nat /\ w[j] \in Nat
      BY DEF Tally
    <3>2. n(j) \in Nat /\ l2[j] = l[j] + n(j) /\ (js[j].phase = "free" => n(j) = 0)
      BY <2>3, <2>4 DEF l2
    <3> DEFINE k == js[j].subs + n(j)
               q == [js[j] EXCEPT !.subs = k]
    <3>3. more[j] = q
      OBVIOUS
    <3>4. js[j] \in Job /\ js[j].subs = f[j] + l[j]
      BY <2>5 DEF Entry
    <3> HIDE DEF l, more
    <3>5. k \in Nat /\ k = f[j] + l2[j] /\ (js[j].subs > 0 => k > 0)
          /\ (js[j].phase = "free" => k = js[j].subs)
      BY <3>1, <3>2, <3>4
    <3> HIDE DEF k
    <3>6. q \in Job /\ q.subs = k /\ q.phase = js[j].phase /\ q.waiters = js[j].waiters
          /\ q.cancel = js[j].cancel
      BY <3>4, <3>5 DEF Job
    <3> HIDE DEF q
    <3>7. l2[j] \in Nat
      BY <3>1, <3>2
    <3> QED BY <2>5, <3>3, <3>5, <3>6, <3>7 DEF Entry, Alive
  <2>6. more = [j \in Jobs |-> more[j]]
    OBVIOUS
  <2>7. \A j \in Jobs : f[j] \in Nat /\ w[j] \in Nat /\ Entry(js[j], f[j], l[j], w[j], st)
    BY DEF Tally
  <2> HIDE DEF more, l
  <2> QED BY <2>5, <2>6, <2>7 DEF Tally, l2
<1> HIDE DEF more, less, late, gone
<1> QED BY <1>1, <1>2, <1>3

\* A session and its thread: what they hold before and after.
Holds(ss, x, l, s, j) ==
    One(ss[s].activeJob = j) + One(ss[s].autoJob = j) + One(x[s] = j /\ l[s] = "admitted")

LEMMA Balance ==
    ASSUME NEW x \in Nat, NEW y \in Nat, NEW z \in Nat,
           NEW a1 \in Nat, NEW a2 \in Nat, NEW b1 \in Nat, NEW b2 \in Nat,
           NEW c1 \in Nat, NEW c2 \in Nat,
           y + a1 + b1 = x + a2 + b2, z + c1 = y + c2
    PROVE  z + (a1 + b1 + c1) = x + (a2 + b2 + c2)
OBVIOUS

LEMMA FirmOne ==
    ASSUME NEW s \in Sessions, NEW j \in Jobs,
           \A o \in Sessions \ {s} :
                ses'[o].activeJob = ses[o].activeJob /\ ses'[o].autoJob = ses[o].autoJob,
           \A a \in Actors \ {s} : at'[a] = at[a] /\ pc'[a] = pc[a]
    PROVE  /\ Firm(ses', at', pc')[j] \in Nat /\ Firm(ses, at, pc)[j] \in Nat
           /\ Firm(ses', at', pc')[j] + Holds(ses, at, pc, s, j)
                = Firm(ses, at, pc)[j] + Holds(ses', at', pc', s, j)
<1>1. s \in Actors
  BY DEF Actors
<1>2. Firm(ses', at, pc)[j] + Mine(ses, s, j) = Firm(ses, at, pc)[j] + Mine(ses', s, j)
  BY FirmSession
<1>3. Firm(ses', at', pc')[j] + Thread(at, pc, s, j) = Firm(ses', at, pc)[j] + Thread(at', pc', s, j)
  BY <1>1, FirmThread
<1>4. /\ Firm(ses', at', pc')[j] \in Nat /\ Firm(ses, at, pc)[j] \in Nat
      /\ Firm(ses', at, pc)[j] \in Nat
  BY FirmType
<1>5. \A b \in BOOLEAN : One(b) \in Nat
  BY DEF One
<1>6. /\ Firmly(s, pc[s]) <=> pc[s] = "admitted"
      /\ Firmly(s, pc'[s]) <=> pc'[s] = "admitted"
  BY NamesAssumption DEF Firmly
<1> DEFINE a1 == One(ses[s].activeJob = j)
           a2 == One(ses'[s].activeJob = j)
           b1 == One(ses[s].autoJob = j)
           b2 == One(ses'[s].autoJob = j)
           c1 == One(at[s] = j /\ pc[s] = "admitted")
           c2 == One(at'[s] = j /\ pc'[s] = "admitted")
<1>7. /\ Firm(ses', at, pc)[j] + a1 + b1 = Firm(ses, at, pc)[j] + a2 + b2
      /\ Firm(ses', at', pc')[j] + c1 = Firm(ses', at, pc)[j] + c2
  BY <1>2, <1>3, <1>4, <1>6 DEF One, Thread, Mine
<1>8. /\ a1 \in Nat /\ a2 \in Nat /\ b1 \in Nat /\ b2 \in Nat /\ c1 \in Nat /\ c2 \in Nat
  BY DEF One
<1>9. Holds(ses, at, pc, s, j) = a1 + b1 + c1 /\ Holds(ses', at', pc', s, j) = a2 + b2 + c2
  BY DEF Holds
<1> DEFINE x == Firm(ses, at, pc)[j]
           y == Firm(ses', at, pc)[j]
           z == Firm(ses', at', pc')[j]
<1>10. x \in Nat /\ y \in Nat /\ z \in Nat /\ y + a1 + b1 = x + a2 + b2 /\ z + c1 = y + c2
  BY <1>4, <1>7
<1> HIDE DEF a1, a2, b1, b2, c1, c2, x, y, z
<1>11. z + (a1 + b1 + c1) = x + (a2 + b2 + c2)
  BY <1>8, <1>10, Balance
<1> QED BY <1>4, <1>9, <1>11 DEF x, z

\* Waits of the watcher do not change when a session's thread moves.
LEMMA WaitsSession ==
    ASSUME NEW s \in Sessions, NEW j \in Jobs, \A a \in Actors \ {s} : at'[a] = at[a]
    PROVE  Waits(at')[j] = Waits(at)[j]
<1>1. \A c \in Callers : c \in Actors \ {s}
  BY NamesAssumption DEF Actors
<1>2. {c \in Callers \cap {Watcher} : at'[c] = j} = {c \in Callers \cap {Watcher} : at[c] = j}
  BY <1>1
<1> QED BY <1>2 DEF Waits

\* A thread without a job moves on.
LEMMA BooksPlain ==
    ASSUME Links(ses, ses'), UNCHANGED <<at, joining>>, NEW a,
           at[a] = NoJob \/ pc'[a] = pc[a], \A b \in Actors \ {a} : pc'[b] = pc[b],
           Tally(jobs', Firm(ses, at, pc), Loose(joining, watchSubs'), Waits(at), stopping')
    PROVE  Books'
<1>1. ASSUME NEW j \in Jobs PROVE Firm(ses', at', pc')[j] = Firm(ses, at, pc)[j]
  <2>1. \A b \in Actors : Thread(at', pc', b, j) = Thread(at, pc, b, j)
    BY NamesAssumption DEF Thread, Firmly
  <2>2. \A s \in Sessions : ses'[s].activeJob = ses[s].activeJob /\ ses'[s].autoJob = ses[s].autoJob
    BY DEF Links
  <2> QED BY <2>1, <2>2, FirmSame
<1>2. \A j \in Jobs : Loose(joining', watchSubs')[j] = Loose(joining, watchSubs')[j]
                      /\ Waits(at')[j] = Waits(at)[j]
  OBVIOUS
<1> QED BY <1>1, <1>2, TallySame DEF Books

LEMMA AloofBooks ==
    ASSUME IInv, OInv, Places, Books, NEW s \in Sessions, Aloof(s), ~Admit(s)
    PROVE  Books'
<1>1. Links(ses, ses')
  BY AloofLinks
<1>2. UNCHANGED <<at, joining, stopping>>
  BY DEF Aloof, Open, Submit, Enter, Parked, RefreshWatch, Complete, Background,
     RefreshAgain, MutationStep, Reserve, Lock, Mutate, BeginRelease, EndRelease, MutFrame
<1>3. UNCHANGED pc \/ (pc[s] \notin Still /\ \E l : pc' = [pc EXCEPT ![s] = l])
  BY DEF Aloof, Open, Submit, Enter, Parked, RefreshWatch, Complete, Background,
     RefreshAgain, MutationStep, Reserve, Refused, Lock, Mutate, BeginRelease, EndRelease, After,
     Go, Still
<1>4. at[s] = NoJob \/ pc'[s] = pc[s]
  BY <1>3 DEF Places, SessionPlace, Still
<1>5. \A b \in Actors \ {s} : pc'[b] = pc[b]
  BY <1>3 DEF IInv, ThreadsInv
<1>6. Tally(jobs', Firm(ses, at, pc), Loose(joining, watchSubs'), Waits(at), stopping)
  <2>1. CASE RefreshWatch(s) \/ RefreshAgain(s)
    <3>1. PICK ss : Refresh({s}, Home[s], jobs, ss)
      BY <2>1 DEF RefreshWatch, RefreshAgain
    <3>2. watchSubs \subseteq Sessions \X Jobs /\ {s} \in SUBSET Sessions
      BY DEF OInv, Owners
    <3> QED BY <3>1, <3>2, TallyRefresh DEF Books, Refresh
  <2>2. CASE Background(s)
    BY <2>2, TallyReap DEF Background, Books
  <2>3. CASE ~(RefreshWatch(s) \/ RefreshAgain(s) \/ Background(s))
    <3>1. UNCHANGED <<jobs, watchSubs>>
      BY <2>3 DEF Aloof, Open, Submit, Enter, Parked, Complete,
         MutationStep, Reserve, Lock, Mutate, BeginRelease, EndRelease, MutFrame
    <3> QED BY <3>1 DEF Books
  <2> QED BY <2>1, <2>2, <2>3
<1> QED BY <1>1, <1>2, <1>4, <1>5, <1>6, BooksPlain

\* One session's references change as the books of its jobs do.
LEMMA BooksSession ==
    ASSUME NEW s \in Sessions, UNCHANGED <<joining, watchSubs, stopping>>,
           \A o \in Sessions \ {s} :
                ses'[o].activeJob = ses[o].activeJob /\ ses'[o].autoJob = ses[o].autoJob,
           \A a \in Actors \ {s} : at'[a] = at[a] /\ pc'[a] = pc[a],
           NEW f, Tally(jobs', f, Loose(joining, watchSubs), Waits(at), stopping),
           \A j \in Jobs : Firm(ses', at', pc')[j] = f[j]
    PROVE  Books'
<1>1. \A j \in Jobs : Waits(at')[j] = Waits(at)[j]
  BY WaitsSession
<1> QED BY <1>1, TallySame DEF Books


\* ... it gives some back ...
LEMMA BooksGive ==
    ASSUME Books, NEW s \in Sessions, UNCHANGED <<joining, watchSubs, stopping>>,
           \A o \in Sessions \ {s} :
                ses'[o].activeJob = ses[o].activeJob /\ ses'[o].autoJob = ses[o].autoJob,
           \A a \in Actors \ {s} : at'[a] = at[a] /\ pc'[a] = pc[a],
           NEW n, jobs' = Drop(jobs, n) \/ jobs' = Reap(Drop(jobs, n)),
           \A j \in Jobs : /\ n[j] \in Nat /\ Holds(ses', at', pc', s, j) \in Nat
                           /\ Holds(ses, at, pc, s, j) = Holds(ses', at', pc', s, j) + n[j]
    PROVE  Books'
<1> DEFINE f == Firm(ses, at, pc)
           f2 == Firm(ses', at', pc')
           l == Loose(joining, watchSubs)
<1>1. ASSUME NEW j \in Jobs
      PROVE  f2[j] \in Nat /\ f[j] \in Nat /\ f[j] = f2[j] + n[j]
  <2>1. /\ f2[j] \in Nat /\ f[j] \in Nat
        /\ f2[j] + Holds(ses, at, pc, s, j) = f[j] + Holds(ses', at', pc', s, j)
    BY FirmOne
  <2> HIDE DEF f, f2
  <2> QED BY <2>1
<1> HIDE DEF f, f2, l
<1>2. Tally(jobs, f, l, Waits(at), stopping)
  BY DEF Books, f, l
<1>3. ASSUME NEW j \in Jobs
      PROVE  /\ f2[j] \in Nat /\ l[j] \in Nat /\ n[j] \in Nat
             /\ f2[j] <= f[j] /\ f[j] + l[j] = f2[j] + l[j] + n[j]
  <2>1. l[j] \in Nat
    BY <1>2 DEF Tally
  <2> QED BY <1>1, <2>1
<1>4. Tally(Drop(jobs, n), f2, l, Waits(at), stopping)
  BY <1>2, <1>3, TallyDrop
<1>5. Tally(jobs', f2, l, Waits(at), stopping)
  BY <1>4, TallyReap
<1> QED BY <1>5, BooksSession DEF f2, l

\* ... or keeps as many of each job.
LEMMA BooksKeep ==
    ASSUME Books, NEW s \in Sessions, UNCHANGED <<jobs, joining, watchSubs, stopping>>,
           \A o \in Sessions \ {s} :
                ses'[o].activeJob = ses[o].activeJob /\ ses'[o].autoJob = ses[o].autoJob,
           \A a \in Actors \ {s} : at'[a] = at[a] /\ pc'[a] = pc[a],
           \A j \in Jobs : /\ Holds(ses, at, pc, s, j) = Holds(ses', at', pc', s, j)
                           /\ Holds(ses, at, pc, s, j) \in Nat
    PROVE  Books'
<1> DEFINE f == Firm(ses, at, pc)
           f2 == Firm(ses', at', pc')
<1>1. ASSUME NEW j \in Jobs PROVE f2[j] = f[j]
  <2>1. /\ f2[j] \in Nat /\ f[j] \in Nat
        /\ f2[j] + Holds(ses, at, pc, s, j) = f[j] + Holds(ses', at', pc', s, j)
    BY FirmOne
  <2> HIDE DEF f, f2
  <2> QED BY <2>1
<1> HIDE DEF f, f2
<1>2. Tally(jobs', f, Loose(joining, watchSubs), Waits(at), stopping)
  BY DEF Books, f
<1> QED BY <1>1, <1>2, BooksSession DEF f2

\* A session is admitted to a job.
LEMMA BooksGain ==
    ASSUME NEW s \in Sessions, UNCHANGED <<joining, watchSubs, stopping>>,
           \A o \in Sessions \ {s} :
                ses'[o].activeJob = ses[o].activeJob /\ ses'[o].autoJob = ses[o].autoJob,
           \A a \in Actors \ {s} : at'[a] = at[a] /\ pc'[a] = pc[a],
           NEW js, Tally(js, Firm(ses, at, pc), Loose(joining, watchSubs), Waits(at), stopping),
           NEW p \in Projects, NEW o \in Options, NEW r \in Subscribe(js, p, o), jobs' = r.jobs,
           \A j \in Jobs : /\ Holds(ses, at, pc, s, j) \in Nat
                           /\ Holds(ses', at', pc', s, j)
                                = Holds(ses, at, pc, s, j) + (IF j = r.job THEN 1 ELSE 0)
    PROVE  Books'
<1> DEFINE f == Firm(ses, at, pc)
           f2 == Firm(ses', at', pc')
<1>1. ASSUME NEW j \in Jobs
      PROVE  f2[j] = f[j] + (IF j = r.job THEN 1 ELSE 0) /\ f[j] \in Nat
  <2>1. /\ f2[j] \in Nat /\ f[j] \in Nat
        /\ f2[j] + Holds(ses, at, pc, s, j) = f[j] + Holds(ses', at', pc', s, j)
    BY FirmOne
  <2> HIDE DEF f, f2
  <2> QED BY <2>1
<1> HIDE DEF f, f2
<1>2. CASE r.job = NoJob
  <2>1. Tally(jobs', f, Loose(joining, watchSubs), Waits(at), stopping)
    BY <1>2, TallySubscribe DEF f
  <2>2. \A j \in Jobs : f2[j] = f[j]
    BY <1>1, <1>2, NamesAssumption
  <2> QED BY <2>1, <2>2, BooksSession DEF f2
<1>3. CASE r.job # NoJob
  <2>1. Tally(jobs', Plus(f, r.job), Loose(joining, watchSubs), Waits(at), stopping)
    BY <1>3, TallySubscribe DEF f
  <2>2. \A j \in Jobs : f2[j] = Plus(f, r.job)[j]
    BY <1>1 DEF Plus
  <2> QED BY <2>1, <2>2, BooksSession DEF f2
<1> QED BY <1>2, <1>3

\* What a session holds, of its own and of its thread.
LEMMA HoldsIs ==
    ASSUME NEW ss, NEW x, NEW l, NEW s, NEW j
    PROVE  /\ Holds(ss, x, l, s, j) \in Nat
           /\ Holds(ss, x, l, s, j) =
                (IF ss[s].activeJob = j THEN 1 ELSE 0) + (IF ss[s].autoJob = j THEN 1 ELSE 0)
                    + (IF x[s] = j /\ l[s] = "admitted" THEN 1 ELSE 0)
BY DEF Holds, One

LEMMA AdmitBooks ==
    ASSUME IInv, OInv, Places, Books, NEW s \in Sessions, Admit(s)
    PROVE  Books'
<1>1. /\ s \in Actors /\ SessionPlace(s)
      /\ pc \in [Actors -> RequestPc] /\ at \in [Actors -> Jobs \cup {NoJob}]
      /\ want[s].project \in Projects /\ want[s].args \in Options
  BY DEF OInv, IInv, ThreadsInv, Places, Actors
<1>2. PICK r \in Subscribe(Reap(jobs), want[s].project, want[s].args) :
        /\ jobs' = r.jobs /\ at' = [at EXCEPT ![s] = r.job]
        /\ Go(s, CASE r.status = "OK" -> "admitted"
                   [] r.status \in {"BUSY", "CANCELLING"} -> "parked"
                   [] OTHER -> "refresh")
  BY DEF Admit
<1>3. UNCHANGED <<ses, joining, watchSubs, stopping>> /\ pc[s] = "index"
  BY DEF Admit
<1>4. r.status = "OK" <=> r.job # NoJob
  BY SubscribeStatus
<1>5. /\ at'[s] = r.job /\ \A a \in Actors \ {s} : at'[a] = at[a] /\ pc'[a] = pc[a]
      /\ pc'[s] = "admitted" <=> r.job # NoJob
  BY <1>1, <1>2, <1>4 DEF Go
<1>6. Tally(Reap(jobs), Firm(ses, at, pc), Loose(joining, watchSubs), Waits(at), stopping)
  BY TallyReap DEF Books
<1>7. ASSUME NEW j \in Jobs
      PROVE  /\ Holds(ses, at, pc, s, j) \in Nat
             /\ Holds(ses', at', pc', s, j)
                  = Holds(ses, at, pc, s, j) + (IF j = r.job THEN 1 ELSE 0)
  <2>1. j # NoJob
    BY NamesAssumption
  <2> QED BY <1>3, <1>5, <2>1, HoldsIs
<1> QED BY <1>1, <1>2, <1>3, <1>5, <1>6, <1>7, BooksGain

LEMMA ConfirmBooks ==
    ASSUME IInv, OInv, Places, Books, NEW s \in Sessions, Confirm(s)
    PROVE  Books'
<1>1. /\ s \in Actors /\ SessionPlace(s)
      /\ pc \in [Actors -> RequestPc] /\ at \in [Actors -> Jobs \cup {NoJob}]
      /\ ses \in [Sessions -> Session]
  BY DEF OInv, Owners, IInv, ThreadsInv, Places, Actors
<1>2. PICK e : /\ Edited(s, e)
               /\ e.activeJob = IF Cancelled(s) THEN ses[s].activeJob ELSE at[s]
  BY ConfirmEffect
<1>3. /\ ses'[s] = e /\ \A o \in Sessions \ {s} : ses'[o] = ses[o]
      /\ e.autoJob = ses[s].autoJob
  BY <1>1, <1>2 DEF Edited
<1>4. /\ UNCHANGED <<joining, watchSubs, stopping>> /\ pc[s] = "admitted"
      /\ at[s] # NoJob /\ ses[s].activeJob = NoJob
  BY <1>1 DEF Confirm, SessionPlace
<1>5. NoJob \notin Jobs
  BY NamesAssumption
<1>6. CASE Cancelled(s)
  <2> DEFINE n == Times(at[s], 1)
  <2>1. /\ jobs' = Drop(jobs, n) /\ at' = [at EXCEPT ![s] = NoJob]
        /\ pc' = [pc EXCEPT ![s] = "refresh"]
    BY <1>6 DEF Confirm, Confirmed, Go
  <2>2. /\ at'[s] = NoJob /\ pc'[s] = "refresh"
        /\ \A a \in Actors \ {s} : at'[a] = at[a] /\ pc'[a] = pc[a]
    BY <1>1, <2>1
  <2>3. ASSUME NEW j \in Jobs
        PROVE  /\ n[j] \in Nat /\ Holds(ses', at', pc', s, j) \in Nat
               /\ Holds(ses, at, pc, s, j) = Holds(ses', at', pc', s, j) + n[j]
    <3>1. n[j] = IF at[s] = j THEN 1 ELSE 0
      BY DEF Times
    <3> HIDE DEF n
    <3> QED BY <1>2, <1>3, <1>4, <1>5, <1>6, <2>2, <3>1, HoldsIs
  <2> HIDE DEF n
  <2> QED BY <1>3, <1>4, <2>1, <2>2, <2>3, BooksGive
<1>7. CASE ~Cancelled(s)
  <2>1. UNCHANGED <<jobs, at>> /\ pc' = [pc EXCEPT ![s] = "waiting"]
    BY <1>7 DEF Confirm, Confirmed, Go
  <2>2. pc'[s] = "waiting" /\ \A a \in Actors \ {s} : at'[a] = at[a] /\ pc'[a] = pc[a]
    BY <1>1, <2>1
  <2>3. ASSUME NEW j \in Jobs
        PROVE  /\ Holds(ses, at, pc, s, j) = Holds(ses', at', pc', s, j)
               /\ Holds(ses, at, pc, s, j) \in Nat
    <3>8. /\ Holds(ses, at, pc, s, j) = (IF ses[s].activeJob = j THEN 1 ELSE 0)
             + (IF ses[s].autoJob = j THEN 1 ELSE 0) + (IF at[s] = j /\ pc[s] = "admitted" THEN 1 ELSE 0)
          /\ Holds(ses', at', pc', s, j) = (IF ses'[s].activeJob = j THEN 1 ELSE 0)
             + (IF ses'[s].autoJob = j THEN 1 ELSE 0) + (IF at'[s] = j /\ pc'[s] = "admitted" THEN 1 ELSE 0)
      BY HoldsIs
    <3> QED BY <1>2, <1>3, <1>4, <1>5, <1>7, <2>1, <2>2, <3>8
  <2> QED BY <1>3, <1>4, <2>1, <2>2, <2>3, BooksKeep
<1> QED BY <1>6, <1>7

LEMMA AwaitBooks ==
    ASSUME IInv, OInv, Places, Books, NEW s \in Sessions, Await(s)
    PROVE  Books'
<1>1. /\ s \in Actors /\ SessionPlace(s)
      /\ pc \in [Actors -> RequestPc] /\ at \in [Actors -> Jobs \cup {NoJob}]
      /\ ses \in [Sessions -> Session]
  BY DEF OInv, Owners, IInv, ThreadsInv, Places, Actors
<1>2. PICK e : /\ Edited(s, e)
               /\ e.activeJob = IF ses[s].activeJob = at[s] THEN NoJob ELSE ses[s].activeJob
  BY AwaitEffect
<1>3. /\ ses'[s] = e /\ \A o \in Sessions \ {s} : ses'[o] = ses[o]
      /\ e.autoJob = ses[s].autoJob
  BY <1>1, <1>2 DEF Edited
<1>4. /\ UNCHANGED <<joining, watchSubs, stopping>> /\ pc[s] = "waiting"
      /\ at' = [at EXCEPT ![s] = NoJob] /\ pc' = [pc EXCEPT ![s] = "refresh"]
  BY DEF Await, Go
<1>5. /\ at'[s] = NoJob /\ pc'[s] = "refresh"
      /\ \A a \in Actors \ {s} : at'[a] = at[a] /\ pc'[a] = pc[a]
  BY <1>1, <1>4
<1>6. NoJob \notin Jobs /\ at[s] # NoJob
  BY <1>1, <1>4, NamesAssumption DEF SessionPlace
<1>7. CASE ses[s].activeJob # at[s]
  <2>1. UNCHANGED jobs
    BY <1>7 DEF Await
  <2>2. ASSUME NEW j \in Jobs
        PROVE  /\ Holds(ses, at, pc, s, j) = Holds(ses', at', pc', s, j)
               /\ Holds(ses, at, pc, s, j) \in Nat
    <3>8. /\ Holds(ses, at, pc, s, j) = (IF ses[s].activeJob = j THEN 1 ELSE 0)
             + (IF ses[s].autoJob = j THEN 1 ELSE 0) + (IF at[s] = j /\ pc[s] = "admitted" THEN 1 ELSE 0)
          /\ Holds(ses', at', pc', s, j) = (IF ses'[s].activeJob = j THEN 1 ELSE 0)
             + (IF ses'[s].autoJob = j THEN 1 ELSE 0) + (IF at'[s] = j /\ pc'[s] = "admitted" THEN 1 ELSE 0)
      BY HoldsIs
    <3> QED BY <1>2, <1>3, <1>4, <1>5, <1>6, <1>7, <3>8
  <2> QED BY <1>3, <1>4, <1>5, <2>1, <2>2, BooksKeep
<1>8. CASE ses[s].activeJob = at[s]
  <2> DEFINE n == Times(at[s], 1)
  <2>1. jobs' = Reap(Drop(jobs, n))
    BY <1>8 DEF Await
  <2>2. ASSUME NEW j \in Jobs
        PROVE  /\ n[j] \in Nat /\ Holds(ses', at', pc', s, j) \in Nat
               /\ Holds(ses, at, pc, s, j) = Holds(ses', at', pc', s, j) + n[j]
    <3>1. n[j] = IF at[s] = j THEN 1 ELSE 0
      BY DEF Times
    <3> HIDE DEF n
    <3>8. /\ Holds(ses, at, pc, s, j) = (IF ses[s].activeJob = j THEN 1 ELSE 0)
             + (IF ses[s].autoJob = j THEN 1 ELSE 0) + (IF at[s] = j /\ pc[s] = "admitted" THEN 1 ELSE 0)
          /\ Holds(ses', at', pc', s, j) = (IF ses'[s].activeJob = j THEN 1 ELSE 0)
             + (IF ses'[s].autoJob = j THEN 1 ELSE 0) + (IF at'[s] = j /\ pc'[s] = "admitted" THEN 1 ELSE 0)
      BY HoldsIs
    <3> QED BY <1>2, <1>3, <1>4, <1>5, <1>6, <1>8, <3>1, <3>8
  <2> HIDE DEF n
  <2> QED BY <1>3, <1>4, <1>5, <2>1, <2>2, BooksGive
<1> QED BY <1>7, <1>8

LEMMA CancelBooks ==
    ASSUME IInv, OInv, Places, Books, NEW s \in Sessions, CancelRequest(s)
    PROVE  Books'
<1>1. ses \in [Sessions -> Session]
  BY DEF OInv, Owners
<1>2. PICK e : Edited(s, e) /\ e.activeJob = IF ses[s].active THEN NoJob ELSE ses[s].activeJob
  BY CancelEffect
<1>3. /\ ses'[s] = e /\ \A o \in Sessions \ {s} : ses'[o] = ses[o]
      /\ e.autoJob = ses[s].autoJob
  BY <1>1, <1>2 DEF Edited
<1>4. UNCHANGED <<joining, watchSubs, stopping, at, pc>>
  BY DEF CancelRequest
<1>5. NoJob \notin Jobs
  BY NamesAssumption
<1>6. CASE ses[s].active /\ ses[s].activeJob # NoJob
  <2> DEFINE n == Times(ses[s].activeJob, 1)
  <2>1. jobs' = Drop(jobs, n)
    BY <1>6 DEF CancelRequest
  <2>2. ASSUME NEW j \in Jobs
        PROVE  /\ n[j] \in Nat /\ Holds(ses', at', pc', s, j) \in Nat
               /\ Holds(ses, at, pc, s, j) = Holds(ses', at', pc', s, j) + n[j]
    <3>1. n[j] = IF ses[s].activeJob = j THEN 1 ELSE 0
      BY DEF Times
    <3> HIDE DEF n
    <3> QED BY <1>2, <1>3, <1>4, <1>5, <1>6, <3>1, HoldsIs
  <2> HIDE DEF n
  <2> QED BY <1>3, <1>4, <2>1, <2>2, BooksGive
<1>7. CASE ~(ses[s].active /\ ses[s].activeJob # NoJob)
  <2>1. UNCHANGED jobs
    BY <1>7 DEF CancelRequest
  <2>2. ASSUME NEW j \in Jobs
        PROVE  /\ Holds(ses, at, pc, s, j) = Holds(ses', at', pc', s, j)
               /\ Holds(ses, at, pc, s, j) \in Nat
    BY <1>2, <1>3, <1>4, <1>5, <1>7, HoldsIs
  <2> QED BY <1>3, <1>4, <2>1, <2>2, BooksKeep
<1> QED BY <1>6, <1>7

LEMMA AutoBooks ==
    ASSUME IInv, OInv, Places, Books, NEW s \in Sessions, AutoAdmit(s)
    PROVE  Books'
<1>1. /\ s \in Actors /\ pc \in [Actors -> RequestPc] /\ ses \in [Sessions -> Session]
      /\ SessionPlace(s)
  BY DEF OInv, Owners, IInv, ThreadsInv, Places, Actors
<1>2. /\ UNCHANGED <<at, joining, watchSubs, stopping>> /\ pc[s] = "admit"
      /\ pc' \in {[pc EXCEPT ![s] = "idle"], [pc EXCEPT ![s] = "again"]}
  BY DEF AutoAdmit, Go
<1>3. /\ at[s] = NoJob /\ pc'[s] # "admitted"
      /\ \A a \in Actors \ {s} : at'[a] = at[a] /\ pc'[a] = pc[a]
  BY <1>1, <1>2 DEF SessionPlace
<1>4. NoJob \notin Jobs
  BY NamesAssumption
<1>5. CASE Links(ses, ses') /\ UNCHANGED jobs
  BY <1>2, <1>3, <1>5, BooksPlain DEF Books
<1>6. ASSUME ses[s].autoJob = NoJob, NEW r, ses' = [ses EXCEPT ![s] = r],
             r.activeJob = ses[s].activeJob
      PROVE  /\ r.autoJob = NoJob /\ UNCHANGED jobs => Books'
             /\ \A x \in Subscribe(jobs, Home[s], Default) :
                    jobs' = x.jobs /\ r.autoJob = x.job => Books'
  <2>1. ses'[s] = r /\ \A o \in Sessions \ {s} : ses'[o] = ses[o]
    BY <1>1, <1>6
  <2>2. ASSUME r.autoJob = NoJob, UNCHANGED jobs PROVE Books'
    <3>1. ASSUME NEW j \in Jobs
          PROVE  /\ Holds(ses, at, pc, s, j) = Holds(ses', at', pc', s, j)
                 /\ Holds(ses, at, pc, s, j) \in Nat
      <4>8. /\ Holds(ses, at, pc, s, j) = (IF ses[s].activeJob = j THEN 1 ELSE 0)
               + (IF ses[s].autoJob = j THEN 1 ELSE 0) + (IF at[s] = j /\ pc[s] = "admitted" THEN 1 ELSE 0)
            /\ Holds(ses', at', pc', s, j) = (IF ses'[s].activeJob = j THEN 1 ELSE 0)
               + (IF ses'[s].autoJob = j THEN 1 ELSE 0) + (IF at'[s] = j /\ pc'[s] = "admitted" THEN 1 ELSE 0)
        BY HoldsIs
      <4> QED BY <1>2, <1>3, <1>4, <1>6, <2>1, <2>2, <4>8
    <3> QED BY <1>2, <1>3, <2>1, <2>2, <3>1, BooksKeep
  <2>3. ASSUME NEW x \in Subscribe(jobs, Home[s], Default), jobs' = x.jobs, r.autoJob = x.job
        PROVE  Books'
    <3>1. ASSUME NEW j \in Jobs
          PROVE  /\ Holds(ses, at, pc, s, j) \in Nat
                 /\ Holds(ses', at', pc', s, j)
                      = Holds(ses, at, pc, s, j) + (IF j = x.job THEN 1 ELSE 0)
      <4>8. /\ Holds(ses, at, pc, s, j) = (IF ses[s].activeJob = j THEN 1 ELSE 0)
               + (IF ses[s].autoJob = j THEN 1 ELSE 0) + (IF at[s] = j /\ pc[s] = "admitted" THEN 1 ELSE 0)
            /\ Holds(ses', at', pc', s, j) = (IF ses'[s].activeJob = j THEN 1 ELSE 0)
               + (IF ses'[s].autoJob = j THEN 1 ELSE 0) + (IF at'[s] = j /\ pc'[s] = "admitted" THEN 1 ELSE 0)
        BY HoldsIs
      <4> QED BY <1>2, <1>3, <1>4, <1>6, <2>1, <2>3, <4>8
    <3>2. Home[s] \in Projects /\ Default \in Options
      BY NamesAssumption
    <3>3. Tally(jobs, Firm(ses, at, pc), Loose(joining, watchSubs), Waits(at), stopping)
      BY DEF Books
    <3> QED BY <1>2, <1>3, <2>1, <2>3, <3>1, <3>2, <3>3, BooksGain
  <2> QED BY <2>2, <2>3
<1> QED BY <1>5, <1>6, AutoEffect

-----------------------------------------------------------------------------
(* The critical sections, in the books.                                    *)

\* Nothing but session s changed its references.
Others(ss, ss2, s) == \A o \in Sessions \ {s} :
    ss2[o].activeJob = ss[o].activeJob /\ ss2[o].autoJob = ss[o].autoJob

\* Nothing but the count of job a changed.
Elsewhere(f, f2, a) == \A i \in Jobs \ {a} : f2[i] = f[i]

\* The last owner of an auto-index job leaves, and waits for its end.
LEMMA TallyFinal ==
    ASSUME NEW js, NEW f, NEW l, NEW w, NEW st, Tally(js, f, l, w, st),
           NEW a \in Jobs, js[a].subs = 1, NEW f2, NEW l2,
           Elsewhere(f, f2, a), Elsewhere(l, l2, a),
           f2[a] \in Nat, l2[a] \in Nat, f[a] = f2[a] + 1, l2[a] = l[a] + 1
    PROVE  Tally([js EXCEPT ![a].cancel = TRUE], f2, l2, w, st)
<1> DEFINE q == [js[a] EXCEPT !.cancel = TRUE]
<1>1. [js EXCEPT ![a].cancel = TRUE] = [js EXCEPT ![a] = q]
  BY DEF Tally
<1>2. Entry(js[a], f[a], l[a], w[a], st) /\ f[a] \in Nat /\ l[a] \in Nat /\ w[a] \in Nat
  BY DEF Tally
<1>3. js[a] \in Job
  BY <1>2 DEF Entry
<1>4. q \in Job /\ q.subs = 1 /\ q.waiters = js[a].waiters /\ q.phase = js[a].phase /\ q.cancel
  BY <1>3 DEF Job
<1>5. f2[a] = 0 /\ f2[a] + l2[a] = 1
  BY <1>2 DEF Entry
<1> HIDE DEF q
<1>6. Entry(q, f2[a], l2[a], w[a], st)
  BY <1>2, <1>4, <1>5 DEF Entry, Alive
<1>7. Tally([js EXCEPT ![a] = q], f2, l2, w, st)
  BY <1>2, <1>6, TallyOne DEF Elsewhere
<1> QED BY <1>1, <1>7

\* A session without its request, or without its auto-index job.
LEMMA FirmShed ==
    ASSUME NEW ss, NEW ss2, NEW s \in Sessions, NEW x, NEW l, NEW j \in Jobs, NoJob \notin Jobs,
           Others(ss, ss2, s), ss2[s].activeJob = NoJob
    PROVE  /\ ss2[s].autoJob = ss[s].autoJob
                => Firm(ss, x, l)[j] = Firm(ss2, x, l)[j] + (IF ss[s].activeJob = j THEN 1 ELSE 0)
           /\ ss[s].activeJob = NoJob /\ ss2[s].autoJob = NoJob
                => Firm(ss, x, l)[j] = Firm(ss2, x, l)[j] + (IF ss[s].autoJob = j THEN 1 ELSE 0)
<1> DEFINE f == Firm(ss, x, l)[j]
           f2 == Firm(ss2, x, l)[j]
<1>1. f2 + Mine(ss, s, j) = f + Mine(ss2, s, j)
  BY FirmSession DEF Others
<1>2. f \in Nat /\ f2 \in Nat
  BY FirmType
<1> HIDE DEF f, f2
<1>3. /\ ss2[s].autoJob = ss[s].autoJob => f = f2 + (IF ss[s].activeJob = j THEN 1 ELSE 0)
      /\ ss[s].activeJob = NoJob /\ ss2[s].autoJob = NoJob
            => f = f2 + (IF ss[s].autoJob = j THEN 1 ELSE 0)
  BY <1>1, <1>2 DEF Mine
<1> QED BY <1>3 DEF f, f2

\* A session goes: what it leaves is in the books.
LEMMA ReleaseTally ==
    ASSUME OInv, Books, NEW s \in Sessions, joining[s] = NoJob,
           joining \in [Sessions -> Jobs \cup {NoJob}],
           NEW ss, ss[s].activeJob = NoJob, ss[s].autoJob = NoJob,
           \A o \in Sessions \ {s} :
                ss[o].activeJob = ses[o].activeJob /\ ss[o].autoJob = ses[o].autoJob
    PROVE  LET r  == Release(s)
               jn == [joining EXCEPT ![s] = r.join]
           IN  Tally(r.jobs, Firm(ss, at, pc), Loose(jn, r.subs), Waits(at), stopping)
<1> DEFINE auto == ses[s].autoJob
           act == ses[s].activeJob
           n1 == [j \in Jobs |-> IF act = j THEN 1 ELSE 0]
           js1 == Drop(jobs, n1)
           fin == AutoIsFinal(js1, s)
           n2 == [j \in Jobs |-> IF auto = j THEN 1 ELSE 0]
           js2 == IF fin THEN [js1 EXCEPT ![auto].cancel = TRUE] ELSE Drop(js1, n2)
           r == Release(s)
           jn == [joining EXCEPT ![s] = r.join]
           ss1 == [ses EXCEPT ![s] = [activeJob |-> NoJob, autoJob |-> auto]]
           f == Firm(ses, at, pc)
           f1 == Firm(ss1, at, pc)
           f2 == Firm(ss, at, pc)
           l == Loose(joining, watchSubs)
           l2 == Loose(jn, watchSubs)
           w == Waits(at)
<1>1. /\ ses \in [Sessions -> Session] /\ ses[s] \in Session
      /\ watchSubs \subseteq Sessions \X Jobs /\ \A x \in watchSubs : ses[x[1]].watch
      /\ NoJob \notin Jobs
  BY NamesAssumption DEF OInv, Owners
<1>2. auto \in Jobs \cup {NoJob} /\ act \in Jobs \cup {NoJob}
  BY <1>1 DEF Session
<1>3. /\ r.jobs = IF ses[s].watch THEN Drop(js2, Pairs({s})) ELSE js2
      /\ r.subs = IF ses[s].watch THEN {x \in watchSubs : x[1] # s} ELSE watchSubs
      /\ r.join = IF fin THEN auto ELSE NoJob
  BY DEF Release
<1>4. jn[s] = r.join /\ \A o \in Sessions \ {s} : jn[o] = joining[o]
  OBVIOUS
<1>5. ASSUME NEW j \in Jobs
      PROVE  /\ f[j] \in Nat /\ f1[j] \in Nat /\ f2[j] \in Nat /\ l[j] \in Nat /\ l2[j] \in Nat
             /\ f[j] = f1[j] + (IF act = j THEN 1 ELSE 0)
             /\ f1[j] = f2[j] + (IF auto = j THEN 1 ELSE 0)
             /\ l2[j] = l[j] + (IF r.join = j THEN 1 ELSE 0)
  <2>1. f[j] \in Nat /\ f1[j] \in Nat /\ f2[j] \in Nat /\ l[j] \in Nat /\ l2[j] \in Nat
    BY <1>1, FirmType, LooseType
  <2>2. /\ ss1[s].activeJob = NoJob /\ ss1[s].autoJob = auto
        /\ Others(ses, ss1, s) /\ Others(ss1, ss, s)
    BY <1>1 DEF Others
  <2> HIDE DEF f, f1, f2, l, l2, r, jn, ss1
  <2>5. l2[j] + One(joining[s] = j) = l[j] + One(jn[s] = j)
    BY <1>1, <1>4, LooseJoin DEF l, l2
  <2>6. f[j] = f1[j] + (IF act = j THEN 1 ELSE 0)
    BY <1>1, <2>2, FirmShed DEF f, f1
  <2>7. f1[j] = f2[j] + (IF auto = j THEN 1 ELSE 0)
    BY <1>1, <2>2, FirmShed DEF f1, f2
  <2>8. l2[j] = l[j] + (IF r.join = j THEN 1 ELSE 0)
    BY <1>1, <1>4, <2>1, <2>5 DEF One
  <2> QED BY <2>1, <2>6, <2>7, <2>8
<1> HIDE DEF f, f1, f2, l, l2, w, r, jn, ss1
<1>6. Tally(jobs, f, l, w, stopping)
  BY DEF Books, f, l, w
<1>7. Tally(js1, f1, l, w, stopping)
  <2>1. ASSUME NEW j \in Jobs
        PROVE  /\ f1[j] \in Nat /\ l[j] \in Nat /\ n1[j] \in Nat
               /\ f1[j] <= f[j] /\ f[j] + l[j] = f1[j] + l[j] + n1[j]
    BY <1>5
  <2> HIDE DEF n1
  <2> QED BY <1>6, <2>1, TallyDrop
<1>8. Tally(js2, f2, l2, w, stopping)
  <2>1. CASE fin
    <3>1. /\ auto \in Jobs /\ js1[auto].subs = 1 /\ r.join = auto
          /\ js2 = [js1 EXCEPT ![auto].cancel = TRUE]
      BY <1>2, <1>3, <2>1 DEF AutoIsFinal
    <3> HIDE DEF js1, js2, fin, auto
    <3>2. /\ Elsewhere(f1, f2, auto) /\ Elsewhere(l, l2, auto)
          /\ f2[auto] \in Nat /\ l2[auto] \in Nat
          /\ f1[auto] = f2[auto] + 1 /\ l2[auto] = l[auto] + 1
      BY <1>5, <3>1 DEF Elsewhere
    <3>3. Tally([js1 EXCEPT ![auto].cancel = TRUE], f2, l2, w, stopping)
      BY <1>7, <3>1, <3>2, TallyFinal
    <3> QED BY <3>1, <3>3
  <2>2. CASE ~fin
    <3>1. js2 = Drop(js1, n2) /\ r.join = NoJob
      BY <1>3, <2>2
    <3>2. ASSUME NEW j \in Jobs
          PROVE  /\ f2[j] \in Nat /\ l2[j] \in Nat /\ n2[j] \in Nat
                 /\ f2[j] <= f1[j] /\ f1[j] + l[j] = f2[j] + l2[j] + n2[j]
      BY <1>1, <1>5, <3>1
    <3> HIDE DEF n2, js1, js2
    <3> QED BY <1>7, <3>1, <3>2, TallyDrop
  <2> QED BY <2>1, <2>2
<1> HIDE DEF js2, js1
<1>9. CASE ses[s].watch
  <2> DEFINE less == {y \in watchSubs : y[1] \notin {s}}
             l3 == Loose(jn, less)
             n3 == Pairs({s})
  <2>1. r.subs = less /\ r.jobs = Drop(js2, Pairs({s}))
    BY <1>3, <1>9
  <2>2. ASSUME NEW j \in Jobs
        PROVE  /\ f2[j] \in Nat /\ l3[j] \in Nat /\ n3[j] \in Nat
               /\ f2[j] <= f2[j] /\ f2[j] + l2[j] = f2[j] + l3[j] + n3[j]
    <3>1. {s} \in SUBSET Sessions
      OBVIOUS
    <3>2. /\ Pairs({s})[j] \in Nat /\ l3[j] \in Nat
          /\ Loose(jn, watchSubs)[j] = l3[j] + Pairs({s})[j]
      BY <1>1, <3>1, LooseLeft
    <3> HIDE DEF l3, less
    <3> QED BY <1>5, <3>2 DEF l2, n3
  <2> HIDE DEF l3, less, n3
  <2>3. Tally(Drop(js2, n3), f2, l3, w, stopping)
    BY <1>8, <2>2, TallyDrop
  <2> QED BY <2>1, <2>3 DEF l3, f2, w, r, jn, n3
<1>10. CASE ~ses[s].watch
  <2>1. r.subs = watchSubs /\ r.jobs = js2
    BY <1>3, <1>10
  <2> QED BY <1>8, <2>1 DEF l2, f2, w, r, jn
<1> QED BY <1>9, <1>10

LEMMA PartBooks ==
    ASSUME IInv, OInv, Places, Books, stopping \in BOOLEAN,
           NEW s \in Sessions, CancelSession(s) \/ CloseSession(s)
    PROVE  Books'
<1>1. PICK e : /\ ses' = [ses EXCEPT ![s] = e] /\ e.activeJob = NoJob /\ e.autoJob = NoJob
  BY PartEffect
<1>2. ses'[s] = e /\ \A o \in Sessions \ {s} : ses'[o] = ses[o]
  BY <1>1 DEF OInv, Owners
<1>3. joining[s] = NoJob /\ joining \in [Sessions -> Jobs \cup {NoJob}]
  <2>1. SessionPlace(s)
    BY DEF Places
  <2> QED BY <2>1 DEF Places, CancelSession, CloseSession, SessionPlace, Gone
<1> DEFINE r == Release(s)
           jn == [joining EXCEPT ![s] = r.join]
<1>4. Tally(r.jobs, Firm(ses', at, pc), Loose(jn, r.subs), Waits(at), stopping)
  BY <1>1, <1>2, <1>3, ReleaseTally
<1>5. /\ joining' = jn /\ watchSubs' = r.subs /\ UNCHANGED <<at, pc>>
      /\ \/ jobs' = Reap(r.jobs) /\ UNCHANGED stopping
         \/ jobs' = Reap(CancelAll(r.jobs)) /\ stopping' = TRUE
  BY DEF CancelSession, CloseSession
<1> HIDE DEF r, jn
<1>6. CASE jobs' = Reap(r.jobs) /\ UNCHANGED stopping
  BY <1>4, <1>5, <1>6, TallyReap DEF Books
<1>7. CASE jobs' = Reap(CancelAll(r.jobs)) /\ stopping' = TRUE
  <2>1. Tally(CancelAll(r.jobs), Firm(ses', at, pc), Loose(jn, r.subs), Waits(at), TRUE)
    BY <1>4, TallyCancelAll
  <2> QED BY <1>5, <1>7, <2>1, TallyReap DEF Books
<1> QED BY <1>5, <1>6, <1>7

LEMMA JoinBooks ==
    ASSUME OInv, Places, Books, NEW s \in Sessions, Join(s)
    PROVE  Books'
<1> DEFINE n == Times(joining[s], 1)
           f == Firm(ses, at, pc)
           l == Loose(joining, watchSubs)
           l2 == Loose(joining', watchSubs)
<1>1. /\ jobs' = Reap(Drop(jobs, n)) /\ joining' = [joining EXCEPT ![s] = NoJob]
      /\ UNCHANGED <<ses, watchSubs, at, pc, stopping>>
  BY DEF Join
<1>2. joining'[s] = NoJob /\ \A o \in Sessions \ {s} : joining'[o] = joining[o]
  BY <1>1 DEF Places
<1>3. watchSubs \subseteq Sessions \X Jobs /\ NoJob \notin Jobs
  BY NamesAssumption DEF OInv, Owners
<1>4. ASSUME NEW j \in Jobs
      PROVE  /\ f[j] \in Nat /\ l2[j] \in Nat /\ n[j] \in Nat
             /\ f[j] <= f[j] /\ f[j] + l[j] = f[j] + l2[j] + n[j]
  <2>1. f[j] \in Nat /\ l[j] \in Nat /\ l2[j] \in Nat
    BY <1>3, FirmType, LooseType
  <2>2. l2[j] + One(joining[s] = j) = l[j] + One(joining'[s] = j)
    BY <1>2, <1>3, LooseJoin
  <2>3. n[j] = One(joining[s] = j) /\ One(joining'[s] = j) = 0
    BY <1>2, <1>3 DEF Times, One
  <2>4. One(joining[s] = j) \in Nat
    BY DEF One
  <2> HIDE DEF n, l, l2, f
  <2> QED BY <2>1, <2>2, <2>3, <2>4
<1> HIDE DEF n, f, l, l2
<1>5. Tally(jobs, f, l, Waits(at), stopping)
  BY DEF Books, f, l
<1>6. Tally(Drop(jobs, n), f, l2, Waits(at), stopping)
  BY <1>4, <1>5, TallyDrop
<1> QED BY <1>1, <1>6, TallyReap DEF Books, f, l2

\* A job's thread goes on with a record that is as alive as before.
SameEntry(r, q) ==
    /\ q \in Job /\ q.subs = r.subs /\ q.waiters = r.waiters /\ q.cancel = r.cancel
    /\ r.phase # "free" /\ q.phase # "free" /\ (Alive(q) => Alive(r))

LEMMA MoveTally ==
    ASSUME NEW js, NEW f, NEW l, NEW w, NEW st, Tally(js, f, l, w, st),
           NEW j \in Jobs, NEW q, SameEntry(js[j], q)
    PROVE  Tally([js EXCEPT ![j] = q], f, l, w, st)
<1>1. Entry(js[j], f[j], l[j], w[j], st) /\ f[j] \in Nat /\ l[j] \in Nat /\ w[j] \in Nat
  BY DEF Tally
<1>2. Entry(q, f[j], l[j], w[j], st)
  BY <1>1 DEF Entry, SameEntry
<1>3. \A i \in Jobs \ {j} : f[i] = f[i] /\ l[i] = l[i] /\ w[i] = w[i]
  OBVIOUS
<1> QED BY <1>1, <1>2, <1>3, TallyOne

LEMMA BooksMove ==
    ASSUME Books, NEW j \in Jobs, NEW q, jobs' = [jobs EXCEPT ![j] = q], SameEntry(jobs[j], q),
           UNCHANGED <<ses, watchSubs, joining, at, pc, stopping>>
    PROVE  Books'
BY MoveTally DEF Books

\* The fields that a job's thread changes.
Altered(r, ph, k, v, rd, i) ==
    [r EXCEPT !.phase = ph, !.killed = k, !.verdict = v, !.round = rd, !.isolated = i]

Turn(j, ph, k, v, rd, i) ==
    /\ ph \in Phases \ {"free"} /\ k \in BOOLEAN /\ v \in Verdicts
    /\ rd \in 0..MaxRestarts + 1 /\ i \in BOOLEAN /\ Alive(jobs[j])
    /\ jobs' = [jobs EXCEPT ![j] = Altered(jobs[j], ph, k, v, rd, i)]

LEMMA JobBooks ==
    ASSUME OInv, Books, NEW j \in Jobs, JobStep(j), ~Publish(j)
    PROVE  Books'
<1>1. UNCHANGED <<ses, watchSubs, joining, at, pc, stopping>>
  BY DEF JobStep, JobThread, Gate, Attempt, Launch, Kill, Settle, WorkerEnds, JobFrame
<1>2. jobs[j] \in Job /\ jobs = [i \in Jobs |-> jobs[i]]
  BY DEF Books, Tally, Entry
<1>3. MaxRestarts \in Nat
  BY LimitAssumption
<1>4. ASSUME NEW ph, NEW k, NEW v, NEW rd, NEW i, Turn(j, ph, k, v, rd, i)
      PROVE  Books'
  <2> DEFINE q == Altered(jobs[j], ph, k, v, rd, i)
  <2>1. SameEntry(jobs[j], q)
    BY <1>2, <1>4 DEF SameEntry, Job, Alive, Altered, Turn
  <2> HIDE DEF q
  <2> QED BY <1>1, <1>4, <2>1, BooksMove DEF q, Turn
<1> DEFINE r == jobs[j]
<1>5. ASSUME NEW ph \in Phases, jobs' = [jobs EXCEPT ![j].phase = ph], Alive(r), ph # "free"
      PROVE  Books'
  <2>1. jobs' = [jobs EXCEPT ![j] = Altered(r, ph, r.killed, r.verdict, r.round, r.isolated)]
    <3>1. [r EXCEPT !.phase = ph] = Altered(r, ph, r.killed, r.verdict, r.round, r.isolated)
      BY <1>2 DEF Job, Altered
    <3>2. jobs' = [jobs EXCEPT ![j] = [r EXCEPT !.phase = ph]]
      BY <1>2, <1>5
    <3> QED BY <3>1, <3>2
  <2>2. r.killed \in BOOLEAN /\ r.verdict \in Verdicts /\ r.round \in 0..MaxRestarts + 1
        /\ r.isolated \in BOOLEAN
    BY <1>2 DEF Job
  <2> DEFINE k == r.killed
             v == r.verdict
             rd == r.round
             i == r.isolated
  <2>3. jobs' = [jobs EXCEPT ![j] = Altered(jobs[j], ph, k, v, rd, i)]
    BY <2>1
  <2>4. k \in BOOLEAN /\ v \in Verdicts /\ rd \in 0..MaxRestarts + 1 /\ i \in BOOLEAN
    BY <2>2
  <2> HIDE DEF k, v, rd, i
  <2>5. Turn(j, ph, k, v, rd, i)
    BY <1>5, <2>3, <2>4 DEF Turn
  <2> QED BY <1>4, <2>5
<1>6. ASSUME NEW v \in Verdicts, Verdict(j, v), Alive(r) PROVE Books'
  <2>1. jobs' = [jobs EXCEPT ![j] = Altered(r, "publish", r.killed, v, r.round, r.isolated)]
    <3>1. [r EXCEPT !.phase = "publish", !.verdict = v]
            = Altered(r, "publish", r.killed, v, r.round, r.isolated)
      BY <1>2 DEF Job, Altered
    <3>2. jobs' = [jobs EXCEPT ![j] = [r EXCEPT !.phase = "publish", !.verdict = v]]
      BY <1>2, <1>6 DEF Verdict
    <3> QED BY <3>1, <3>2
  <2>2. r.killed \in BOOLEAN /\ r.round \in 0..MaxRestarts + 1
        /\ r.isolated \in BOOLEAN /\ "publish" \in Phases
    BY <1>2 DEF Job, Phases
  <2>3. Turn(j, "publish", r.killed, v, r.round, r.isolated)
    BY <1>6, <2>1, <2>2 DEF Turn
  <2> HIDE DEF r
  <2> QED BY <1>4, <2>3
<1>7. ASSUME NEW rd \in 0..MaxRestarts + 1, NEW i \in BOOLEAN, Alive(r),
             jobs' = [jobs EXCEPT ![j].phase = "attempt", ![j].round = rd, ![j].isolated = i]
      PROVE  Books'
  <2>1. jobs' = [jobs EXCEPT ![j] = Altered(r, "attempt", r.killed, r.verdict, rd, i)]
    <3>1. [r EXCEPT !.phase = "attempt", !.round = rd, !.isolated = i]
            = Altered(r, "attempt", r.killed, r.verdict, rd, i)
      BY <1>2 DEF Job, Altered
    <3>2. jobs' = [jobs EXCEPT ![j] = [r EXCEPT !.phase = "attempt", !.round = rd, !.isolated = i]]
      BY <1>2, <1>7
    <3> QED BY <3>1, <3>2
  <2>2. r.killed \in BOOLEAN /\ r.verdict \in Verdicts /\ "attempt" \in Phases
    BY <1>2 DEF Job, Phases
  <2> DEFINE k == r.killed
             v == r.verdict
  <2>3. jobs' = [jobs EXCEPT ![j] = Altered(jobs[j], "attempt", k, v, rd, i)]
    BY <2>1
  <2>4. k \in BOOLEAN /\ v \in Verdicts /\ "attempt" \in Phases
    BY <2>2
  <2> HIDE DEF k, v
  <2>5. Turn(j, "attempt", k, v, rd, i)
    BY <1>7, <2>3, <2>4 DEF Turn
  <2> QED BY <1>4, <2>5
<1>8. {"none", "success", "crash", "failure", "unsafe", "cancelled"} = Verdicts
      /\ {"attempt", "launch", "running", "ended", "publish"} \subseteq Phases
  BY DEF Verdicts, Phases
<1>9. r.round \in 0..MaxRestarts + 1 /\ MaxRestarts + 1 \in 0..MaxRestarts + 1
      /\ (r.round < MaxRestarts => r.round + 1 \in 0..MaxRestarts + 1)
      /\ r.isolated \in BOOLEAN /\ r.verdict \in Verdicts /\ r.killed \in BOOLEAN
  BY <1>2, <1>3 DEF Job
<1>10. ASSUME NEW v \in Verdicts, Concluded(j, v), Alive(r) PROVE Books'
  <2>1. CASE Verdict(j, v)
    BY <1>6, <1>10, <2>1
  <2>2. CASE jobs' = [jobs EXCEPT ![j].phase = "attempt", ![j].round = MaxRestarts + 1]
    <3>1. jobs' = [jobs EXCEPT ![j].phase = "attempt", ![j].round = MaxRestarts + 1,
                               ![j].isolated = r.isolated]
      BY <1>2, <2>2 DEF Job
    <3> HIDE DEF r
    <3> QED BY <1>7, <1>9, <1>10, <3>1
  <2> QED BY <1>10, <2>1, <2>2 DEF Concluded
<1>11. CASE Gate(j)
  <2>1. \/ Verdict(j, "cancelled") \/ jobs' = [jobs EXCEPT ![j].phase = "attempt"]
    BY <1>11 DEF Gate, Step
  <2>2. Alive(r)
    BY <1>11 DEF Gate, Alive
  <2> HIDE DEF r
  <2> QED BY <1>5, <1>6, <1>8, <2>1, <2>2
<1>12. CASE Attempt(j)
  <2>1. \/ Verdict(j, "cancelled") \/ jobs' = [jobs EXCEPT ![j].phase = "launch"]
    BY <1>12 DEF Attempt, Step
  <2>2. Alive(r)
    BY <1>12 DEF Attempt, Alive
  <2> HIDE DEF r
  <2> QED BY <1>5, <1>6, <1>8, <2>1, <2>2
<1>13. CASE Launch(j)
  <2>1. Alive(r)
    BY <1>13 DEF Launch, Alive
  <2>2. CASE jobs' = [jobs EXCEPT ![j].phase = "running", ![j].killed = Stopped(j)]
    <3> DEFINE k == Stopped(j)
    <3>1. k \in BOOLEAN
      BY <1>2 DEF Stopped, Job
    <3>2. jobs' = [jobs EXCEPT ![j] = Altered(r, "running", k, r.verdict, r.round, r.isolated)]
      <4> HIDE DEF k
      <4>1. jobs' = [jobs EXCEPT ![j] = [r EXCEPT !.phase = "running", !.killed = k]]
        BY <1>2, <2>2 DEF k
      <4>2. [r EXCEPT !.phase = "running", !.killed = k]
              = Altered(r, "running", k, r.verdict, r.round, r.isolated)
        BY <1>2 DEF Job, Altered
      <4> QED BY <4>1, <4>2
    <3>3. Turn(j, "running", k, r.verdict, r.round, r.isolated)
      <4> HIDE DEF k
      <4> QED BY <1>8, <1>9, <2>1, <3>1, <3>2 DEF Turn
    <3> HIDE DEF k, r
    <3> QED BY <1>4, <3>3
  <2>3. CASE Verdict(j, "cancelled") \/ Concluded(j, "failure")
    <3> HIDE DEF r
    <3> QED BY <1>6, <1>8, <1>10, <2>1, <2>3
  <2> QED BY <1>13, <2>2, <2>3 DEF Launch
<1>14. CASE Kill(j)
  <2>1. jobs' = [jobs EXCEPT ![j] = Altered(r, r.phase, TRUE, r.verdict, r.round, r.isolated)]
    <3>1. jobs' = [jobs EXCEPT ![j] = [r EXCEPT !.killed = TRUE]]
      BY <1>2, <1>14 DEF Kill
    <3>2. [r EXCEPT !.killed = TRUE] = Altered(r, r.phase, TRUE, r.verdict, r.round, r.isolated)
      BY <1>2 DEF Job, Altered
    <3> QED BY <3>1, <3>2
  <2>2. Alive(r) /\ r.phase # "free" /\ r.phase \in Phases
    BY <1>2, <1>14 DEF Kill, Alive, Job
  <2>3. Turn(j, r.phase, TRUE, r.verdict, r.round, r.isolated)
    BY <1>9, <2>1, <2>2 DEF Turn
  <2> HIDE DEF r
  <2> QED BY <1>4, <2>3
<1>15. CASE WorkerEnds(j)
  <2>1. PICK v \in {"success", "failure", "crash", "unsafe"} :
            jobs' = [jobs EXCEPT ![j].phase = "ended", ![j].killed = FALSE,
                                 ![j].verdict = IF Stopped(j) THEN "cancelled" ELSE v]
    BY <1>15 DEF WorkerEnds
  <2> DEFINE u == IF Stopped(j) THEN "cancelled" ELSE v
  <2>2. u \in Verdicts
    BY <1>8
  <2>3. jobs' = [jobs EXCEPT ![j] = Altered(r, "ended", FALSE, u, r.round, r.isolated)]
    <3> HIDE DEF u
    <3>1. jobs' = [jobs EXCEPT ![j] = [r EXCEPT !.phase = "ended", !.killed = FALSE, !.verdict = u]]
      BY <1>2, <2>1 DEF u
    <3>2. [r EXCEPT !.phase = "ended", !.killed = FALSE, !.verdict = u]
            = Altered(r, "ended", FALSE, u, r.round, r.isolated)
      BY <1>2 DEF Job, Altered
    <3> QED BY <3>1, <3>2
  <2>4. Alive(r)
    BY <1>15 DEF WorkerEnds, Alive
  <2>5. Turn(j, "ended", FALSE, u, r.round, r.isolated)
    <3> HIDE DEF u
    <3> QED BY <1>8, <1>9, <2>2, <2>3, <2>4 DEF Turn
  <2> HIDE DEF u, r
  <2> QED BY <1>4, <2>5
<1>16. CASE Settle(j)
  <2>1. Alive(r)
    BY <1>16 DEF Settle, Alive
  <2>2. \/ Verdict(j, "cancelled") \/ Verdict(j, "success") \/ Verdict(j, "failure")
        \/ Concluded(j, "failure")
        \/ /\ r.round < MaxRestarts
           /\ jobs' = [jobs EXCEPT ![j].phase = "attempt", ![j].round = r.round + 1,
                                   ![j].isolated = r.isolated \/ r.round > 1]
        \/ jobs' = [jobs EXCEPT ![j].phase = "attempt", ![j].round = MaxRestarts + 1,
                                ![j].isolated = TRUE]
    <3>1. \/ Verdict(j, "cancelled") \/ Verdict(j, "success") \/ Verdict(j, "failure")
          \/ Concluded(j, "failure")
          \/ /\ r.round < MaxRestarts
             /\ jobs' = [jobs EXCEPT ![j].phase = "attempt", ![j].round = @ + 1,
                                   ![j].isolated = @ \/ jobs[j].round > 1]
          \/ jobs' = [jobs EXCEPT ![j].phase = "attempt", ![j].isolated = TRUE,
                                  ![j].round = MaxRestarts + 1]
      BY <1>16 DEF Settle, RoundsLeft
    <3> QED BY <1>2, <3>1
  <2>3. CASE \/ Verdict(j, "cancelled") \/ Verdict(j, "success") \/ Verdict(j, "failure")
             \/ Concluded(j, "failure")
    <3> HIDE DEF r
    <3> QED BY <1>6, <1>8, <1>10, <2>1, <2>3
  <2>4. CASE /\ r.round < MaxRestarts
             /\ jobs' = [jobs EXCEPT ![j].phase = "attempt", ![j].round = r.round + 1,
                                     ![j].isolated = r.isolated \/ r.round > 1]
    <3> DEFINE rd == r.round + 1
               i == r.isolated \/ r.round > 1
    <3>1. rd \in 0..MaxRestarts + 1 /\ i \in BOOLEAN
      BY <1>9, <2>4
    <3> HIDE DEF r, rd, i
    <3> QED BY <1>7, <2>1, <2>4, <3>1 DEF rd, i
  <2>5. CASE jobs' = [jobs EXCEPT ![j].phase = "attempt", ![j].round = MaxRestarts + 1,
                                  ![j].isolated = TRUE]
    <3> DEFINE rd == MaxRestarts + 1
               i == TRUE
    <3>1. rd \in 0..MaxRestarts + 1 /\ i \in BOOLEAN
      BY <1>9
    <3> HIDE DEF r, rd, i
    <3> QED BY <1>7, <2>1, <2>5, <3>1 DEF rd, i
  <2> QED BY <2>2, <2>3, <2>4, <2>5
<1> QED BY <1>11, <1>12, <1>13, <1>14, <1>15, <1>16 DEF JobStep, JobThread

\* Sessions keep their requests, and some lose an auto-index job.
SameRequests(ss, ss2) == \A o \in Sessions : ss2[o].activeJob = ss[o].activeJob

LEMMA FirmAutos ==
    ASSUME NEW ss, NEW ss2, SameRequests(ss, ss2), NEW x, NEW l, NEW j \in Jobs
    PROVE  /\ Firm(ss, x, l)[j] \in Nat /\ Firm(ss2, x, l)[j] \in Nat
           /\ Cardinality(Autos(ss, j)) \in Nat /\ Cardinality(Autos(ss2, j)) \in Nat
           /\ Firm(ss2, x, l)[j] + Cardinality(Autos(ss, j))
                = Firm(ss, x, l)[j] + Cardinality(Autos(ss2, j))
<1> DEFINE n == Cardinality(Requesters(ss, j))
           k == Cardinality(Threads(x, l, j))
           a == Cardinality(Autos(ss, j))
           a2 == Cardinality(Autos(ss2, j))
<1>1. Requesters(ss2, j) = Requesters(ss, j)
  BY DEF Requesters, SameRequests
<1>2. Firm(ss, x, l)[j] = n + a + k /\ Firm(ss2, x, l)[j] = n + a2 + k
  BY <1>1 DEF Firm
<1>3. n \in Nat /\ k \in Nat /\ a \in Nat /\ a2 \in Nat
  BY FirmType
<1> HIDE DEF n, k, a, a2
<1> QED BY <1>2, <1>3 DEF a, a2

LEMMA FirmLinks ==
    ASSUME NEW ss, NEW ss2, Links(ss, ss2), NEW x, NEW l
    PROVE  \A j \in Jobs : Firm(ss2, x, l)[j] = Firm(ss, x, l)[j]
<1> SUFFICES ASSUME NEW j \in Jobs PROVE Firm(ss2, x, l)[j] = Firm(ss, x, l)[j]
  OBVIOUS
<1>1. Requesters(ss2, j) = Requesters(ss, j) /\ Autos(ss2, j) = Autos(ss, j)
  BY DEF Requesters, Autos, Links
<1> QED BY <1>1 DEF Firm

LEMMA PublishBooks ==
    ASSUME IInv, OInv, Places, Books, NEW j \in Jobs, Publish(j)
    PROVE  Books'
<1> DEFINE S == {s \in Sessions : ses[s].autoJob = j}
           n == Times(j, Cardinality(S))
           js0 == [jobs EXCEPT ![j].phase = "terminal"]
           js == Drop(js0, n)
           f == Firm(ses, at, pc)
           l == Loose(joining, watchSubs)
           w == Waits(at)
<1>1. /\ jobs[j].phase = "publish"
      /\ \E ss : /\ ss \in [Sessions -> Session] /\ Disowned(S, ss)
                 /\ \/ Refresh(S, jobs[j].project, js, ss)
                    \/ jobs' = js /\ ses' = ss /\ UNCHANGED watchSubs
  BY PublishEffect
<1>2. PICK ss : /\ ss \in [Sessions -> Session] /\ Disowned(S, ss)
                /\ \/ Refresh(S, jobs[j].project, js, ss)
                   \/ jobs' = js /\ ses' = ss /\ UNCHANGED watchSubs
  BY <1>1
<1> DEFINE f2 == Firm(ss, at, pc)
<1>3. UNCHANGED <<joining, at, pc, stopping>>
  BY DEF Publish
<1>4. /\ Tally(jobs, f, l, w, stopping) /\ jobs[j] \in Job /\ S \in SUBSET Sessions
      /\ watchSubs \subseteq Sessions \X Jobs /\ jobs = [i \in Jobs |-> jobs[i]]
  BY DEF Books, OInv, Owners, Tally, Entry
<1>5. Tally(js0, f, l, w, stopping)
  <2> DEFINE q == [jobs[j] EXCEPT !.phase = "terminal"]
  <2>1. SameEntry(jobs[j], q)
    BY <1>1, <1>4 DEF SameEntry, Job, Alive, Phases
  <2>2. js0 = [jobs EXCEPT ![j] = q]
    BY <1>4
  <2> HIDE DEF f, l, w, q, js0
  <2> QED BY <1>4, <2>1, <2>2, MoveTally
<1>6. ASSUME NEW i \in Jobs
      PROVE  /\ f2[i] \in Nat /\ l[i] \in Nat /\ n[i] \in Nat
             /\ f2[i] <= f[i] /\ f[i] + l[i] = f2[i] + l[i] + n[i]
  <2>1. SameRequests(ses, ss)
    BY <1>2 DEF Disowned, SameRequests
  <2>2. /\ f[i] \in Nat /\ f2[i] \in Nat
        /\ Cardinality(Autos(ses, i)) \in Nat /\ Cardinality(Autos(ss, i)) \in Nat
        /\ f2[i] + Cardinality(Autos(ses, i)) = f[i] + Cardinality(Autos(ss, i))
    BY <2>1, FirmAutos
  <2>3. l[i] \in Nat
    BY <1>4, LooseType
  <2>4. S = Autos(ses, j)
    BY DEF Autos
  <2> HIDE DEF f, f2, l, S
  <2>5. CASE i = j
    <3>1. Autos(ss, j) = {}
      BY <1>2, NamesAssumption DEF Disowned, Autos, S
    <3>2. n[i] = Cardinality(Autos(ses, i)) /\ Cardinality(Autos(ss, i)) = 0
      BY <2>4, <2>5, <3>1, FS_EmptySet DEF Times
    <3> HIDE DEF n
    <3> QED BY <2>2, <2>3, <3>2
  <2>6. CASE i # j
    <3>1. Autos(ss, i) = Autos(ses, i)
      BY <1>2, <2>6, NamesAssumption DEF Disowned, Autos, S
    <3>2. n[i] = 0
      BY <2>6 DEF Times
    <3> HIDE DEF n
    <3> QED BY <2>2, <2>3, <3>1, <3>2
  <2> QED BY <2>5, <2>6
<1>7. Tally(js, f2, l, w, stopping)
  <2> HIDE DEF f, f2, l, w, js0, n
  <2> QED BY <1>5, <1>6, TallyDrop
<1>8. CASE jobs' = js /\ ses' = ss /\ UNCHANGED watchSubs
  BY <1>3, <1>7, <1>8 DEF Books
<1>9. CASE Refresh(S, jobs[j].project, js, ss)
  <2> DEFINE p == jobs[j].project
  <2>1. Tally(Refreshed(S, p, js, ss).jobs, f2, Loose(joining, Refreshed(S, p, js, ss).subs), w,
              stopping)
    <3> HIDE DEF js, f2, w, S, p
    <3> QED BY <1>4, <1>7, TallyRefresh DEF l
  <2>2. /\ jobs' = Refreshed(S, p, js, ss).jobs /\ ses' = Refreshed(S, p, js, ss).ses
        /\ watchSubs' = Refreshed(S, p, js, ss).subs
    BY <1>9 DEF Refresh
  <2> HIDE DEF js, S, p
  <2>3. Links(ss, ses')
    BY <1>2, <2>2, RefreshLinks
  <2>4. \A i \in Jobs : Firm(ses', at, pc)[i] = f2[i]
    BY <2>3, FirmLinks
  <2> HIDE DEF f2, w
  <2>5. Tally(jobs', f2, Loose(joining, watchSubs'), w, stopping)
    BY <2>1, <2>2
  <2> QED BY <1>3, <2>4, <2>5, TallySame DEF Books, w
<1> QED BY <1>2, <1>8, <1>9

LEMMA RetryBooks ==
    ASSUME IInv, OInv, Places, Modest, Books, NEW s \in Sessions, Retry(s)
    PROVE  Books'
<1>1. UNCHANGED <<joining, at, pc, stopping>>
  BY DEF Retry
<1>2. /\ Tally(jobs, Firm(ses, at, pc), Loose(joining, watchSubs), Waits(at), stopping)
      /\ watchSubs \subseteq Sessions \X Jobs /\ ses \in [Sessions -> Session]
  BY DEF Books, OInv, Owners
<1>3. CASE Home[s] \in db
  <2>1. PICK ss : /\ Refresh({s}, Home[s], jobs, ss) /\ ss \in [Sessions -> Session]
                  /\ Dequeued(s, ss)
    BY <1>3, RetryEffect
  <2>2. Tally(jobs', Firm(ses, at, pc), Loose(joining, watchSubs'), Waits(at), stopping)
    <3>1. {s} \in SUBSET Sessions
      OBVIOUS
    <3> QED BY <1>2, <2>1, <3>1, TallyRefresh DEF Refresh
  <2>3. Links(ss, ses')
    BY <2>1, RefreshLinks DEF Refresh
  <2>4. \A i \in Jobs : Firm(ses', at, pc)[i] = Firm(ses, at, pc)[i]
    <3> SUFFICES ASSUME NEW i \in Jobs PROVE Firm(ses', at, pc)[i] = Firm(ses, at, pc)[i]
      OBVIOUS
    <3>1. Requesters(ses', i) = Requesters(ses, i) /\ Autos(ses', i) = Autos(ses, i)
      BY <2>1, <2>3 DEF Requesters, Autos, Links, Dequeued
    <3> QED BY <3>1 DEF Firm
  <2> QED BY <1>1, <2>2, <2>4, TallySame DEF Books
<1>4. CASE Home[s] \notin db
  <2>1. PICK x \in Subscribe(jobs, Home[s], Default) :
                    /\ jobs' = x.jobs
                    /\ \/ x.job = NoJob /\ UNCHANGED ses
                       \/ /\ x.job # NoJob
                          /\ \E r : /\ ses' = [ses EXCEPT ![s] = r]
                                    /\ r.activeJob = ses[s].activeJob /\ r.autoJob = x.job
    BY <1>4, RetryEffect
  <2>2. UNCHANGED watchSubs /\ Home[s] \in Projects /\ Default \in Options /\ NoJob \notin Jobs
    BY <1>4, RetryEffect, NamesAssumption
  <2>3. CASE x.job = NoJob
    <3>1. Tally(jobs', Firm(ses, at, pc), Loose(joining, watchSubs), Waits(at), stopping)
      BY <1>2, <2>1, <2>2, <2>3, TallySubscribe
    <3> QED BY <1>1, <2>1, <2>2, <2>3, <3>1 DEF Books
  <2>4. CASE x.job # NoJob
    <3>1. PICK r : /\ ses' = [ses EXCEPT ![s] = r]
                   /\ r.activeJob = ses[s].activeJob /\ r.autoJob = x.job
      BY <2>1, <2>4
    <3>2. ses'[s] = r /\ \A o \in Sessions \ {s} : ses'[o] = ses[o]
      BY <1>2, <3>1
    <3>3. s \in retry /\ s \in Sessions
      BY DEF Retry
    <3>4. ses[s].autoJob = NoJob
      <4>1. SessionPlace(s)
        BY DEF Places
      <4> QED BY <3>3, <4>1 DEF SessionPlace, Modest
    <3>5. ASSUME NEW j \in Jobs
          PROVE  /\ Holds(ses, at, pc, s, j) \in Nat
                 /\ Holds(ses', at', pc', s, j)
                      = Holds(ses, at, pc, s, j) + (IF j = x.job THEN 1 ELSE 0)
      <4>1. /\ Holds(ses, at, pc, s, j) = (IF ses[s].activeJob = j THEN 1 ELSE 0)
               + (IF ses[s].autoJob = j THEN 1 ELSE 0) + (IF at[s] = j /\ pc[s] = "admitted" THEN 1 ELSE 0)
            /\ Holds(ses', at', pc', s, j) = (IF ses'[s].activeJob = j THEN 1 ELSE 0)
               + (IF ses'[s].autoJob = j THEN 1 ELSE 0) + (IF at'[s] = j /\ pc'[s] = "admitted" THEN 1 ELSE 0)
        BY HoldsIs
      <4> QED BY <1>1, <2>2, <3>1, <3>2, <3>4, <4>1
    <3> QED BY <1>1, <1>2, <2>1, <2>2, <3>2, <3>5, BooksGain
  <2> QED BY <2>3, <2>4
<1> QED BY <1>3, <1>4

\* One caller's thread moves, from and to jobs it holds or none.
FirmOf(c, x, j) == IF c # Watcher /\ x[c] = j THEN 1 ELSE 0

LEMMA CallerCounts ==
    ASSUME Places, Places', NEW c \in Callers, NEW j \in Jobs, UNCHANGED ses,
           \A a \in Actors \ {c} : at'[a] = at[a] /\ pc'[a] = pc[a]
    PROVE  /\ Firm(ses', at', pc')[j] \in Nat /\ Firm(ses, at, pc)[j] \in Nat
           /\ Waits(at')[j] \in Nat /\ Waits(at)[j] \in Nat
           /\ Firm(ses', at', pc')[j] + FirmOf(c, at, j) = Firm(ses, at, pc)[j] + FirmOf(c, at', j)
           /\ Waits(at')[j] + WaitOf(c, at, j) = Waits(at)[j] + WaitOf(c, at', j)
<1>1. c \in Actors /\ pc[c] # "admitted" /\ pc'[c] # "admitted"
  BY DEF Actors, Places, CallerPlace
<1>2. Firm(ses, at', pc')[j] + Thread(at, pc, c, j) = Firm(ses, at, pc)[j] + Thread(at', pc', c, j)
  BY <1>1, FirmThread
<1>3. /\ Thread(at, pc, c, j) = FirmOf(c, at, j)
      /\ Thread(at', pc', c, j) = FirmOf(c, at', j)
  BY <1>1 DEF Thread, Firmly, FirmOf
<1>4. Waits(at')[j] + WaitOf(c, at, j) = Waits(at)[j] + WaitOf(c, at', j)
  BY <1>1, WaitsThread
<1> QED BY <1>2, <1>3, <1>4, FirmType, WaitsType

\* The watcher's job gets the sessions that watch as owners, and the watcher waits for it
\* if there are any; then the reference that the admission gave goes back.
LEMMA LendTally ==
    ASSUME NEW js, NEW f, NEW l, NEW w, NEW st, NEW k \in Jobs, NEW more \in Nat, NEW waits \in {0, 1},
           Tally(js, Plus(f, k), l, w, st), Alive(js[k]), ~js[k].cancel,
           f[k] \in Nat, \A i \in Jobs : f[i] \in Nat,
           NEW l2, NEW w2, Elsewhere(l, l2, k), Elsewhere(w, w2, k),
           l2[k] = l[k] + more, w2[k] = w[k] + waits
    PROVE  Tally(Drop([js EXCEPT ![k].subs = @ + more, ![k].waiters = @ + waits], Times(k, Lent)),
                 f, l2, w2, st)
<1> DEFINE f1 == Plus(f, k)
           n == Times(k, Lent)
           su == js[k].subs + more
           wa == js[k].waiters + waits
           q == [js[k] EXCEPT !.subs = su, !.waiters = wa]
           js1 == [js EXCEPT ![k].subs = @ + more, ![k].waiters = @ + waits]
<1>1. /\ Entry(js[k], f1[k], l[k], w[k], st) /\ l[k] \in Nat /\ w[k] \in Nat
      /\ f1[k] = f[k] + 1 /\ f1[k] \in Nat /\ js = [j \in Jobs |-> js[j]]
      /\ \A i \in Jobs : l[i] \in Nat /\ w[i] \in Nat /\ f1[i] \in Nat
  BY DEF Tally, Plus
<1>2. js1 = [js EXCEPT ![k] = q]
  BY <1>1
<1>3. js[k] \in Job /\ js[k].subs = f1[k] + l[k] /\ js[k].waiters = w[k]
  BY <1>1 DEF Entry
<1>4. su \in Nat /\ wa \in Nat /\ su = f1[k] + l2[k] /\ wa = w2[k] /\ su > 0
      /\ l2[k] \in Nat /\ w2[k] \in Nat
  BY <1>1, <1>3
<1> HIDE DEF su, wa, f1
<1>5. q \in Job /\ q.subs = su /\ q.waiters = wa /\ q.phase = js[k].phase /\ q.cancel = js[k].cancel
  BY <1>3, <1>4 DEF Job
<1> HIDE DEF q, js1
<1>6. Entry(q, f1[k], l2[k], w2[k], st)
  BY <1>4, <1>5 DEF Entry, Alive
<1>7. Tally([js EXCEPT ![k] = q], f1, l2, w2, st)
  BY <1>1, <1>4, <1>6, TallyOne DEF f1, Elsewhere
<1>8. ASSUME NEW j \in Jobs
      PROVE  /\ f[j] \in Nat /\ l2[j] \in Nat /\ n[j] \in Nat
             /\ f[j] <= f1[j] /\ f1[j] + l2[j] = f[j] + l2[j] + n[j]
  <2>1. l2[j] \in Nat /\ n[j] = (IF j = k THEN 1 ELSE 0) /\ f1[j] = f[j] + (IF j = k THEN 1 ELSE 0)
    BY <1>1, <1>4 DEF Elsewhere, Times, Lent, f1, Plus
  <2> HIDE DEF n
  <2> QED BY <2>1
<1> HIDE DEF n
<1>9. Tally(Drop(js1, n), f, l2, w2, st)
  BY <1>2, <1>7, <1>8, TallyDrop
<1> QED BY <1>9 DEF js1, n

LEMMA IndexBooks ==
    ASSUME IInv, OInv, Places, Places', Books, NEW c \in Callers, NEW p \in Projects,
           CallIndex(c, p)
    PROVE  Books'
<1> DEFINE f == Firm(ses, at, pc)
           l == Loose(joining, watchSubs)
           w == Waits(at)
<1>1. /\ c \in Actors /\ pc \in [Actors -> RequestPc] /\ at \in [Actors -> Jobs \cup {NoJob}]
      /\ watchSubs \subseteq Sessions \X Jobs /\ NoJob \notin Jobs /\ Default \in Options
  BY NamesAssumption DEF OInv, Owners, IInv, ThreadsInv, Actors
<1>2. pc[c] = "idle" /\ at[c] = NoJob /\ UNCHANGED <<ses, joining, stopping>>
  BY DEF CallIndex, Places, CallerPlace
<1>3. Tally(Reap(jobs), f, l, w, stopping)
  BY TallyReap DEF Books
<1>4. CASE c = Watcher /\ Watching(ses, p) = {}
  <2>1. jobs' = Reap(jobs) /\ UNCHANGED <<pc, at, watchSubs>>
    BY <1>4 DEF CallIndex
  <2> HIDE DEF f, l, w
  <2> QED BY <1>2, <1>3, <2>1 DEF Books, f, l, w
<1>5. ASSUME ~(c = Watcher /\ Watching(ses, p) = {}) PROVE Books'
  <2>1. PICK r \in Subscribe(Reap(jobs), p, Default) :
          IF r.job = NoJob \/ c # Watcher
          THEN /\ jobs' = r.jobs /\ at' = [at EXCEPT ![c] = r.job]
               /\ Go(c, IF r.job = NoJob THEN "idle" ELSE "waiting")
               /\ UNCHANGED watchSubs
          ELSE LET owners == WatchOwners(p, r.job)
                   more   == Cardinality(owners \ watchSubs)
                   waits  == IF owners = {} THEN 0 ELSE 1
               IN  /\ watchSubs' = watchSubs \cup owners
                   /\ jobs' = Drop([r.jobs EXCEPT ![r.job].subs = @ + more,
                                                  ![r.job].waiters = @ + waits],
                                   Times(r.job, Lent))
                   /\ at' = [at EXCEPT ![c] = IF waits = 1 THEN r.job ELSE NoJob]
                   /\ Go(c, IF waits = 1 THEN "waiting" ELSE "idle")
    BY <1>5, Zenon DEF CallIndex
  <2>2. \A a \in Actors \ {c} : at'[a] = at[a] /\ pc'[a] = pc[a]
    BY <1>1, <2>1, Zenon DEF Go
  <2> DEFINE f2 == Firm(ses', at', pc')
             w2 == Waits(at')
  <2>3. ASSUME NEW j \in Jobs
        PROVE  /\ f2[j] \in Nat /\ f[j] \in Nat /\ w2[j] \in Nat /\ w[j] \in Nat
               /\ f2[j] + FirmOf(c, at, j) = f[j] + FirmOf(c, at', j)
               /\ w2[j] + WaitOf(c, at, j) = w[j] + WaitOf(c, at', j)
    BY <1>2, <2>2, CallerCounts
  <2> HIDE DEF f, l, w, f2, w2
  <2>4. ASSUME NEW j \in Jobs
        PROVE  /\ f2[j] \in Nat /\ f[j] \in Nat /\ w2[j] \in Nat /\ w[j] \in Nat
               /\ f2[j] = f[j] + FirmOf(c, at', j) /\ w2[j] = w[j] + WaitOf(c, at', j)
    <3>1. FirmOf(c, at, j) = 0 /\ WaitOf(c, at, j) = 0 /\ FirmOf(c, at', j) \in Nat
          /\ WaitOf(c, at', j) \in Nat
      BY <1>1, <1>2 DEF FirmOf, WaitOf
    <3> QED BY <2>3, <3>1
  <2>5. CASE r.job = NoJob
    <3>1. jobs' = r.jobs /\ at'[c] = NoJob /\ UNCHANGED watchSubs
      BY <1>1, <2>1, <2>5, Zenon
    <3>2. Tally(jobs', f, l, w, stopping)
      BY <1>1, <1>3, <2>5, <3>1, TallySubscribe
    <3>3. \A j \in Jobs : f2[j] = f[j] /\ l[j] = l[j] /\ w2[j] = w[j]
      <4>1. \A j \in Jobs : FirmOf(c, at', j) = 0 /\ WaitOf(c, at', j) = 0
        BY <1>1, <3>1 DEF FirmOf, WaitOf
      <4> QED BY <2>4, <4>1
    <3>4. Tally(jobs', f2, l, w2, stopping)
      BY <3>2, <3>3, TallySame
    <3> QED BY <1>2, <3>1, <3>4 DEF Books, f2, w2, l
  <2>6. CASE r.job # NoJob /\ c # Watcher
    <3>1. jobs' = r.jobs /\ at' = [at EXCEPT ![c] = r.job] /\ UNCHANGED watchSubs
      BY <2>1, <2>6, Zenon
    <3>2. Tally(jobs', Plus(f, r.job), l, w, stopping)
      BY <1>1, <1>3, <2>6, <3>1, TallySubscribe
    <3>3. \A j \in Jobs : f2[j] = Plus(f, r.job)[j] /\ l[j] = l[j] /\ w2[j] = w[j]
      <4>1. \A j \in Jobs : /\ FirmOf(c, at', j) = (IF j = r.job THEN 1 ELSE 0)
                            /\ WaitOf(c, at', j) = 0
        BY <1>1, <2>6, <3>1 DEF FirmOf, WaitOf
      <4> QED BY <2>4, <4>1 DEF Plus
    <3>4. Tally(jobs', f2, l, w2, stopping)
      BY <3>2, <3>3, TallySame
    <3> QED BY <1>2, <3>1, <3>4 DEF Books, f2, w2, l
  <2>7. CASE r.job # NoJob /\ c = Watcher
    <3> DEFINE k == r.job
               owners == WatchOwners(p, k)
               more == Cardinality(owners \ watchSubs)
               waits == IF owners = {} THEN 0 ELSE 1
               l2 == Loose(joining, watchSubs \cup owners)
    <3>1. /\ watchSubs' = watchSubs \cup owners
          /\ jobs' = Drop([r.jobs EXCEPT ![k].subs = @ + more, ![k].waiters = @ + waits],
                          Times(k, Lent))
          /\ at' = [at EXCEPT ![c] = IF waits = 1 THEN k ELSE NoJob]
      BY <2>1, <2>7, Zenon
    <3>2. /\ k \in Jobs /\ Tally(r.jobs, Plus(f, k), l, w, stopping)
          /\ Alive(r.jobs[k]) /\ ~r.jobs[k].cancel
      BY <1>1, <1>3, <2>7, TallySubscribe
    <3>a. owners \subseteq Sessions \X Jobs
      BY <3>2 DEF WatchOwners, Watching
    <3>3. /\ Of(owners \ watchSubs, k) = owners \ watchSubs
          /\ \A i \in Jobs \ {k} : Of(owners \ watchSubs, i) = {}
      BY <3>2 DEF WatchOwners, Watching, Of
    <3>b. watchSubs \subseteq Sessions \X Jobs
      BY <1>1
    <3>4. ASSUME NEW j \in Jobs
          PROVE  /\ Cardinality(Of(owners \ watchSubs, j)) \in Nat
                 /\ l2[j] = l[j] + Cardinality(Of(owners \ watchSubs, j))
                 /\ l[j] \in Nat
      <4> HIDE DEF owners
      <4>1. /\ Cardinality(Of(owners \ watchSubs, j)) \in Nat
            /\ Loose(joining, watchSubs \cup owners)[j]
                  = Loose(joining, watchSubs)[j] + Cardinality(Of(owners \ watchSubs, j))
        BY <3>a, <3>b, LooseMore
      <4>2. Loose(joining, watchSubs)[j] \in Nat
        BY <1>1, LooseType
      <4> QED BY <4>1, <4>2 DEF l
    <3> HIDE DEF owners, l2
    <3>5. more \in Nat /\ l2[k] = l[k] + more
      BY <3>2, <3>3, <3>4
    <3>6. Elsewhere(l, l2, k)
      <4>1. ASSUME NEW i \in Jobs \ {k} PROVE l2[i] = l[i]
        <5>1. Cardinality(Of(owners \ watchSubs, i)) = 0
          BY <3>3, FS_EmptySet
        <5> QED BY <3>4, <5>1
      <4> QED BY <4>1 DEF Elsewhere
    <3>7. waits \in {0, 1} /\ at'[c] = IF waits = 1 THEN k ELSE NoJob
      BY <1>1, <3>1
    <3> HIDE DEF waits, more
    <3>8. /\ \A j \in Jobs : f2[j] = f[j] /\ f[j] \in Nat
          /\ Elsewhere(w, w2, k) /\ w2[k] = w[k] + waits
      <4>1. \A j \in Jobs : /\ FirmOf(c, at', j) = 0
                            /\ WaitOf(c, at', j) = (IF j = k THEN waits ELSE 0)
        BY <1>1, <2>7, <3>2, <3>7 DEF FirmOf, WaitOf
      <4> QED BY <2>4, <3>2, <4>1 DEF Elsewhere
    <3> HIDE DEF k
    <3>9. Tally(jobs', f, l2, w2, stopping)
      BY <3>1, <3>2, <3>5, <3>6, <3>7, <3>8, LendTally
    <3>10. Tally(jobs', f2, l2, w2, stopping)
      BY <3>8, <3>9, TallySame
    <3> QED BY <1>2, <3>1, <3>10 DEF Books, f2, w2, l2
  <2> QED BY <2>5, <2>6, <2>7
<1> QED BY <1>4, <1>5

\* The watcher's call ends: no session owns the job through it any more.
LEMMA LooseEnds ==
    ASSUME watchSubs \subseteq Sessions \X Jobs, NEW j \in Jobs, NEW i \in Jobs
    PROVE  LET less == {x \in watchSubs : x[2] # j}
           IN  /\ Times(j, Pairs(Sessions)[j])[i] \in Nat /\ Loose(joining, less)[i] \in Nat
               /\ Loose(joining, watchSubs)[i]
                    = Loose(joining, less)[i] + Times(j, Pairs(Sessions)[j])[i]
<1> DEFINE less == {x \in watchSubs : x[2] # j}
           n == Times(j, Pairs(Sessions)[j])
<1>0. less \subseteq Sessions \X Jobs
  OBVIOUS
<1>1. /\ Cardinality(Joiners(joining, i)) \in Nat /\ Loose(joining, watchSubs)[i] \in Nat
      /\ Cardinality(Of(watchSubs, i)) \in Nat
  BY LooseType
<1>2. Loose(joining, less)[i] \in Nat /\ Cardinality(Of(less, i)) \in Nat
  BY <1>0, LooseType
<1>3. /\ Loose(joining, watchSubs)[i] = Cardinality(Joiners(joining, i)) + Cardinality(Of(watchSubs, i))
      /\ Loose(joining, less)[i] = Cardinality(Joiners(joining, i)) + Cardinality(Of(less, i))
  BY DEF Loose
<1>4. CASE i = j
  <2>1. Of(less, i) = {}
    BY <1>4 DEF Of
  <2>2. Cardinality(Of(less, i)) = 0
    BY <2>1, FS_EmptySet
  <2>3. n[i] = Cardinality(Of(watchSubs, i))
    BY <1>4, Column DEF Times, Pairs
  <2> HIDE DEF less, n
  <2> QED BY <1>1, <1>2, <1>3, <2>2, <2>3 DEF less, n
<1>5. CASE i # j
  <2>1. Of(less, i) = Of(watchSubs, i)
    BY <1>5 DEF Of
  <2>2. n[i] = 0
    BY <1>5 DEF Times
  <2> HIDE DEF less, n
  <2> QED BY <1>1, <1>2, <1>3, <2>1, <2>2 DEF less, n
<1> QED BY <1>4, <1>5

LEMMA DoneBooks ==
    ASSUME IInv, OInv, Places, Places', Books, NEW c \in Callers, CallDone(c)
    PROVE  Books'
<1> DEFINE f == Firm(ses, at, pc)
           l == Loose(joining, watchSubs)
           w == Waits(at)
           f2 == Firm(ses', at', pc')
           w2 == Waits(at')
           j == at[c]
<1>1. /\ c \in Actors /\ pc \in [Actors -> RequestPc] /\ at \in [Actors -> Jobs \cup {NoJob}]
      /\ NoJob \notin Jobs
  BY NamesAssumption DEF OInv, Owners, IInv, ThreadsInv, Actors
<1>2. watchSubs \subseteq Sessions \X Jobs
  BY DEF OInv, Owners
<1>3. /\ pc[c] = "waiting" /\ jobs[j].phase = "terminal" /\ at' = [at EXCEPT ![c] = NoJob]
      /\ pc' = [pc EXCEPT ![c] = "idle"] /\ UNCHANGED <<ses, joining, stopping>>
  BY DEF CallDone, Go
<1>4. j \in Jobs
  BY <1>1, <1>3 DEF Places, CallerPlace
<1>5. \A a \in Actors \ {c} : at'[a] = at[a] /\ pc'[a] = pc[a]
  BY <1>1, <1>3
<1>6. ASSUME NEW i \in Jobs
      PROVE  /\ f2[i] \in Nat /\ f[i] \in Nat /\ w2[i] \in Nat /\ w[i] \in Nat
             /\ f2[i] + FirmOf(c, at, i) = f[i] /\ w2[i] + WaitOf(c, at, i) = w[i]
  <2>1. /\ f2[i] \in Nat /\ f[i] \in Nat /\ w2[i] \in Nat /\ w[i] \in Nat
        /\ f2[i] + FirmOf(c, at, i) = f[i] + FirmOf(c, at', i)
        /\ w2[i] + WaitOf(c, at, i) = w[i] + WaitOf(c, at', i)
    BY <1>3, <1>5, CallerCounts
  <2>2. FirmOf(c, at', i) = 0 /\ WaitOf(c, at', i) = 0
    BY <1>1, <1>3 DEF FirmOf, WaitOf
  <2> HIDE DEF f, f2, w, w2
  <2> QED BY <2>1, <2>2
<1>7. \A i \in Jobs : l[i] \in Nat
  BY <1>2, LooseType
<1>8. Tally(jobs, f, l, w, stopping)
  BY DEF Books
<1>9. CASE c # Watcher
  <2>1. jobs' = Reap(Drop(jobs, Times(j, 1))) /\ UNCHANGED watchSubs
    BY <1>9 DEF CallDone
  <2>2. ASSUME NEW i \in Jobs
        PROVE  /\ f2[i] \in Nat /\ l[i] \in Nat /\ Times(j, 1)[i] \in Nat
               /\ f2[i] <= f[i] /\ f[i] + l[i] = f2[i] + l[i] + Times(j, 1)[i]
               /\ w2[i] = w[i]
    <3>1. FirmOf(c, at, i) = Times(j, 1)[i] /\ Times(j, 1)[i] \in {0, 1} /\ WaitOf(c, at, i) = 0
      BY <1>9 DEF FirmOf, WaitOf, Times
    <3> HIDE DEF f, f2, w, w2, l, j
    <3> QED BY <1>6, <1>7, <3>1
  <2> HIDE DEF f, f2, w, w2, l
  <2>3. Tally(Drop(jobs, Times(j, 1)), f2, l, w, stopping)
    BY <1>8, <2>2, TallyDrop
  <2>4. Tally(jobs', f2, l, w, stopping)
    BY <2>1, <2>3, TallyReap
  <2>5. Tally(jobs', f2, l, w2, stopping)
    BY <2>2, <2>4, TallySame
  <2> QED BY <1>3, <2>1, <2>5 DEF Books, f2, w2, l
<1>10. CASE c = Watcher
  <2> DEFINE less == {x \in watchSubs : x[2] # j}
             l2 == Loose(joining, less)
             n == Times(j, Pairs(Sessions)[j])
             js == Drop(jobs, n)
             q == [js[j] EXCEPT !.waiters = js[j].waiters - 1]
  <2>1. watchSubs' = less /\ jobs' = Reap([js EXCEPT ![j].waiters = @ - 1])
    BY <1>10 DEF CallDone
  <2>2. ASSUME NEW i \in Jobs
        PROVE  /\ n[i] \in Nat /\ l2[i] \in Nat /\ l[i] = l2[i] + n[i]
               /\ f2[i] = f[i] /\ w2[i] = w[i] - (IF i = j THEN 1 ELSE 0)
    <3>1. FirmOf(c, at, i) = 0 /\ WaitOf(c, at, i) = (IF i = j THEN 1 ELSE 0)
      BY <1>10 DEF FirmOf, WaitOf
    <3>2. /\ n[i] \in Nat /\ l2[i] \in Nat /\ l[i] = l2[i] + n[i]
      BY <1>2, <1>4, LooseEnds
    <3> HIDE DEF f, f2, w, w2, l, l2, n
    <3> QED BY <1>6, <3>1, <3>2
  <2>a. /\ js[j].phase = "terminal" /\ js = [i \in Jobs |-> js[i]]
    <3>1. jobs[j] \in Job
      BY <1>4, <1>8 DEF Tally, Entry
    <3>2. js[j].phase = "terminal"
      BY <1>3, <1>4, <3>1 DEF Drop, Job
    <3>3. js = [i \in Jobs |-> js[i]]
      BY DEF Drop
    <3> QED BY <3>2, <3>3
  <2> HIDE DEF f, f2, w, w2, l, l2, n
  <2>3. Tally(js, f, l2, w, stopping)
    <3>1. \A i \in Jobs : /\ f[i] \in Nat /\ l2[i] \in Nat /\ n[i] \in Nat
                          /\ f[i] <= f[i] /\ f[i] + l[i] = f[i] + l2[i] + n[i]
      BY <1>6, <2>2
    <3> QED BY <1>8, <3>1, TallyDrop
  <2> HIDE DEF js
  <2>4. /\ Entry(js[j], f[j], l2[j], w[j], stopping) /\ w2[j] \in Nat /\ w[j] = w2[j] + 1
        /\ l2[j] \in Nat /\ f[j] \in Nat
    BY <1>4, <1>6, <2>2, <2>3 DEF Tally
  <2>5. q \in Job /\ q.waiters = w2[j] /\ q.subs = js[j].subs /\ q.phase = "terminal"
    <3>1. js[j] \in Job /\ js[j].waiters - 1 = w2[j]
      BY <2>4 DEF Entry
    <3> QED BY <2>4, <2>a, <3>1 DEF Job
  <2>6. [js EXCEPT ![j].waiters = @ - 1] = [js EXCEPT ![j] = q]
    BY <1>4, <2>a
  <2> HIDE DEF q
  <2>7. Entry(q, f[j], l2[j], w2[j], stopping)
    BY <2>4, <2>5 DEF Entry, Alive
  <2>8. Tally([js EXCEPT ![j] = q], f, l2, w2, stopping)
    <3>1. \A i \in Jobs \ {j} : f[i] = f[i] /\ l2[i] = l2[i] /\ w2[i] = w[i]
      BY <1>6, <2>2
    <3> QED BY <1>4, <2>3, <2>4, <2>7, <3>1, TallyOne
  <2>9. Tally(jobs', f, l2, w2, stopping)
    BY <2>1, <2>6, <2>8, TallyReap
  <2>10. Tally(jobs', f2, l2, w2, stopping)
    <3>1. \A i \in Jobs : f2[i] = f[i] /\ l2[i] = l2[i] /\ w2[i] = w2[i]
      BY <2>2
    <3> QED BY <2>9, <3>1, TallySame
  <2> QED BY <1>3, <2>1, <2>10 DEF Books, f2, w2, l2
<1> QED BY <1>9, <1>10

\* The UI's and the watcher's mutations, and the pruned project.
LEMMA CallerBooks ==
    ASSUME IInv, OInv, Places, Places', Books, NEW c \in Callers,
           CallerStep(c) \/ \E p \in Projects : CallIndex(c, p) \/ CallMutate(c, p)
    PROVE  Books'
<1>1. CASE CallDone(c)
  BY <1>1, DoneBooks
<1>2. CASE \E p \in Projects : CallIndex(c, p)
  BY <1>2, IndexBooks
<1>3. CASE MutationStep(c) \/ \E p \in Projects : CallMutate(c, p)
  <2>1. /\ c \in Actors /\ pc \in [Actors -> RequestPc]
    BY DEF IInv, ThreadsInv, Actors
  <2>2. /\ UNCHANGED <<jobs, ses, watchSubs, at, joining, stopping>>
        /\ pc[c] # "waiting"
    BY <1>3 DEF MutationStep, Reserve, Lock, Mutate, BeginRelease, EndRelease, MutFrame, CallMutate
  <2>3. pc' = pc \/ \E x : pc' = [pc EXCEPT ![c] = x]
    BY <1>3, Zenon DEF MutationStep, Reserve, Lock, Mutate, BeginRelease, EndRelease, MutFrame,
       CallMutate, Refused, Go
  <2>4. at[c] = NoJob /\ \A b \in Actors \ {c} : pc'[b] = pc[b]
    BY <2>1, <2>2, <2>3 DEF Places, CallerPlace
  <2>5. Links(ses, ses')
    BY <2>2 DEF Links, Gone
  <2>6. Tally(jobs', Firm(ses, at, pc), Loose(joining, watchSubs'), Waits(at), stopping')
    BY <2>2 DEF Books
  <2>7. UNCHANGED <<at, joining>>
    BY <2>2
  <2> QED BY <2>4, <2>5, <2>6, <2>7, BooksPlain
<1> QED BY <1>1, <1>2, <1>3 DEF CallerStep

LEMMA PrunedBooks == ASSUME IInv, OInv, Places, Books, Pruned PROVE Books'
<1> DEFINE gone == UNION {Watching(ses, m.key) : m \in Own(Watcher)}
           less == {x \in watchSubs : x[1] \notin gone}
           f == Firm(ses, at, pc)
           l2 == Loose(joining, less)
           w == Waits(at)
           n == Pairs(gone)
<1>1. /\ Watcher \in Callers /\ pc[Watcher] = "refresh" /\ UNCHANGED <<at, joining, stopping>>
      /\ jobs' = Drop(jobs, n) /\ watchSubs' = less /\ pc' = [pc EXCEPT ![Watcher] = "release"]
  BY DEF Pruned, Go
<1>2. pc \in [Actors -> RequestPc] /\ at[Watcher] = NoJob
  BY <1>1 DEF Places, CallerPlace, IInv, ThreadsInv
<1>3. watchSubs \subseteq Sessions \X Jobs /\ gone \in SUBSET Sessions
  BY DEF OInv, Owners, Watching
<1>4. Tally(jobs, f, Loose(joining, watchSubs), w, stopping)
  BY DEF Books
<1>5. ASSUME NEW j \in Jobs
      PROVE  /\ f[j] \in Nat /\ l2[j] \in Nat /\ n[j] \in Nat /\ f[j] <= f[j]
             /\ f[j] + Loose(joining, watchSubs)[j] = f[j] + l2[j] + n[j]
  <2>1. f[j] \in Nat
    BY FirmType
  <2> HIDE DEF gone, f
  <2>2. /\ n[j] \in Nat /\ l2[j] \in Nat /\ Loose(joining, watchSubs)[j] = l2[j] + n[j]
    BY <1>3, LooseLeft
  <2> HIDE DEF n, l2
  <2> QED BY <2>1, <2>2
<1>6. Links(ses, ses')
  BY PrunedLinks
<1> HIDE DEF f, l2, n, w
<1>7. Tally(Drop(jobs, n), f, l2, w, stopping)
  BY <1>4, <1>5, TallyDrop
<1>8. \A b \in Actors \ {Watcher} : pc'[b] = pc[b]
  BY <1>1, <1>2
<1>9. Tally(jobs', f, Loose(joining, watchSubs'), w, stopping')
  BY <1>1, <1>7 DEF l2
<1>10. UNCHANGED <<at, joining>>
  BY <1>1
<1> QED BY <1>2, <1>6, <1>8, <1>9, <1>10, BooksPlain DEF f, w

LEMMA ShutdownBooks == ASSUME OInv, Books, Shutdown PROVE Books'
<1> DEFINE f == Firm(ses, at, pc)
           f2 == Firm(ses', at, pc)
           l == Loose(joining, watchSubs)
           w == Waits(at)
           n == [j \in Jobs |-> Cardinality({s \in Sessions : ses[s].autoJob = j})]
<1>1. /\ UNCHANGED <<at, pc, joining, watchSubs>> /\ jobs' = CancelAll(Drop(jobs, n)) /\ stopping' = TRUE
  BY DEF Shutdown
<1>2. Disowned(Sessions, ses') /\ NoJob \notin Jobs
  BY ShutdownEffect, NamesAssumption
<1>3. SameRequests(ses, ses')
  BY <1>2 DEF Disowned, SameRequests
<1>4. Tally(jobs, f, l, w, stopping)
  BY DEF Books
<1>5. ASSUME NEW j \in Jobs
      PROVE  /\ f2[j] \in Nat /\ l[j] \in Nat /\ n[j] \in Nat /\ f2[j] <= f[j]
             /\ f[j] + l[j] = f2[j] + l[j] + n[j]
  <2>1. /\ f[j] \in Nat /\ f2[j] \in Nat
        /\ Cardinality(Autos(ses, j)) \in Nat /\ Cardinality(Autos(ses', j)) \in Nat
        /\ f2[j] + Cardinality(Autos(ses, j)) = f[j] + Cardinality(Autos(ses', j))
    BY <1>3, FirmAutos
  <2>2. Autos(ses', j) = {}
    BY <1>2 DEF Autos, Disowned
  <2>3. Cardinality(Autos(ses', j)) = 0
    BY <2>2, FS_EmptySet
  <2>4. n[j] = Cardinality(Autos(ses, j))
    BY DEF Autos
  <2>5. l[j] \in Nat
    BY <1>4 DEF Tally
  <2> HIDE DEF f, f2, l, n
  <2> QED BY <2>1, <2>3, <2>4, <2>5
<1> HIDE DEF f, f2, l, n, w
<1>6. Tally(Drop(jobs, n), f2, l, w, stopping)
  BY <1>4, <1>5, TallyDrop
<1>7. Tally(jobs', f2, l, w, stopping')
  BY <1>1, <1>6, TallyCancelAll
<1> QED BY <1>1, <1>7 DEF Books, f2, l, w

LEMMA NextBooks == IInv /\ OInv /\ Places /\ Modest /\ Books /\ [Next]_vars => Books'
<1> SUFFICES ASSUME IInv, OInv, Places, Modest, Books, [Next]_vars PROVE Books'
  OBVIOUS
<1>1. Places'
  BY NextPlaces
<1>2. CASE UNCHANGED vars
  BY <1>2 DEF Books, vars
<1>3. CASE \E s \in Sessions : Retry(s)
  BY <1>3, RetryBooks
<1>4. ASSUME NEW s \in Sessions,
             Open(s) \/ Submit(s) \/ RequestStep(s) \/ CancelRequest(s) \/ CancelSession(s)
               \/ Join(s) \/ CloseSession(s)
      PROVE  Books'
  <2>1. CASE Aloof(s) /\ ~Admit(s)
    BY <2>1, AloofBooks
  <2>2. CASE CancelSession(s) \/ CloseSession(s)
    BY <2>2, PartBooks DEF Modest
  <2> QED BY <1>4, <2>1, <2>2, AdmitBooks, ConfirmBooks, AwaitBooks, AutoBooks, CancelBooks, JoinBooks
       DEF RequestStep, Aloof
<1>5. CASE \E j \in Jobs : JobStep(j)
  BY <1>5, JobBooks, PublishBooks
<1>6. CASE \E c \in Callers :
             CallerStep(c) \/ (\E p \in Projects : CallIndex(c, p) \/ CallMutate(c, p))
  BY <1>1, <1>6, CallerBooks
<1>7. CASE Pruned
  BY <1>7, PrunedBooks
<1>8. CASE Shutdown
  BY <1>8, ShutdownBooks
<1>9. CASE Drained
  <2>1. jobs' = Reap(jobs) /\ UNCHANGED <<ses, watchSubs, pc, at, joining, stopping>>
    BY <1>9 DEF Drained
  <2>2. Tally(Reap(jobs), Firm(ses, at, pc), Loose(joining, watchSubs), Waits(at), stopping)
    BY TallyReap DEF Books
  <2> QED BY <2>1, <2>2 DEF Books
<1> QED BY <1>2, <1>3, <1>4, <1>5, <1>6, <1>7, <1>8, <1>9 DEF Next

LEMMA InitBooks == Init => Books
<1> SUFFICES ASSUME Init PROVE Books
  OBVIOUS
<1> DEFINE f == Firm(ses, at, pc)
           l == Loose(joining, watchSubs)
           w == Waits(at)
<1>1. NoJob \notin Jobs /\ 0 \in 0..MaxRestarts + 1
  BY NamesAssumption, LimitAssumption
<1>2. ASSUME NEW j \in Jobs PROVE f[j] = 0 /\ l[j] = 0 /\ w[j] = 0
  <2>1. /\ Requesters(ses, j) = {} /\ Autos(ses, j) = {} /\ Threads(at, pc, j) = {}
        /\ Joiners(joining, j) = {} /\ Of(watchSubs, j) = {}
        /\ {c \in Callers \cap {Watcher} : at[c] = j} = {}
    BY <1>1 DEF Init, Requesters, Autos, Threads, Joiners, Of, Actors
  <2> QED BY <2>1, FS_EmptySet DEF Firm, Loose, Waits
<1>3. Free \in Job /\ Free.subs = 0 /\ Free.waiters = 0 /\ Free.phase = "free"
  BY <1>1 DEF Free, Job, Phases, Verdicts
<1>4. jobs = [j \in Jobs |-> Free]
  BY DEF Init
<1> HIDE DEF f, l, w
<1>5. \A j \in Jobs : Entry(jobs[j], f[j], l[j], w[j], stopping)
  BY <1>2, <1>3, <1>4 DEF Entry, Alive
<1>6. jobs = [j \in Jobs |-> jobs[j]]
  BY <1>4
<1> QED BY <1>2, <1>5, <1>6 DEF Tally, Books, f, l, w

-----------------------------------------------------------------------------
(* A session that waits for room has a waker.                              *)

\* Work that is under way stays so.
Lively(js, js2) ==
    \A j \in Jobs : Alive(js[j]) => Alive(js2[j]) /\ js2[j].project = js[j].project
Working(js) == \E j \in Jobs : Alive(js[j])

Waker ==
    /\ \A s \in Sessions : ses[s].pending => ses[s].status # "new"
    /\ ~stopping /\ startFailures = 0 =>
        \A s \in Sessions \ retry : ses[s].pending /\ ~Gone(ses[s]) => Working(jobs)

LEMMA KeptLively == ASSUME NEW js, NEW js2, Kept(js, js2) PROVE Lively(js, js2)
BY DEF Kept, Lively, Alive

LEMMA LivelyWorking ==
    ASSUME NEW js, NEW js2, Lively(js, js2), Working(js) PROVE Working(js2)
BY DEF Lively, Working

LEMMA LivelyTransitive ==
    ASSUME NEW js, NEW js2, NEW js3, Lively(js, js2), Lively(js2, js3) PROVE Lively(js, js3)
BY DEF Lively

LEMMA DropLively ==
    ASSUME NEW js, NEW n, Storage(js) PROVE Lively(js, Drop(js, n)) /\ Storage(Drop(js, n))
BY DropKept, KeptLively DEF Kept

LEMMA ReapLively == ASSUME NEW js, Storage(js) PROVE Lively(js, Reap(js)) /\ Storage(Reap(js))
BY ReapKept, KeptLively DEF Kept

LEMMA CancelAllLively ==
    ASSUME NEW js, Storage(js) PROVE Lively(js, CancelAll(js)) /\ Storage(CancelAll(js))
BY CancelAllKept, KeptLively DEF Kept

LEMMA SubscribeLively ==
    ASSUME NEW js, Storage(js), NEW p, NEW o, NEW r \in Subscribe(js, p, o)
    PROVE  Lively(js, r.jobs) /\ Storage(r.jobs)
<1>1. Refuses(js, r) \/ Shares(js, p, r) \/ Creates(js, p, o, r)
  BY Subscribed
<1>2. CASE Refuses(js, r)
  BY <1>2 DEF Refuses, Lively
<1>3. CASE Shares(js, p, r)
  <2> DEFINE n == js[r.job].subs + 1
             q == [js[r.job] EXCEPT !.subs = n]
  <2>1. r.job \in Jobs /\ r.jobs = [js EXCEPT ![r.job] = q]
    BY <1>3 DEF Shares, Storage
  <2> HIDE DEF n
  <2>2. IsJob(q) /\ q.phase = js[r.job].phase /\ q.project = js[r.job].project
    BY <2>1 DEF Storage, IsJob
  <2> HIDE DEF q
  <2> QED BY <2>1, <2>2 DEF Lively, Alive, Storage
<1>4. CASE Creates(js, p, o, r)
  <2> DEFINE q == [Free EXCEPT !.project = p, !.args = o, !.phase = "gate", !.subs = 1]
  <2>1. r.job \in Jobs /\ r.jobs = [js EXCEPT ![r.job] = q]
    BY <1>4 DEF Creates, Created
  <2>2. IsJob(q) /\ q.phase = "gate"
    BY DEF Free, IsJob
  <2> HIDE DEF q
  <2>3. ~Alive(js[r.job])
    BY <1>4 DEF Creates, Alive
  <2> QED BY <2>1, <2>2, <2>3 DEF Lively, Alive, Storage
<1> QED BY <1>1, <1>2, <1>3, <1>4

\* Whether or not room is found, work is under way if it was; if none is found, some
\* is, or the daemon stops, or a start has failed.
LEMMA SubscribeWakes ==
    ASSUME NEW js, Storage(js), NEW p, NEW o, NEW r \in Subscribe(js, p, o), r.failed # 1, ~stopping
    PROVE  Working(r.jobs)
<1>1. Refuses(js, r) \/ Shares(js, p, r) \/ Creates(js, p, o, r)
  BY Subscribed
<1>2. CASE Refuses(js, r)
  BY <1>2 DEF Refuses, Working, Active, Alive
<1>3. CASE Shares(js, p, r)
  BY <1>3, SubscribeLively DEF Shares, Lively, Working
<1>4. CASE Creates(js, p, o, r)
  <2>1. r.job \in Jobs /\ r.jobs[r.job].phase = "gate"
    BY <1>4 DEF Creates, Created, Free, Storage
  <2> QED BY <2>1 DEF Working, Alive
<1> QED BY <1>1, <1>2, <1>3, <1>4

\* Room is not refused as busy unless work is under way.
LEMMA BusyWorking ==
    ASSUME NEW js, NEW p, NEW o, NEW r \in Subscribe(js, p, o), r.status = "BUSY"
    PROVE  Working(js)
<1>1. Refuses(js, r) \/ Shares(js, p, r) \/ Creates(js, p, o, r)
  BY Subscribed
<1> QED BY <1>1 DEF Refuses, Shares, Creates, Working, Active, Alive

LEMMA ReleaseKept ==
    ASSUME Storage(jobs), NEW s \in Sessions
    PROVE  Kept(jobs, Release(s).jobs) /\ Storage(Release(s).jobs)
<1> DEFINE js1  == Drop(jobs, [j \in Jobs |-> IF ses[s].activeJob = j THEN 1 ELSE 0])
           auto == ses[s].autoJob
           fin  == AutoIsFinal(js1, s)
           kill == [js1 EXCEPT ![auto].cancel = TRUE]
           drop == Drop(js1, [j \in Jobs |-> IF auto = j THEN 1 ELSE 0])
           js2  == IF fin THEN kill ELSE drop
<1>1. Kept(jobs, js1) /\ Storage(js1)
  BY DropKept DEF Kept
<1>2. Kept(jobs, drop) /\ Storage(drop)
  <2> HIDE DEF js1
  <2> QED BY <1>1, DropKept, KeptTransitive DEF Kept
<1>3. Kept(jobs, kill) /\ Storage(kill)
  <2> HIDE DEF js1, auto
  <2>1. Kept(js1, kill)
    BY <1>1 DEF Kept, Storage, IsJob
  <2> QED BY <1>1, <2>1, KeptTransitive DEF Kept
<1>4. Kept(jobs, js2) /\ Storage(js2)
  BY <1>2, <1>3
<1>5. Kept(jobs, Drop(js2, Pairs({s}))) /\ Storage(Drop(js2, Pairs({s})))
  <2> HIDE DEF js2
  <2> QED BY <1>4, DropKept, KeptTransitive DEF Kept
<1>6. Release(s).jobs = js2 \/ Release(s).jobs = Drop(js2, Pairs({s}))
  BY DEF Release
<1> HIDE DEF js2
<1> QED BY <1>4, <1>5, <1>6

\* What neither admits an index job nor is its thread's keeps the phases, but for
\* jobs that are freed.
LEMMA NextKept ==
    ASSUME IInv, Next, \A j \in Jobs : ~JobStep(j), \A s \in Sessions : ~Admit(s) /\ ~AutoAdmit(s),
           \A s \in Sessions : Retry(s) => Home[s] \in db,
           \A c \in Callers, p \in Projects : ~CallIndex(c, p)
    PROVE  Kept(jobs, jobs')
<1>1. Storage(jobs)
  BY DEF IInv, JobsInv
<1>2. ASSUME UNCHANGED jobs PROVE Kept(jobs, jobs')
  BY <1>1, <1>2, KeptReflexive
<1>3. ASSUME NEW S, NEW p, NEW ss, Refresh(S, p, jobs, ss) PROVE Kept(jobs, jobs')
  BY <1>1, <1>3, RefreshedKept DEF Refresh
<1>4. ASSUME NEW s \in Sessions, Retry(s) PROVE Kept(jobs, jobs')
  BY <1>3, <1>4 DEF Retry
<1>5. ASSUME NEW s \in Sessions, CancelSession(s) \/ CloseSession(s) PROVE Kept(jobs, jobs')
  <2> DEFINE js == Release(s).jobs
  <2>1. jobs' = Reap(js) \/ jobs' = Reap(CancelAll(js))
    BY <1>5 DEF CancelSession, CloseSession
  <2>2. Kept(jobs, js)
    BY <1>1, ReleaseKept
  <2> HIDE DEF js
  <2>3. Kept(jobs, CancelAll(js))
    BY <2>2, CancelAllKept, KeptTransitive DEF Kept
  <2> QED BY <2>1, <2>2, <2>3, ReapKept, KeptTransitive DEF Kept
<1>6. ASSUME NEW s \in Sessions, Join(s) \/ CancelRequest(s) \/ Confirm(s) \/ Await(s)
      PROVE  Kept(jobs, jobs')
  <2>1. PICK n : UNCHANGED jobs \/ jobs' = Drop(jobs, n) \/ jobs' = Reap(Drop(jobs, n))
    BY <1>6 DEF Join, CancelRequest, Confirm, Confirmed, Await
  <2>2. Kept(jobs, Drop(jobs, n))
    BY <1>1, DropKept
  <2> QED BY <1>2, <2>1, <2>2, ReapKept, KeptTransitive DEF Kept
<1>7. ASSUME NEW s \in Sessions, RefreshWatch(s) \/ RefreshAgain(s) PROVE Kept(jobs, jobs')
  BY <1>3, <1>7 DEF RefreshWatch, RefreshAgain
<1>8. ASSUME NEW s \in Sessions, Background(s) PROVE Kept(jobs, jobs')
  BY <1>1, <1>8, ReapKept DEF Background
<1>9. ASSUME NEW s \in Sessions,
             Open(s) \/ Submit(s) \/ Enter(s) \/ Parked(s) \/ Complete(s)
      PROVE  Kept(jobs, jobs')
  BY <1>2, <1>9 DEF Open, Submit, Enter, Parked, Complete
<1>10. ASSUME NEW a, MutationStep(a) PROVE Kept(jobs, jobs')
  BY <1>2, <1>10 DEF MutationStep, Reserve, Lock, Mutate, BeginRelease, EndRelease, MutFrame
<1>11. ASSUME NEW c \in Callers, CallDone(c) PROVE Kept(jobs, jobs')
  <2>1. PICK n, k : \/ jobs' = Reap(Drop(jobs, n))
                    \/ jobs' = Reap([Drop(jobs, n) EXCEPT ![k].waiters = @ - 1])
    BY <1>11, Zenon DEF CallDone
  <2> DEFINE js == Drop(jobs, n)
             js2 == [js EXCEPT ![k].waiters = @ - 1]
  <2>2. Kept(jobs, js) /\ Storage(js)
    BY <1>1, DropKept DEF Kept
  <2> HIDE DEF js
  <2>3. Kept(js, js2)
    <3> DEFINE v == js[k].waiters - 1
               q == [js[k] EXCEPT !.waiters = v]
    <3>1. CASE k \in Jobs
      <4>1. js2 = [js EXCEPT ![k] = q]
        BY <2>2, <3>1 DEF Storage
      <4> HIDE DEF v
      <4>2. IsJob(q) /\ q.phase = js[k].phase /\ q.project = js[k].project
        BY <2>2, <3>1 DEF Storage, IsJob
      <4> HIDE DEF q, js2
      <4> QED BY <2>2, <3>1, <4>1, <4>2 DEF Kept, Storage
    <3>2. CASE k \notin Jobs
      <4>1. js2 = js
        BY <2>2, <3>2 DEF Storage
      <4> QED BY <2>2, <4>1, KeptReflexive
    <3> QED BY <3>1, <3>2
  <2> HIDE DEF js2
  <2>4. jobs' = Reap(js) \/ jobs' = Reap(js2)
    BY <2>1 DEF js, js2
  <2> QED BY <2>2, <2>3, <2>4, ReapKept, KeptTransitive DEF Kept
<1>12. ASSUME NEW c \in Callers, NEW p \in Projects, CallMutate(c, p) PROVE Kept(jobs, jobs')
  BY <1>2, <1>12 DEF CallMutate
<1>13. CASE Pruned
  BY <1>1, <1>13, DropKept DEF Pruned
<1>14. CASE Shutdown
  <2>1. PICK n : jobs' = CancelAll(Drop(jobs, n))
    BY <1>14 DEF Shutdown
  <2> QED BY <1>1, <2>1, DropKept, CancelAllKept, KeptTransitive DEF Kept
<1>15. CASE Drained
  BY <1>1, <1>15, ReapKept DEF Drained
<1> QED BY <1>4, <1>5, <1>6, <1>7, <1>8, <1>9, <1>10, <1>11, <1>12, <1>13, <1>14, <1>15
        DEF Next, RequestStep, CallerStep

\* Only the end of a job takes work away.
LEMMA NextLively ==
    ASSUME IInv, Next, \A j \in Jobs : ~Publish(j)
    PROVE  Lively(jobs, jobs')
<1>1. Storage(jobs)
  BY DEF IInv, JobsInv
<1>2. ASSUME UNCHANGED jobs PROVE Lively(jobs, jobs')
  BY <1>2 DEF Lively
<1>3. CASE /\ \A j \in Jobs : ~JobStep(j)
           /\ \A s \in Sessions : ~Admit(s) /\ ~AutoAdmit(s) /\ (Retry(s) => Home[s] \in db)
           /\ \A c \in Callers, p \in Projects : ~CallIndex(c, p)
  BY <1>3, NextKept, KeptLively
<1>4. ASSUME NEW s \in Sessions, Retry(s), Home[s] \notin db PROVE Lively(jobs, jobs')
  <2>1. \E r \in Subscribe(jobs, Home[s], Default) : jobs' = r.jobs
    BY <1>4 DEF Retry
  <2> QED BY <1>1, <2>1, SubscribeLively
<1>5. ASSUME NEW s \in Sessions, Admit(s) \/ AutoAdmit(s) PROVE Lively(jobs, jobs')
  <2>1. PICK js \in {jobs, Reap(jobs)} :
           UNCHANGED jobs \/ \E p, o : \E r \in Subscribe(js, p, o) : jobs' = r.jobs
    <3>1. CASE Admit(s)
      BY ONLY <3>1 DEF Admit
    <3>2. CASE AutoAdmit(s)
      BY ONLY <3>2 DEF AutoAdmit
    <3> QED BY ONLY <1>5, <3>1, <3>2
  <2>2. Lively(jobs, js) /\ Storage(js)
    BY <1>1, ReapLively DEF Lively
  <2> QED BY <1>2, <2>1, <2>2, SubscribeLively, LivelyTransitive
<1>6. ASSUME NEW j \in Jobs, JobStep(j) PROVE Lively(jobs, jobs')
  <2>1. PICK r : Progress(j, r)
    BY <1>6, JobMoves DEF IInv, JobStep, JobThread
  <2> QED BY <1>1, <2>1 DEF Progress, Lively, Alive, Storage
<1>7. ASSUME NEW c \in Callers, NEW p \in Projects, CallIndex(c, p) PROVE Lively(jobs, jobs')
  <2>1. Lively(jobs, Reap(jobs)) /\ Storage(Reap(jobs))
    BY <1>1, ReapLively
  <2>2. CASE jobs' = Reap(jobs)
    BY <2>1, <2>2
  <2>3. ASSUME NEW r \in Subscribe(Reap(jobs), p, Default), NEW n, NEW more, NEW waits,
               \/ jobs' = r.jobs
               \/ jobs' = Drop([r.jobs EXCEPT ![r.job].subs = @ + more,
                                              ![r.job].waiters = @ + waits], n)
        PROVE  Lively(jobs, jobs')
    <3> DEFINE js == r.jobs
               k == r.job
               js2 == [js EXCEPT ![k].subs = @ + more, ![k].waiters = @ + waits]
    <3>1. Lively(jobs, js) /\ Storage(js)
      BY <2>1, SubscribeLively, LivelyTransitive
    <3>2. Lively(jobs, js2) /\ Storage(js2)
      <4> HIDE DEF js, k
      <4>1. CASE k \in Jobs
        <5> DEFINE v == js[k].subs + more
                   u == js[k].waiters + waits
                   q == [js[k] EXCEPT !.subs = v, !.waiters = u]
        <5>1. js2 = [js EXCEPT ![k] = q]
          BY <3>1, <4>1 DEF Storage, IsJob
        <5> HIDE DEF v, u
        <5>2. IsJob(q) /\ q.phase = js[k].phase /\ q.project = js[k].project
          BY <3>1, <4>1 DEF Storage, IsJob
        <5> HIDE DEF q, js2
        <5> QED BY <3>1, <4>1, <5>1, <5>2 DEF Lively, Alive, Storage
      <4>2. CASE k \notin Jobs
        <5>1. js2 = js
          BY <3>1, <4>2 DEF Storage
        <5> QED BY <3>1, <5>1
      <4> QED BY <4>1, <4>2
    <3>3. jobs' = js \/ jobs' = Drop(js2, n)
      BY <2>3
    <3> HIDE DEF js, js2
    <3> QED BY <3>1, <3>2, <3>3, DropLively, LivelyTransitive
  <2>4. ASSUME jobs' # Reap(jobs) PROVE Lively(jobs, jobs')
    <3>1. PICK r \in Subscribe(Reap(jobs), p, Default) :
          IF r.job = NoJob \/ c # Watcher
          THEN /\ jobs' = r.jobs /\ at' = [at EXCEPT ![c] = r.job]
               /\ Go(c, IF r.job = NoJob THEN "idle" ELSE "waiting")
               /\ UNCHANGED watchSubs
          ELSE LET owners == WatchOwners(p, r.job)
                   more   == Cardinality(owners \ watchSubs)
                   waits  == IF owners = {} THEN 0 ELSE 1
               IN  /\ watchSubs' = watchSubs \cup owners
                   /\ jobs' = Drop([r.jobs EXCEPT ![r.job].subs = @ + more,
                                                  ![r.job].waiters = @ + waits],
                                   Times(r.job, Lent))
                   /\ at' = [at EXCEPT ![c] = IF waits = 1 THEN r.job ELSE NoJob]
                   /\ Go(c, IF waits = 1 THEN "waiting" ELSE "idle")
      BY <1>7, <2>4, Zenon DEF CallIndex
    <3> DEFINE owners == WatchOwners(p, r.job)
               more   == Cardinality(owners \ watchSubs)
               waits  == IF owners = {} THEN 0 ELSE 1
               n == Times(r.job, Lent)
    <3>2. \/ jobs' = r.jobs
          \/ jobs' = Drop([r.jobs EXCEPT ![r.job].subs = @ + more,
                                         ![r.job].waiters = @ + waits], n)
      BY <3>1, Zenon
    <3> HIDE DEF more, waits, n
    <3> QED BY <2>3, <3>2
  <2> QED BY <2>2, <2>3, <2>4
<1> QED BY <1>3, <1>4, <1>5, <1>6, <1>7

\* Nobody new waits for room, and whoever does still has a waker.
LEMMA WakerStays ==
    ASSUME Waker, Lively(jobs, jobs'), retry' = retry, stopping => stopping',
           startFailures' = 0 => startFailures = 0,
           \A s \in Sessions : /\ ses'[s].pending => ses[s].pending
                               /\ ses'[s].status = "new" => ses[s].status = "new"
                               /\ Gone(ses[s]) => Gone(ses'[s])
    PROVE  Waker'
<1>1. Working(jobs) => Working(jobs')
  BY LivelyWorking
<1> QED BY <1>1 DEF Waker

\* A session's life does not begin twice, nor go on after its end.
Older == \A s \in Sessions : /\ ses'[s].status = "new" => ses[s].status = "new"
                             /\ Gone(ses[s]) => Gone(ses'[s])

LEMMA SameOlder == ASSUME Same(ses') PROVE Older
BY DEF Same, Older, Gone

LEMMA SessionOlder ==
    ASSUME OInv, NEW s \in Sessions,
           Open(s) \/ Submit(s) \/ Enter(s) \/ Complete(s) \/ CancelRequest(s)
    PROVE  Older
<1>1. ses \in [Sessions -> Session] /\ ses[s] \in Session
  BY DEF OInv, Owners
<1>2. CASE Open(s)
  <2>1. ses' = [ses EXCEPT ![s] = [ses[s] EXCEPT !.status = "open"]] /\ ses[s].status = "new"
    BY <1>2 DEF Open
  <2>2. [ses[s] EXCEPT !.status = "open"].status = "open"
    BY <1>1 DEF Session
  <2> QED BY <1>1, <2>1, <2>2 DEF Older, Gone
<1>3. CASE ~Open(s)
  <2>1. PICK r : (UNCHANGED ses \/ ses' = [ses EXCEPT ![s] = r]) /\ r.status = ses[s].status
    <3>1. CASE Submit(s)
      <4> DEFINE n == ses[s].request + 1
                 r == [ses[s] EXCEPT !.request = n]
      <4>1. ses' = [ses EXCEPT ![s] = r]
        BY <3>1 DEF Submit
      <4> HIDE DEF n
      <4>2. r.status = ses[s].status
        BY <1>1 DEF Session
      <4> QED BY <4>1, <4>2
    <3>2. CASE Enter(s)
      <4> DEFINE n == IF Hit(s) THEN ses[s].cancelToken ELSE 0
                 r == [ses[s] EXCEPT !.active = TRUE, !.cancelToken = n]
      <4>1. UNCHANGED ses \/ ses' = [ses EXCEPT ![s] = r]
        BY <3>2 DEF Enter
      <4> HIDE DEF n
      <4>2. r.status = ses[s].status
        BY <1>1 DEF Session
      <4> QED BY <4>1, <4>2
    <3>3. CASE Complete(s)
      <4> DEFINE n == IF Hit(s) THEN 0 ELSE ses[s].cancelToken
                 r == [ses[s] EXCEPT !.active = FALSE, !.init = FALSE, !.cancelToken = n]
      <4>1. ses' = [ses EXCEPT ![s] = r]
        BY <3>3 DEF Complete
      <4> HIDE DEF n
      <4>2. r.status = ses[s].status
        BY <1>1 DEF Session
      <4> QED BY <4>1, <4>2
    <3>4. CASE CancelRequest(s)
      BY <3>4, CancelEffect DEF Edited
    <3> QED BY <1>3, <3>1, <3>2, <3>3, <3>4
  <2> QED BY <1>1, <2>1 DEF Older, Gone
<1> QED BY <1>2, <1>3

LEMMA PublishWaker ==
    ASSUME OInv, Places, Waker, NEW j \in Jobs, Publish(j) PROVE Waker'
<1>1. PICK ss, js : /\ ss \in [Sessions -> Session]
                    /\ Disowned({s \in Sessions : ses[s].autoJob = j}, ss)
                    /\ Refresh({s \in Sessions : ses[s].autoJob = j}, jobs[j].project, js, ss)
                         \/ ses' = ss
                    /\ retry' = {s \in Sessions : /\ ses[s].pending /\ ~stopping
                                   /\ ss[s].autoJob = NoJob /\ ses[s].status = "open"}
  BY PublishEffect
<1>2. Links(ss, ses')
  <2>1. CASE ses' = ss
    BY <2>1 DEF Links
  <2>2. CASE ses' # ss
    BY <1>1, <2>2, RefreshLinks DEF Refresh
  <2> QED BY <2>1, <2>2
<1>3. Same(ses') /\ ses \in [Sessions -> Session] /\ UNCHANGED <<stopping, startFailures>>
  BY JobOwners DEF JobStep, JobThread, OInv, Owners, Publish, bounds
<1>4. ASSUME NEW s \in Sessions, ses'[s].pending
      PROVE  /\ ses[s].pending /\ ses[s].autoJob = NoJob /\ ss[s].autoJob = NoJob
             /\ ses'[s].status = ses[s].status
  BY <1>1, <1>2, <1>3, <1>4 DEF Links, Disowned, Same, Places, SessionPlace
<1>5. ASSUME NEW s \in Sessions \ retry', ses'[s].pending, ~Gone(ses'[s]) PROVE stopping
  <2>1. ses[s].status \in {"new", "open", "cancelled", "closed"}
    BY <1>3 DEF Session
  <2>2. ses[s].status = "open"
    BY <1>4, <1>5, <2>1 DEF Waker, Gone
  <2> QED BY <1>1, <1>4, <1>5, <2>2
<1> QED BY <1>3, <1>4, <1>5 DEF Waker

LEMMA FailedStart ==
    ASSUME Modest, NEW js, NEW p, NEW o, NEW r \in Subscribe(js, p, o), startFailures + r.failed = 0
    PROVE  startFailures = 0 /\ r.failed # 1
<1>1. Refuses(js, r) \/ Shares(js, p, r) \/ Creates(js, p, o, r)
  BY Subscribed
<1>2. r.failed \in {0, 1}
  BY <1>1 DEF Refuses, Shares, Creates
<1> QED BY <1>2, MixIs

LEMMA RetryWaker ==
    ASSUME IInv, OInv, Modest, Waker, Lively(jobs, jobs'), NEW s \in Sessions, Retry(s)
    PROVE  Waker'
<1>1. Same(ses') /\ UNCHANGED stopping /\ Storage(jobs) /\ ses \in [Sessions -> Session]
  BY RetryOwners DEF OInv, Owners, Retry, IInv, JobsInv
<1>2. CASE Home[s] \in db
  <2>1. PICK ss : Refresh({s}, Home[s], jobs, ss) /\ ss \in [Sessions -> Session] /\ Dequeued(s, ss)
    BY <1>2, RetryEffect
  <2>2. retry' = retry \ {s} /\ UNCHANGED startFailures
    BY <1>2 DEF Retry
  <2>3. Links(ss, ses')
    BY <2>1, RefreshLinks DEF Refresh
  <2>4. \A o \in Sessions : ses'[o].pending => ses[o].pending /\ o # s
    BY <2>1, <2>3 DEF Dequeued, Links
  <2>5. Working(jobs) => Working(jobs')
    BY LivelyWorking
  <2>6. \A o \in Sessions : ses'[o].pending => ses'[o].status # "new"
    BY <1>1, <2>4 DEF Waker, Same
  <2>7. \A o \in Sessions \ retry' : ses'[o].pending /\ ~Gone(ses'[o])
            => o \in Sessions \ retry /\ ses[o].pending /\ ~Gone(ses[o])
    BY <1>1, <2>2, <2>4 DEF Same, Gone
  <2> QED BY <1>1, <2>2, <2>5, <2>6, <2>7 DEF Waker
<1>3. CASE Home[s] \notin db
  <2>1. PICK x \in Subscribe(jobs, Home[s], Default) :
                    /\ jobs' = x.jobs /\ startFailures' = startFailures + x.failed
                    /\ \/ UNCHANGED ses
                       \/ \E r : ses' = [ses EXCEPT ![s] = r] /\ ~r.pending
    BY <1>3, RetryEffect
  <2>2. \A o \in Sessions : ses'[o].pending => ses[o].pending
    BY <1>1, <2>1
  <2>3. ~stopping' /\ startFailures' = 0 => Working(jobs')
    BY <1>1, <2>1, FailedStart, SubscribeWakes
  <2> QED BY <1>1, <2>2, <2>3 DEF Waker, Same
<1> QED BY <1>2, <1>3

LEMMA AutoWaker ==
    ASSUME IInv, OInv, TInv, Modest, Waker, Lively(jobs, jobs'), NEW s \in Sessions, AutoAdmit(s)
    PROVE  Waker'
<1>1. Same(ses') /\ UNCHANGED <<stopping, retry>> /\ Storage(jobs) /\ ses \in [Sessions -> Session]
  BY PassingSame DEF Passing, OInv, Owners, AutoAdmit, IInv, JobsInv
<1>2. ses[s].status # "new"
  BY DEF AutoAdmit, TInv, Told
<1>3. startFailures' = 0 => startFailures = 0
  <2>1. \/ UNCHANGED startFailures
        \/ \E x \in Subscribe(jobs, Home[s], Default) : startFailures' = startFailures + x.failed
    BY DEF AutoAdmit
  <2> QED BY <2>1, FailedStart
<1>4. ASSUME \A o \in Sessions : ses'[o].pending => ses[o].pending PROVE Waker'
  BY <1>1, <1>3, <1>4, SameOlder, WakerStays DEF Older
<1>5. ASSUME NEW r, ses' = [ses EXCEPT ![s] = r],
             NEW x \in Subscribe(jobs, Home[s], Default),
             jobs' = x.jobs, startFailures' = startFailures + x.failed
      PROVE  Waker'
  <2>1. ~stopping' /\ startFailures' = 0 => Working(jobs')
    BY <1>1, <1>5, FailedStart, SubscribeWakes
  <2>2. \A o \in Sessions : ses'[o].pending => ses'[o].status # "new"
    BY <1>1, <1>2, <1>5 DEF Waker, Same
  <2> QED BY <2>1, <2>2 DEF Waker
<1>6. \/ Links(ses, ses')
      \/ \E r : ses' = [ses EXCEPT ![s] = r] /\ ~r.pending
      \/ \E r : /\ ses' = [ses EXCEPT ![s] = r]
                /\ \E x \in Subscribe(jobs, Home[s], Default) :
                      jobs' = x.jobs /\ startFailures' = startFailures + x.failed
  BY AutoEffect
<1>7. CASE Links(ses, ses')
  BY <1>4, <1>7 DEF Links
<1>8. CASE \E r : ses' = [ses EXCEPT ![s] = r] /\ ~r.pending
  BY <1>1, <1>4, <1>8
<1> QED BY <1>5, <1>6, <1>7, <1>8

LEMMA NextWaker ==
    IInv /\ OInv /\ TInv /\ Places /\ Modest /\ Waker /\ [Next]_vars => Waker'
<1> SUFFICES ASSUME IInv, OInv, TInv, Places, Modest, Waker, [Next]_vars PROVE Waker'
  OBVIOUS
<1>1. CASE UNCHANGED vars
  BY <1>1 DEF Waker, vars
<1>2. CASE \E j \in Jobs : Publish(j)
  BY <1>2, PublishWaker
<1>3. CASE Next /\ \A j \in Jobs : ~Publish(j)
  <2> USE <1>3
  <2>1. Lively(jobs, jobs') /\ ses \in [Sessions -> Session]
    BY NextLively DEF OInv, Owners
  <2>2. ASSUME Older, \A s \in Sessions : ses'[s].pending => ses[s].pending,
               UNCHANGED retry, stopping => stopping', startFailures' = 0 => startFailures = 0
        PROVE  Waker'
    BY <2>1, <2>2, WakerStays DEF Older
  <2>3. ASSUME NEW s \in Sessions, Retry(s) PROVE Waker'
    BY <2>1, <2>3, RetryWaker
  <2>4. ASSUME NEW s \in Sessions, AutoAdmit(s) PROVE Waker'
    BY <2>1, <2>4, AutoWaker
  <2>5. ASSUME NEW s \in Sessions, Aloof(s), ~Admit(s) PROVE Waker'
    <3>1. UNCHANGED <<retry, stopping, startFailures>>
      BY <2>5 DEF Aloof, Open, Submit, Enter, Parked, RefreshWatch, Complete, Background,
         RefreshAgain, MutationStep, Reserve, Lock, Mutate, BeginRelease, EndRelease, MutFrame, bounds
    <3>2. Links(ses, ses')
      BY <2>5, AloofLinks
    <3>3. Older
      BY <2>5, PassingSame, SameOlder, SessionOlder DEF Aloof, Passing
    <3> QED BY <2>2, <3>1, <3>2, <3>3 DEF Links
  <2>6. ASSUME NEW s \in Sessions, Admit(s) PROVE Waker'
    <3>1. UNCHANGED <<ses, retry, stopping>>
      BY <2>6 DEF Admit
    <3>2. startFailures' = 0 => startFailures = 0
      BY <2>6, FailedStart DEF Admit
    <3> QED BY <2>2, <3>1, <3>2 DEF Older
  <2>7. ASSUME NEW s \in Sessions, Confirm(s) \/ Await(s) \/ CancelRequest(s) PROVE Waker'
    <3>1. UNCHANGED <<retry, stopping, startFailures>>
      BY <2>7 DEF Confirm, Await, CancelRequest, interrupted, bounds
    <3>2. PICK r : ses' = [ses EXCEPT ![s] = r] /\ r.pending = ses[s].pending
      BY <2>7, ConfirmEffect, AwaitEffect, CancelEffect DEF Edited
    <3>3. Older
      BY <2>7, PassingSame, SameOlder, SessionOlder DEF Passing
    <3> QED BY <2>1, <2>2, <3>1, <3>2, <3>3
  <2>8. ASSUME NEW s \in Sessions, CancelSession(s) \/ CloseSession(s) PROVE Waker'
    <3>1. UNCHANGED <<retry, startFailures>> /\ (stopping => stopping')
      <4>1. UNCHANGED <<retry, startFailures>>
        BY <2>8 DEF CancelSession, CloseSession, interrupted, bounds
      <4>2. stopping' = stopping \/ \E last : stopping' = (stopping \/ last)
        BY <2>8, Zenon DEF CancelSession, CloseSession
      <4>3. stopping => stopping'
        BY <4>2, Zenon
      <4> QED BY <4>1, <4>3
    <3>2. PICK r : ses' = [ses EXCEPT ![s] = r] /\ r.pending = ses[s].pending /\ Gone(r)
      BY <2>8, PartEffect
    <3>3. Older
      BY <2>1, <3>2 DEF Older, Gone
    <3> QED BY <2>1, <2>2, <3>1, <3>2, <3>3
  <2>9. ASSUME NEW s \in Sessions, Join(s) PROVE Waker'
    BY <2>2, <2>9 DEF Join, bounds, Older
  <2>10. ASSUME NEW j \in Jobs, JobStep(j) PROVE Waker'
    <3>1. UNCHANGED <<ses, retry, stopping, startFailures>>
      BY <2>10 DEF JobStep, JobThread, Gate, Attempt, Launch, Kill, Settle, WorkerEnds, JobFrame, bounds
    <3> QED BY <2>2, <3>1 DEF Older
  <2>11. ASSUME NEW c \in Callers, CallerStep(c) \/ \E p \in Projects : CallMutate(c, p) PROVE Waker'
    <3>1. UNCHANGED <<ses, retry, stopping, startFailures>>
      BY <2>11 DEF CallerStep, CallDone, CallMutate, MutationStep, Reserve, Lock, Mutate,
         BeginRelease, EndRelease, MutFrame, bounds
    <3> QED BY <2>2, <3>1 DEF Older
  <2>12. ASSUME NEW c \in Callers, NEW p \in Projects, CallIndex(c, p) PROVE Waker'
    <3>1. UNCHANGED <<ses, retry, stopping>>
      BY <2>12 DEF CallIndex
    <3>2. \/ UNCHANGED startFailures
          \/ \E r \in Subscribe(Reap(jobs), p, Default) : startFailures' = startFailures + r.failed
      BY <2>12, Zenon DEF CallIndex
    <3> QED BY <2>2, <3>1, <3>2, FailedStart DEF Older
  <2>13. CASE Pruned
    <3>1. UNCHANGED <<retry, stopping, startFailures>>
      BY <2>13 DEF Pruned, bounds
    <3> QED BY <2>2, <2>13, <3>1, PrunedLinks, OthersOwners, SameOlder DEF Links
  <2>14. CASE Shutdown
    <3>1. UNCHANGED <<retry, startFailures>> /\ stopping'
      BY <2>14 DEF Shutdown, bounds
    <3> QED BY <2>2, <2>14, <3>1, ShutdownEffect, OthersOwners, SameOlder DEF Disowned
  <2>15. CASE Drained
    BY <2>2, <2>15 DEF Drained, bounds, Older
  <2> QED BY <2>3, <2>4, <2>5, <2>6, <2>7, <2>8, <2>9, <2>10, <2>11, <2>12, <2>13, <2>14, <2>15
          DEF Next, RequestStep, Aloof
<1> QED BY <1>1, <1>2, <1>3

LEMMA InitWaker == Init => Waker
BY DEF Init, Waker

-----------------------------------------------------------------------------
(* What the books say.                                                     *)

\* A job whose count is zero is nobody's.
LEMMA Unclaimed ==
    ASSUME NEW ss, NEW x, NEW l, NEW j \in Jobs, Firm(ss, x, l)[j] = 0
    PROVE  /\ \A s \in Sessions : ss[s].activeJob # j /\ ss[s].autoJob # j
           /\ \A a \in Actors : x[a] = j => l[a] # "admitted" /\ a \notin Callers \ {Watcher}
<1>1. /\ Cardinality(Requesters(ss, j)) \in Nat /\ Cardinality(Autos(ss, j)) \in Nat
      /\ Cardinality(Threads(x, l, j)) \in Nat
      /\ IsFiniteSet(Requesters(ss, j)) /\ IsFiniteSet(Autos(ss, j)) /\ IsFiniteSet(Threads(x, l, j))
  BY FirmType
<1>2. Firm(ss, x, l)[j] = Cardinality(Requesters(ss, j)) + Cardinality(Autos(ss, j))
                                  + Cardinality(Threads(x, l, j))
  BY DEF Firm
<1>3. /\ Cardinality(Requesters(ss, j)) = 0 /\ Cardinality(Autos(ss, j)) = 0
      /\ Cardinality(Threads(x, l, j)) = 0
  BY <1>1, <1>2
<1>4. Requesters(ss, j) = {} /\ Autos(ss, j) = {} /\ Threads(x, l, j) = {}
  BY <1>1, <1>3, FS_EmptySet
<1> QED BY <1>4 DEF Requesters, Autos, Threads

LEMMA BooksCount ==
    ASSUME OInv, NEW j \in Jobs, Books
    PROVE  /\ jobs[j].subs = Cardinality(Requesters(ses, j)) + Cardinality(Autos(ses, j))
                    + Cardinality(Joiners(joining, j)) + Cardinality(Of(watchSubs, j))
                    + Cardinality(Threads(at, pc, j))
           /\ jobs[j].waiters = Waits(at)[j]
<1>1. /\ Firm(ses, at, pc)[j] = Cardinality(Requesters(ses, j)) + Cardinality(Autos(ses, j))
                                  + Cardinality(Threads(at, pc, j))
      /\ Loose(joining, watchSubs)[j] = Cardinality(Joiners(joining, j)) + Cardinality(Of(watchSubs, j))
  BY DEF Firm, Loose
<1>2. /\ Cardinality(Requesters(ses, j)) \in Nat /\ Cardinality(Autos(ses, j)) \in Nat
      /\ Cardinality(Threads(at, pc, j)) \in Nat
  BY FirmType
<1>3. /\ Loose(joining, watchSubs)[j] \in Nat /\ jobs[j].waiters = Waits(at)[j]
      /\ jobs[j].subs = Firm(ses, at, pc)[j] + Loose(joining, watchSubs)[j]
  BY DEF Books, Tally, Entry
<1>4. IsFiniteSet(Joiners(joining, j))
  BY FiniteActors, FS_Subset DEF Joiners
<1>5. Cardinality(Joiners(joining, j)) \in Nat
  BY <1>4, FS_CardinalityType
<1> DEFINE a == Cardinality(Requesters(ses, j))
           b == Cardinality(Autos(ses, j))
           c == Cardinality(Threads(at, pc, j))
           d == Cardinality(Joiners(joining, j))
           e == Cardinality(Of(watchSubs, j))
           f == Loose(joining, watchSubs)[j]
           n == jobs[j].subs
<1>6. /\ a \in Nat /\ b \in Nat /\ c \in Nat /\ d \in Nat /\ f \in Nat
      /\ f = d + e /\ n = (a + b + c) + f
  BY <1>1, <1>2, <1>3, <1>5
<1>7. e \in Nat
  BY LooseType DEF OInv, Owners
<1> HIDE DEF a, b, c, d, e, f, n
<1>8. n = a + b + d + e + c
  BY <1>6, <1>7
<1> QED BY <1>3, <1>8 DEF a, b, c, d, e, n

LEMMA BooksCounted == ASSUME OInv, Books PROVE SubsCounted
BY BooksCount DEF SubsCounted, Requesters, Autos, Joiners, Of, Threads, Waits

LEMMA BooksDemand == ASSUME IInv, OInv, Places, Books PROVE DemandDriven
<1> SUFFICES ASSUME ~stopping, NEW j \in Active(jobs)
             PROVE  IF jobs[j].cancel
                    THEN /\ \A s \in Sessions : ses[s].activeJob # j /\ ses[s].autoJob # j
                         /\ \A a \in Actors \ {Watcher} : at[a] = j => pc[a] = "waiting" /\ a \in Sessions
                    ELSE jobs[j].subs > 0
  BY DEF DemandDriven
<1>1. /\ j \in Jobs /\ Alive(jobs[j]) /\ NoJob \notin Jobs
      /\ IF jobs[j].cancel THEN Firm(ses, at, pc)[j] = 0 ELSE jobs[j].subs > 0
  BY NamesAssumption DEF Books, Tally, Entry, Active, Alive
<1>2. CASE ~jobs[j].cancel
  BY <1>1, <1>2
<1>3. CASE jobs[j].cancel
  <2>1. /\ \A s \in Sessions : ses[s].activeJob # j /\ ses[s].autoJob # j
        /\ \A a \in Actors : at[a] = j => pc[a] # "admitted" /\ a \notin Callers \ {Watcher}
    BY <1>1, <1>3, Unclaimed
  <2>2. \A a \in Actors \ {Watcher} : at[a] = j => a \in Sessions /\ pc[a] # "admitted"
    BY <2>1 DEF Actors
  <2>3. \A a \in Sessions : at[a] = j => pc[a] \in {"admitted", "waiting"}
    BY <1>1 DEF Places, SessionPlace
  <2>4. \A a \in Actors \ {Watcher} : at[a] = j => pc[a] = "waiting" /\ a \in Sessions
    BY <2>2, <2>3
  <2> QED BY <1>3, <2>1, <2>4
<1> QED BY <1>2, <1>3

LEMMA OwnersFinal == ASSUME OInv PROVE CancelledOwnsNothing
<1> SUFFICES ASSUME NEW s \in Sessions, Gone(ses[s])
             PROVE  Nothing(ses[s]) /\ \A x \in watchSubs : x[1] # s
  BY DEF CancelledOwnsNothing, Gone, Nothing
<1>1. Nothing(ses[s])
  BY DEF OInv, Owners
<1>2. \A x \in watchSubs : x[1] # s
  BY <1>1 DEF OInv, Owners, Nothing
<1> QED BY <1>1, <1>2

\* The whole inductive invariant.
Whole == IInv /\ OInv /\ TInv /\ Places /\ Modest /\ Books /\ Waker

LEMMA InitTold == Init => TInv
<1> SUFFICES ASSUME Init PROVE TInv
  OBVIOUS
<1>1. \A s \in Sessions : s \in Actors
  BY DEF Actors
<1> QED BY <1>1 DEF Init, TInv, Told, InTime

\* It holds at first and no critical section breaks it: what each actor holds, that
\* the counts in the jobs are those of the holders, and who will wake whom.
THEOREM WholeInvariance == Spec => []Whole
<1>1. Init => Whole
  BY InitInv, InitOwners, InitTold, InitPlaces, InitModest, InitBooks, InitWaker DEF Whole
<1>2. Whole /\ [Next]_vars => Whole'
  <2> SUFFICES ASSUME Whole, [Next]_vars PROVE Whole'
    OBVIOUS
  <2>1. IInv /\ OInv /\ TInv /\ Places /\ Modest /\ Books /\ Waker
    BY DEF Whole
  <2>2. IInv'
    BY <2>1, NextInv DEF Fine
  <2> QED BY <2>1, <2>2, NextOwners, NextTold, NextPlaces, NextModest, NextBooks, NextWaker DEF Whole
<1> QED BY <1>1, <1>2, PTL DEF Spec

\* At every point between two critical sections every job's count is the number of
\* its holders, no disconnected session is among them, only work without holders is
\* being cancelled, whoever waits for room has a waker, and writers are alone.
THEOREM JobsAreSound == Spec => []JobsSound
<1>1. Whole => JobsSound
  <2> SUFFICES ASSUME Whole PROVE JobsSound
    OBVIOUS
  <2>1. SubsCounted /\ CancelledOwnsNothing /\ DemandDriven /\ WriterAlone
    BY BooksCounted, BooksDemand, OwnersFinal DEF Whole, IInv
  <2>2. PendingHasWaker
    BY DEF Whole, Waker, PendingHasWaker, Working, Alive, Active, Gone
  <2> QED BY <2>1, <2>2 DEF JobsSound
<1> QED BY <1>1, WholeInvariance, PTL

\* Neither a request nor a job is cancelled unless somebody asked for that: the
\* request's client in time, or everybody who owned the job.
THEOREM CancellationsAreRight == Spec => []CancelledRightly
<1>1. Whole => CancelledRightly
  BY BooksDemand DEF Whole, TInv, Told, CancelIsExact, CancelledRightly
<1> QED BY <1>1, WholeInvariance, PTL

\* Every variable stays within its type: a job is a record of its storage, and the
\* bounded counters within the bounds of their mix.
THEOREM TypeCorrect == Spec => []TypeOK
<1>1. Whole => TypeOK
  <2> SUFFICES ASSUME Whole PROVE TypeOK
    OBVIOUS
  <2>1. jobs \in [Jobs -> Job]
    <3>1. jobs = [j \in Jobs |-> jobs[j]] /\ \A j \in Jobs : jobs[j] \in Job
      BY DEF Whole, Books, Tally, Entry
    <3> QED BY <3>1
  <2>2. /\ ses \in [Sessions -> Session] /\ watchSubs \subseteq Sessions \X Jobs
        /\ at \in [Actors -> Jobs \cup {NoJob}] /\ retry \subseteq Sessions
    BY DEF Whole, OInv, Owners
  <2>3. /\ muts \subseteq [owner : Actors, key : Keys, phase : {"reserved", "held", "releasing"}]
        /\ pc \in [Actors -> RequestPc] /\ todo \in [Actors -> Seq(Keys)]
        /\ want \in [Sessions -> [kind : Kinds \cup {"none"}, project : Projects, args : Options]]
    BY DEF Whole, IInv, ThreadsInv
  <2>4. joining \in [Sessions -> Jobs \cup {NoJob}]
    BY DEF Whole, Places
  <2>5. /\ db \subseteq Projects /\ stopping \in BOOLEAN
        /\ asked \in [Sessions -> BOOLEAN]
        /\ answer \in [Sessions -> {"none", "done", "cancelled", "refused"}]
        /\ shutdown \in {"no", "waiting", "drained"} /\ mix \in Mixes
        /\ calls \in 0..mix.calls /\ interrupts \in 0..mix.interrupts
        /\ startFailures \in 0..mix.startFailures
    BY DEF Whole, Modest
  <2> QED BY <2>1, <2>2, <2>3, <2>4, <2>5 DEF TypeOK
<1> QED BY <1>1, WholeInvariance, PTL

-----------------------------------------------------------------------------
(* Who owns what the watcher waits for.                                    *)

\* Sessions own a job through the watcher only while it waits for that job.
Pinned == \A x \in watchSubs : Watcher \in Callers /\ at[Watcher] = x[2]

\* A session that has not begun watches nothing and owns nothing.
Begun == \A s \in Sessions : ses[s].status = "new" => ~ses[s].watch /\ ses[s].autoJob = NoJob

\* An auto-index job is at work on its owner's project.
AutoHome == \A s \in Sessions : ses[s].autoJob # NoJob =>
    Alive(jobs[ses[s].autoJob]) /\ jobs[ses[s].autoJob].project = Home[s]

Watches == Pinned /\ Begun /\ AutoHome

\* The sessions watch what they did.
Sight(ss, ss2) == \A s \in Sessions : ss2[s].watch = ss[s].watch

\* Steps that touch a session, but not what it watches.
Blind(s) ==
    \/ Open(s) \/ Submit(s) \/ Enter(s) \/ Admit(s) \/ Parked(s) \/ Complete(s) \/ Background(s)
    \/ AutoAdmit(s) \/ MutationStep(s) \/ Confirm(s) \/ Await(s) \/ CancelRequest(s)

LEMMA BlindSight == ASSUME OInv, NEW s \in Sessions, Blind(s) PROVE Sight(ses, ses')
<1>1. ses \in [Sessions -> Session] /\ ses[s] \in Session
  BY DEF OInv, Owners
<1>2. ASSUME UNCHANGED ses PROVE Sight(ses, ses')
  BY <1>2 DEF Sight
<1>3. ASSUME NEW r, ses' = [ses EXCEPT ![s] = r], r.watch = ses[s].watch PROVE Sight(ses, ses')
  BY <1>1, <1>3 DEF Sight
<1>4. CASE Admit(s) \/ Parked(s) \/ MutationStep(s)
  BY <1>2, <1>4 DEF Admit, Parked, MutationStep, Reserve, Lock, Mutate, BeginRelease, EndRelease,
     MutFrame
<1>5. CASE Open(s)
  <2> DEFINE r == [ses[s] EXCEPT !.status = "open"]
  <2>1. ses' = [ses EXCEPT ![s] = r]
    BY <1>5 DEF Open
  <2>2. r.watch = ses[s].watch
    BY <1>1 DEF Session
  <2> HIDE DEF r
  <2> QED BY <1>3, <2>1, <2>2
<1>6. CASE Submit(s)
  <2> DEFINE n == ses[s].request + 1
             r == [ses[s] EXCEPT !.request = n]
  <2>1. ses' = [ses EXCEPT ![s] = r]
    BY <1>6 DEF Submit
  <2> HIDE DEF n
  <2>2. r.watch = ses[s].watch
    BY <1>1 DEF Session
  <2> HIDE DEF r
  <2> QED BY <1>3, <2>1, <2>2
<1>7. CASE Enter(s)
  <2> DEFINE n == IF Hit(s) THEN ses[s].cancelToken ELSE 0
             r == [ses[s] EXCEPT !.active = TRUE, !.cancelToken = n]
  <2>1. UNCHANGED ses \/ ses' = [ses EXCEPT ![s] = r]
    BY <1>7 DEF Enter
  <2> HIDE DEF n
  <2>2. r.watch = ses[s].watch
    BY <1>1 DEF Session
  <2> HIDE DEF r
  <2> QED BY <1>2, <1>3, <2>1, <2>2
<1>8. CASE Complete(s)
  <2> DEFINE n == IF Hit(s) THEN 0 ELSE ses[s].cancelToken
             r == [ses[s] EXCEPT !.active = FALSE, !.init = FALSE, !.cancelToken = n]
  <2>1. ses' = [ses EXCEPT ![s] = r]
    BY <1>8 DEF Complete
  <2> HIDE DEF n
  <2>2. r.watch = ses[s].watch
    BY <1>1 DEF Session
  <2> HIDE DEF r
  <2> QED BY <1>3, <2>1, <2>2
<1>9. CASE Background(s)
  <2> DEFINE b == AutoIndex /\ Home[s] \notin db
             r == [ses[s] EXCEPT !.needs = b]
  <2>1. ses' = [ses EXCEPT ![s] = r]
    BY <1>9 DEF Background
  <2> HIDE DEF b
  <2>2. r.watch = ses[s].watch
    BY <1>1 DEF Session
  <2> HIDE DEF r
  <2> QED BY <1>3, <2>1, <2>2
<1>10. CASE AutoAdmit(s)
  <2> DEFINE try == ses[s].autoJob = NoJob /\ (~ses[s].evaluated \/ ses[s].pending)
             ev == ses[s].evaluated \/ try
             pe == ses[s].pending /\ ~try
             q == [ses[s] EXCEPT !.eligible = TRUE, !.evaluated = ev, !.pending = pe]
             ready == [ses EXCEPT ![s].eligible = TRUE, ![s].evaluated = @ \/ try,
                                  ![s].pending = @ /\ ~try]
  <2>1. \/ UNCHANGED ses \/ ses' = ready
        \/ \E x, b : ses' = [ready EXCEPT ![s].autoJob = x, ![s].pending = b]
    BY <1>10, Zenon DEF AutoAdmit
  <2>2. ready = [ses EXCEPT ![s] = q]
    BY <1>1
  <2> HIDE DEF ready, try, ev, pe
  <2>3. q.watch = ses[s].watch
    BY <1>1 DEF Session
  <2>4. ASSUME NEW x, NEW b, ses' = [ready EXCEPT ![s].autoJob = x, ![s].pending = b]
        PROVE  Sight(ses, ses')
    <3> DEFINE t == [q EXCEPT !.autoJob = x, !.pending = b]
    <3>1. ses' = [ses EXCEPT ![s] = t]
      BY <1>1, <2>2, <2>4
    <3>2. t.watch = q.watch
      BY <1>1 DEF Session
    <3> HIDE DEF t, q
    <3> QED BY <1>3, <2>3, <3>1, <3>2
  <2> HIDE DEF q
  <2> QED BY <1>2, <1>3, <2>1, <2>2, <2>3, <2>4
<1>11. CASE Confirm(s)
  <2> DEFINE r == [ses[s] EXCEPT !.activeJob = at[s]]
  <2>1. UNCHANGED ses \/ ses' = [ses EXCEPT ![s] = r]
    BY <1>11 DEF Confirm, Confirmed
  <2>2. r.watch = ses[s].watch
    BY <1>1 DEF Session
  <2> HIDE DEF r
  <2> QED BY <1>2, <1>3, <2>1, <2>2
<1>12. CASE Await(s)
  <2> DEFINE r == [ses[s] EXCEPT !.activeJob = NoJob]
  <2>1. UNCHANGED ses \/ ses' = [ses EXCEPT ![s] = r]
    BY <1>12 DEF Await
  <2>2. r.watch = ses[s].watch
    BY <1>1 DEF Session
  <2> HIDE DEF r
  <2> QED BY <1>2, <1>3, <2>1, <2>2
<1>13. CASE CancelRequest(s)
  <2> DEFINE j == IF ses[s].active /\ ses[s].activeJob # NoJob THEN NoJob ELSE ses[s].activeJob
             r == [ses[s] EXCEPT !.cancelToken = ses[s].request, !.activeJob = j]
  <2>1. ses' = [ses EXCEPT ![s] = r]
    BY <1>1, <1>13 DEF CancelRequest
  <2> HIDE DEF j
  <2>2. r.watch = ses[s].watch
    BY <1>1 DEF Session
  <2> HIDE DEF r
  <2> QED BY <1>3, <2>1, <2>2
<1> QED BY <1>4, <1>5, <1>6, <1>7, <1>8, <1>9, <1>10, <1>11, <1>12, <1>13 DEF Blind

\* What the watcher waits for is counted, and nothing else.
Waited(j) == Watcher \in Callers /\ at[Watcher] = j

LEMMA BooksWaits ==
    ASSUME OInv, Books, NEW j \in Jobs
    PROVE  jobs[j].waiters > 0 <=> Waited(j)
<1> DEFINE W == {c \in Callers \cap {Watcher} : at[c] = j}
<1>1. jobs[j].waiters = Cardinality(W) /\ Cardinality(W) \in Nat /\ IsFiniteSet(W)
  BY BooksCount, WaitsType DEF Waits
<1>2. W = {} <=> ~Waited(j)
  BY DEF Waited
<1>3. Cardinality(W) = 0 <=> W = {}
  BY <1>1, FS_EmptySet
<1> HIDE DEF W
<1> QED BY <1>1, <1>2, <1>3

Awaited == \A j \in Jobs : jobs[j].waiters > 0 => Waited(j)

LEMMA WaitedCount == ASSUME NEW j \in Jobs, Waited(j) PROVE Waits(at)[j] # 0
<1> DEFINE W == {c \in Callers \cap {Watcher} : at[c] = j}
<1>1. Waits(at)[j] = Cardinality(W) /\ IsFiniteSet(W)
  BY WaitsType DEF Waits
<1>2. W # {}
  BY DEF Waited
<1> HIDE DEF W
<1> QED BY <1>1, <1>2, FS_EmptySet

\* An admission does not give away a job that is waited for.
LEMMA SubscribeEndures ==
    ASSUME NEW js, NEW f, NEW l, NEW w, NEW st, Tally(js, f, l, w, st),
           NEW p, NEW o, NEW r \in Subscribe(js, p, o), NEW j \in Jobs, w[j] # 0, Alive(r.jobs[j])
    PROVE  Alive(js[j]) /\ r.jobs[j].project = js[j].project
<1>1. Refuses(js, r) \/ Shares(js, p, r) \/ Creates(js, p, o, r)
  BY Subscribed
<1>2. CASE Refuses(js, r)
  BY <1>2 DEF Refuses
<1>3. js[j].phase # "free" /\ js[j] \in Job /\ js = [i \in Jobs |-> js[i]]
  BY DEF Tally, Entry
<1>4. CASE Shares(js, p, r)
  <2> DEFINE n == js[r.job].subs + 1
             q == [js[r.job] EXCEPT !.subs = n]
  <2>1. r.job \in Jobs /\ r.jobs = [js EXCEPT ![r.job] = q]
    BY <1>3, <1>4 DEF Shares
  <2>2. j # r.job => r.jobs[j] = js[j]
    BY <1>3, <2>1
  <2>3. ASSUME j = r.job PROVE r.jobs[j] = q
    BY <1>3, <2>1, <2>3
  <2> HIDE DEF n
  <2>4. j = r.job => q.phase = js[j].phase /\ q.project = js[j].project
    BY <1>3 DEF Job
  <2> HIDE DEF q
  <2> QED BY <2>2, <2>3, <2>4 DEF Alive
<1>5. CASE Creates(js, p, o, r)
  <2>1. j # r.job
    BY <1>3, <1>5 DEF Creates
  <2> QED BY <1>3, <1>5, <2>1 DEF Creates, Created
<1> QED BY <1>1, <1>2, <1>4, <1>5

\* A job that is waited for and at work was at work, on the same project.
LEMMA Endures ==
    ASSUME IInv, OInv, Places, Books, Next, NEW j \in Jobs, Waited(j), Alive(jobs'[j])
    PROVE  Alive(jobs[j]) /\ jobs'[j].project = jobs[j].project
<1>1. Storage(jobs) /\ Waits(at)[j] # 0
  BY WaitedCount DEF IInv, JobsInv
<1>2. ASSUME NEW js, Kept(js, jobs') PROVE Alive(js[j]) /\ jobs'[j].project = js[j].project
  BY <1>2 DEF Kept, Alive
<1>3. CASE /\ \A i \in Jobs : ~JobStep(i)
           /\ \A s \in Sessions : ~Admit(s) /\ ~AutoAdmit(s) /\ (Retry(s) => Home[s] \in db)
           /\ \A c \in Callers, p \in Projects : ~CallIndex(c, p)
  BY <1>2, <1>3, NextKept
<1>4. ASSUME NEW js, js = jobs \/ js = Reap(jobs), NEW p, NEW o,
             NEW r \in Subscribe(js, p, o), jobs' = r.jobs
      PROVE  Alive(jobs[j]) /\ jobs'[j].project = jobs[j].project
  <2>1. Tally(js, Firm(ses, at, pc), Loose(joining, watchSubs), Waits(at), stopping)
    BY <1>4, TallyReap DEF Books
  <2>2. Alive(js[j]) /\ jobs'[j].project = js[j].project
    BY <1>1, <1>4, <2>1, SubscribeEndures
  <2>3. Kept(jobs, js)
    BY <1>1, <1>4, ReapKept, KeptReflexive
  <2> QED BY <2>2, <2>3 DEF Kept, Alive
<1>5. ASSUME NEW s \in Sessions, Retry(s), Home[s] \notin db
      PROVE  Alive(jobs[j]) /\ jobs'[j].project = jobs[j].project
  <2>1. \E r \in Subscribe(jobs, Home[s], Default) : jobs' = r.jobs
    BY <1>5 DEF Retry
  <2> QED BY <1>4, <2>1
<1>6. ASSUME NEW s \in Sessions, Admit(s) \/ AutoAdmit(s)
      PROVE  Alive(jobs[j]) /\ jobs'[j].project = jobs[j].project
  <2>1. PICK js \in {jobs, Reap(jobs)} :
           UNCHANGED jobs \/ \E p, o : \E r \in Subscribe(js, p, o) : jobs' = r.jobs
    <3>1. CASE Admit(s)
      BY ONLY <3>1 DEF Admit
    <3>2. CASE AutoAdmit(s)
      BY ONLY <3>2 DEF AutoAdmit
    <3> QED BY ONLY <1>6, <3>1, <3>2
  <2> QED BY <1>4, <2>1
<1>7. ASSUME NEW c \in Callers, NEW p \in Projects, CallIndex(c, p)
      PROVE  Alive(jobs[j]) /\ jobs'[j].project = jobs[j].project
  <2>1. c # Watcher
    BY <1>7, NamesAssumption DEF CallIndex, Places, CallerPlace, Waited
  <2>2. \E r \in Subscribe(Reap(jobs), p, Default) : jobs' = r.jobs
    BY <1>7, <2>1 DEF CallIndex
  <2> QED BY <1>4, <2>2
<1>8. ASSUME NEW i \in Jobs, JobStep(i), ~Publish(i)
      PROVE  Alive(jobs[j]) /\ jobs'[j].project = jobs[j].project
  <2>1. PICK r : Progress(i, r)
    BY <1>8, JobMoves DEF IInv, JobStep, JobThread
  <2> QED BY <1>1, <2>1 DEF Progress, Alive, Storage
<1>9. ASSUME NEW i \in Jobs, Publish(i)
      PROVE  Alive(jobs[j]) /\ jobs'[j].project = jobs[j].project
  <2> DEFINE q == [jobs[i] EXCEPT !.phase = "terminal"]
             base == [jobs EXCEPT ![i] = q]
             n == Times(i, Cardinality({s \in Sessions : ses[s].autoJob = i}))
             js == Drop([jobs EXCEPT ![i].phase = "terminal"], n)
  <2>1. jobs' = js \/ \E S, p, ss : jobs' = Refreshed(S, p, js, ss).jobs
    <3>1. \/ jobs' = js
          \/ \E S, p, ss : Refresh(S, p, js, ss)
      BY <1>9, Zenon DEF Publish
    <3> HIDE DEF js
    <3> QED BY <3>1 DEF Refresh
  <2>2. base = [jobs EXCEPT ![i].phase = "terminal"]
    BY <1>1 DEF Storage
  <2>3. IsJob(q) /\ q.phase = "terminal"
    BY <1>1 DEF Storage, IsJob
  <2> HIDE DEF q
  <2>4. Storage(base) /\ base[i] = q /\ (j # i => base[j] = jobs[j])
    BY <1>1, <2>3 DEF Storage
  <2> HIDE DEF base, n
  <2>5. Kept(base, jobs')
    <3>1. Kept(base, js) /\ Storage(js)
      <4>1. js = Drop(base, n)
        BY <2>2
      <4>2. Kept(base, Drop(base, n))
        BY <2>4, DropKept
      <4> HIDE DEF js
      <4> QED BY <4>1, <4>2 DEF Kept
    <3> HIDE DEF js
    <3> QED BY <2>1, <3>1, RefreshedKept, KeptTransitive
  <2>6. Alive(base[j]) /\ jobs'[j].project = base[j].project
    BY <1>2, <2>5
  <2> QED BY <2>3, <2>4, <2>6 DEF Alive
<1> QED BY <1>3, <1>5, <1>6, <1>7, <1>8, <1>9

\* A job's owners through the watcher are the sessions that watch project p.
Tied(ws, ss, j, p) == \A s \in Sessions : <<s, j>> \in ws <=> ss[s].watch /\ Home[s] = p

LEMMA TiedIs ==
    ASSUME NEW ws, ws \subseteq Sessions \X Jobs, NEW ss, NEW j \in Jobs, NEW p
    PROVE  {x[1] : x \in {y \in ws : y[2] = j}} = Watching(ss, p) <=> Tied(ws, ss, j, p)
<1> DEFINE T == {x[1] : x \in {y \in ws : y[2] = j}}
<1>1. \A s : s \in T <=> s \in Sessions /\ <<s, j>> \in ws
  <2>1. ASSUME NEW s \in T PROVE s \in Sessions /\ <<s, j>> \in ws
    <3>1. PICK x \in ws : x[2] = j /\ s = x[1]
      OBVIOUS
    <3>2. x = <<x[1], x[2]>> /\ x[1] \in Sessions
      BY <3>1
    <3> QED BY <3>1, <3>2
  <2>2. ASSUME NEW s \in Sessions, <<s, j>> \in ws PROVE s \in T
    <3>1. <<s, j>>[1] = s /\ <<s, j>>[2] = j
      OBVIOUS
    <3> QED BY <2>2, <3>1
  <2> HIDE DEF T
  <2> QED BY <2>1, <2>2
<1> HIDE DEF T
<1>2. \A s : s \in Watching(ss, p) <=> s \in Sessions /\ ss[s].watch /\ Home[s] = p
  BY DEF Watching
<1>3. T \subseteq Sessions /\ Watching(ss, p) \subseteq Sessions
  BY <1>1, <1>2
<1>4. T = Watching(ss, p) => Tied(ws, ss, j, p)
  BY <1>1, <1>2, Zenon DEF Tied
<1>5. Tied(ws, ss, j, p) => T = Watching(ss, p)
  BY <1>1, <1>2, <1>3 DEF Tied
<1> QED BY <1>4, <1>5 DEF T

LEMMA AttachedIs ==
    ASSUME OInv, NEW j \in Jobs PROVE Attached(j) <=> Tied(watchSubs, ses, j, jobs[j].project)
BY TiedIs DEF Attached, OInv, Owners

\* A refresh of a project's watches leaves those who watch it as the owners of what
\* the watcher waits for, unless nobody watches.
LEMMA RefreshTies ==
    ASSUME watchSubs \subseteq Sessions \X Jobs,
           NEW S, NEW p, NEW js, NEW ss, ss \in [Sessions -> Session],
           \A s \in S : s \in Sessions /\ Home[s] = p, Refresh(S, p, js, ss),
           NEW j \in Jobs, Alive(js[j]), js[j].waiters > 0,
           Tied(watchSubs, ss, j, js[j].project),
           \E s \in Sessions : ss[s].watch /\ Home[s] = js[j].project
    PROVE  Tied(watchSubs', ses', j, js[j].project)
<1> DEFINE able == {s \in S : ss[s].autoJob = NoJob /\ ~stopping /\ ~Cancelled(s)}
           gone == Watching(ss, p)
           new  == {s \in able : ~ss[s].watch}
           late == IF gone = {} THEN {} ELSE UNION {Late(js, s, p) : s \in new}
           off(s) == ss[s].watch /\ s \notin gone
           on(s)  == ss[s].watch \/ s \in new
           q == js[j].project
<1>1. \/ ses' = ss /\ watchSubs' = watchSubs
      \/ /\ ses' = [s \in Sessions |-> [ss[s] EXCEPT !.watch = off(s)]]
         /\ watchSubs' = {x \in watchSubs : x[1] \notin gone}
      \/ /\ ses' = [s \in Sessions |-> [ss[s] EXCEPT !.watch = on(s)]]
         /\ watchSubs' = watchSubs \cup late
  BY DEF Refresh, Refreshed
<1>2. \A s \in Sessions : ss[s] \in Session
  OBVIOUS
<1>3. CASE ses' = ss /\ watchSubs' = watchSubs
  BY <1>3
<1>4. ASSUME ses' = [s \in Sessions |-> [ss[s] EXCEPT !.watch = off(s)]],
             watchSubs' = {x \in watchSubs : x[1] \notin gone}, NEW s \in Sessions
      PROVE  <<s, j>> \in watchSubs' <=> ses'[s].watch /\ Home[s] = q
  <2>1. ses'[s].watch = off(s)
    <3> HIDE DEF off
    <3> QED BY <1>2, <1>4 DEF Session
  <2>2. <<s, j>> \in watchSubs' <=> <<s, j>> \in watchSubs /\ s \notin gone
    <3>1. <<s, j>>[1] = s
      OBVIOUS
    <3> HIDE DEF gone
    <3> QED BY <1>4, <3>1
  <2>3. <<s, j>> \in watchSubs <=> ss[s].watch /\ Home[s] = q
    BY DEF Tied
  <2> HIDE DEF gone, q
  <2> QED BY <2>1, <2>2, <2>3
<1>5. ASSUME ses' = [s \in Sessions |-> [ss[s] EXCEPT !.watch = on(s)]],
             watchSubs' = watchSubs \cup late, NEW s \in Sessions
      PROVE  <<s, j>> \in watchSubs' <=> ses'[s].watch /\ Home[s] = q
  <2>1. ses'[s].watch = on(s)
    <3> HIDE DEF on
    <3> QED BY <1>2, <1>5 DEF Session
  <2>2. <<s, j>> \in watchSubs <=> ss[s].watch /\ Home[s] = q
    BY DEF Tied
  <2>3. s \in new => Home[s] = p
    OBVIOUS
  <2>4. <<s, j>> \in late => s \in new /\ q = p
    <3>1. ASSUME <<s, j>> \in late PROVE \E o \in new : <<s, j>> \in Late(js, o, p)
      <4> HIDE DEF new
      <4> QED BY <3>1
    <3>2. ASSUME NEW o, <<s, j>> \in Late(js, o, p) PROVE s = o /\ q = p
      BY <3>2 DEF Late
    <3> HIDE DEF late, new
    <3> QED BY <3>1, <3>2
  <2>5. s \in new /\ q = p => <<s, j>> \in late \cup watchSubs
    <3>1. ASSUME q = p PROVE gone # {}
      BY <3>1 DEF Watching
    <3>2. ASSUME q = p PROVE <<s, j>> \in Late(js, s, p) \cup watchSubs
      BY <3>2 DEF Late, Active, Alive
    <3> HIDE DEF gone, new, q
    <3> QED BY <3>1, <3>2
  <2> HIDE DEF late, new, q
  <2> QED BY <1>5, <2>1, <2>2, <2>3, <2>4, <2>5
<1> HIDE DEF gone, late, off, on, q
<1>6. CASE /\ ses' = [s \in Sessions |-> [ss[s] EXCEPT !.watch = off(s)]]
           /\ watchSubs' = {x \in watchSubs : x[1] \notin gone}
  <2>1. Tied(watchSubs', ses', j, q)
    BY <1>4, <1>6 DEF Tied
  <2> QED BY <2>1 DEF q
<1>7. CASE /\ ses' = [s \in Sessions |-> [ss[s] EXCEPT !.watch = on(s)]]
           /\ watchSubs' = watchSubs \cup late
  <2>1. Tied(watchSubs', ses', j, q)
    BY <1>5, <1>7 DEF Tied
  <2> QED BY <2>1 DEF q
<1> QED BY <1>1, <1>3, <1>6, <1>7

\* Whoever watches and owns before a step does so after it.
Retied(j) ==
    LET p == jobs[j].project
    IN  /\ Waited(j) /\ Waited(j)' /\ Alive(jobs[j]) /\ Alive(jobs'[j]) /\ jobs[j].waiters > 0
        /\ Tied(watchSubs, ses, j, p) /\ \E s \in Sessions : ses[s].watch /\ Home[s] = p
        => Tied(watchSubs', ses', j, p)

LEMMA RetiedPlain ==
    ASSUME UNCHANGED watchSubs, Sight(ses, ses'), NEW j PROVE Retied(j)
BY DEF Retied, Tied, Sight

LEMMA RetiedRefresh ==
    ASSUME OInv, NEW S, NEW p, NEW js, NEW ss, ss \in [Sessions -> Session], Sight(ses, ss),
           \A s \in S : s \in Sessions /\ Home[s] = p, Refresh(S, p, js, ss), NEW j \in Jobs,
           \/ Alive(js[j]) /\ js[j].project = jobs[j].project /\ js[j].waiters = jobs[j].waiters
           \/ ~Alive(jobs'[j]) \/ ~Alive(jobs[j])
    PROVE  Retied(j)
<1> SUFFICES ASSUME Alive(jobs[j]), Alive(jobs'[j]), jobs[j].waiters > 0,
                    Tied(watchSubs, ses, j, jobs[j].project),
                    \E s \in Sessions : ses[s].watch /\ Home[s] = jobs[j].project
             PROVE  Tied(watchSubs', ses', j, jobs[j].project)
  BY DEF Retied
<1>1. Alive(js[j]) /\ js[j].project = jobs[j].project /\ js[j].waiters > 0
  OBVIOUS
<1>2. Tied(watchSubs, ss, j, js[j].project)
  BY <1>1 DEF Tied, Sight
<1>3. \E s \in Sessions : ss[s].watch /\ Home[s] = js[j].project
  BY <1>1 DEF Sight
<1>4. watchSubs \subseteq Sessions \X Jobs
  BY DEF OInv, Owners
<1> QED BY <1>1, <1>2, <1>3, <1>4, RefreshTies

LEMMA NextRetied ==
    ASSUME IInv, OInv, Places, AutoHome, Next, NEW j \in Jobs PROVE Retied(j)
<1>1. ses \in [Sessions -> Session] /\ watchSubs \subseteq Sessions \X Jobs
      /\ \A x \in watchSubs : ses[x[1]].watch
  BY DEF OInv, Owners
<1>2. ASSUME NEW s \in Sessions, Blind(s) PROVE Retied(j)
  <2>1. UNCHANGED watchSubs
    BY <1>2 DEF Blind, Open, Submit, Enter, Admit, Parked, Complete, Background, AutoAdmit,
       MutationStep, Reserve, Lock, Mutate, BeginRelease, EndRelease, MutFrame, Confirm, Await,
       CancelRequest
  <2> QED BY <1>2, <2>1, BlindSight, RetiedPlain
<1>3. ASSUME NEW s \in Sessions, RefreshWatch(s) \/ RefreshAgain(s) PROVE Retied(j)
  <2> DEFINE i == ses[s].init \/ want[s].kind = "initialize"
             r == [ses[s] EXCEPT !.init = i]
             ss == [ses EXCEPT ![s] = r]
  <2>1. Refresh({s}, Home[s], jobs, ss) \/ Refresh({s}, Home[s], jobs, ses)
    BY <1>1, <1>3 DEF RefreshWatch, RefreshAgain
  <2>2. i \in BOOLEAN
    BY <1>1 DEF Session
  <2> HIDE DEF i
  <2>3. r \in Session /\ r.watch = ses[s].watch
    BY <1>1, <2>2 DEF Session
  <2> HIDE DEF r
  <2>4. ss \in [Sessions -> Session] /\ Sight(ses, ss) /\ Sight(ses, ses)
    BY <1>1, <2>3 DEF Sight
  <2> HIDE DEF ss
  <2> QED BY <1>1, <2>1, <2>4, RetiedRefresh
<1>4. ASSUME NEW s \in Sessions, Retry(s) PROVE Retied(j)
  <2>1. CASE Home[s] \in db
    <3>1. PICK ss : /\ Refresh({s}, Home[s], jobs, ss) /\ ss \in [Sessions -> Session]
                    /\ Dequeued(s, ss)
      BY <1>4, <2>1, RetryEffect
    <3>2. Sight(ses, ss)
      BY <3>1 DEF Dequeued, Sight
    <3> QED BY <3>1, <3>2, RetiedRefresh
  <2>2. CASE Home[s] \notin db
    <3>1. PICK x \in Subscribe(jobs, Home[s], Default) :
            ses' = IF x.job = NoJob THEN ses
                   ELSE [ses EXCEPT ![s].autoJob = x.job, ![s].pending = FALSE]
      BY <1>4, <2>2 DEF Retry
    <3> DEFINE k == x.job
               r == [ses[s] EXCEPT !.autoJob = k, !.pending = FALSE]
    <3>2. UNCHANGED ses \/ ses' = [ses EXCEPT ![s] = r]
      BY <1>1, <3>1
    <3> HIDE DEF k
    <3>3. r.watch = ses[s].watch
      BY <1>1 DEF Session
    <3> HIDE DEF r
    <3>4. Sight(ses, ses')
      BY <1>1, <3>2, <3>3 DEF Sight
    <3>5. UNCHANGED watchSubs
      BY <1>4, <2>2 DEF Retry
    <3> QED BY <3>4, <3>5, RetiedPlain
  <2> QED BY <2>1, <2>2
<1>5. ASSUME NEW i \in Jobs, Publish(i) PROVE Retied(j)
  <2> DEFINE S == {s \in Sessions : ses[s].autoJob = i}
             n == Times(i, Cardinality(S))
             q == [jobs[i] EXCEPT !.phase = "terminal"]
             base == [jobs EXCEPT ![i] = q]
             js == Drop([jobs EXCEPT ![i].phase = "terminal"], n)
  <2>1. PICK ss : /\ ss \in [Sessions -> Session] /\ Disowned(S, ss)
                  /\ \/ Refresh(S, jobs[i].project, js, ss)
                     \/ jobs' = js /\ ses' = ss /\ UNCHANGED watchSubs
    BY <1>5, PublishEffect
  <2>2. Sight(ses, ss)
    BY <2>1 DEF Disowned, Sight
  <2>3. base = [jobs EXCEPT ![i].phase = "terminal"] /\ Storage(jobs)
    BY DEF Storage, IInv, JobsInv
  <2>4. IsJob(q) /\ q.phase = "terminal"
    BY <2>3 DEF Storage, IsJob
  <2> HIDE DEF q
  <2>5. Storage(base) /\ base[i] = q /\ (j # i => base[j] = jobs[j])
    BY <2>3, <2>4 DEF Storage
  <2>6. js = Drop(base, n)
    BY <2>3
  <2> HIDE DEF base, js, n
  <2>7. Kept(base, js) /\ js[j].waiters = base[j].waiters
    <3>1. Drop(base, n)[j].waiters = base[j].waiters
      BY <2>5 DEF Storage, Drop, IsJob
    <3> QED BY <2>5, <2>6, <3>1, DropKept
  <2>8. CASE Refresh(S, jobs[i].project, js, ss)
    <3>1. Kept(js, jobs')
      BY <2>7, <2>8, RefreshedKept DEF Refresh, Kept
    <3>2. CASE j = i
      <4>1. ~Alive(jobs'[j])
        BY <2>4, <2>5, <2>7, <3>1, <3>2 DEF Kept, Alive
      <4>2. \A s \in S : s \in Sessions /\ Home[s] = jobs[i].project
        BY NamesAssumption DEF AutoHome
      <4> QED BY <2>1, <2>2, <2>8, <4>1, <4>2, RetiedRefresh
    <3>3. CASE j # i
      <4>1. \/ Alive(js[j]) /\ js[j].project = jobs[j].project /\ js[j].waiters = jobs[j].waiters
            \/ ~Alive(jobs[j])
        BY <2>5, <2>7, <3>3 DEF Kept, Alive
      <4>2. \A s \in S : s \in Sessions /\ Home[s] = jobs[i].project
        BY NamesAssumption DEF AutoHome
      <4> QED BY <2>1, <2>2, <2>8, <4>1, <4>2, RetiedRefresh
    <3> QED BY <3>2, <3>3
  <2>9. CASE ses' = ss /\ UNCHANGED watchSubs
    BY <2>2, <2>9, RetiedPlain
  <2> QED BY <2>1, <2>8, <2>9
<1>6. ASSUME NEW s \in Sessions, CancelSession(s) \/ CloseSession(s) PROVE Retied(j)
  <2>1. /\ ses' \in [Sessions -> Session] /\ ~ses'[s].watch
        /\ \A o \in Sessions \ {s} : ses'[o] = ses[o]
    <3>1. PICK r : ses' = [ses EXCEPT ![s] = r] /\ Gone(r)
      BY <1>6, PartEffect
    <3>2. Owners(ses', watchSubs')
      BY <1>6, PartOwners
    <3> QED BY <1>1, <3>1, <3>2 DEF Owners, Nothing
  <2>2. watchSubs' = IF ses[s].watch THEN {x \in watchSubs : x[1] # s} ELSE watchSubs
    BY <1>6 DEF CancelSession, CloseSession, Release
  <2>3. \A o \in Sessions : <<o, j>> \in watchSubs' <=> <<o, j>> \in watchSubs /\ o # s
    <3>1. \A o \in Sessions : <<o, j>>[1] = o
      OBVIOUS
    <3> QED BY <1>1, <2>2, <3>1
  <2> QED BY <2>1, <2>3 DEF Retied, Tied
<1>7. ASSUME NEW s \in Sessions, Join(s) PROVE Retied(j)
  BY <1>7, RetiedPlain DEF Join, Sight
<1>8. ASSUME NEW i \in Jobs, JobStep(i), ~Publish(i) PROVE Retied(j)
  <2>1. UNCHANGED <<ses, watchSubs>>
    BY <1>8 DEF JobStep, JobThread, Gate, Attempt, Launch, Kill, Settle, WorkerEnds, JobFrame
  <2> QED BY <2>1, RetiedPlain DEF Sight
<1>9. ASSUME NEW c \in Callers, CallerStep(c) \/ \E p \in Projects : CallMutate(c, p)
      PROVE  Retied(j)
  <2>1. CASE CallDone(c) /\ c = Watcher
    <3>1. ~Waited(j)'
      BY <2>1, NamesAssumption DEF CallDone, Waited, OInv, Actors
    <3> QED BY <3>1 DEF Retied
  <2>2. CASE ~(CallDone(c) /\ c = Watcher)
    <3>1. UNCHANGED <<ses, watchSubs>>
      BY <1>9, <2>2 DEF CallerStep, CallDone, CallMutate, MutationStep, Reserve, Lock, Mutate,
         BeginRelease, EndRelease, MutFrame
    <3> QED BY <3>1, RetiedPlain DEF Sight
  <2> QED BY <2>1, <2>2
<1>10. ASSUME NEW c \in Callers, NEW p \in Projects, CallIndex(c, p) PROVE Retied(j)
  <2>1. CASE c = Watcher
    <3>1. ~Waited(j)
      BY <1>10, <2>1, NamesAssumption DEF CallIndex, Waited, Places, CallerPlace
    <3> QED BY <3>1 DEF Retied
  <2>2. CASE c # Watcher
    <3>1. UNCHANGED <<ses, watchSubs>>
      BY <1>10, <2>2 DEF CallIndex
    <3> QED BY <3>1, RetiedPlain DEF Sight
  <2> QED BY <2>1, <2>2
<1>11. CASE Pruned
  <2> DEFINE gone == UNION {Watching(ses, m.key) : m \in Own(Watcher)}
             off(s) == ses[s].watch /\ s \notin gone
             p == jobs[j].project
  <2>1. /\ ses' = [s \in Sessions |-> [ses[s] EXCEPT !.watch = off(s)]]
        /\ watchSubs' = {x \in watchSubs : x[1] \notin gone}
    BY <1>11 DEF Pruned
  <2> HIDE DEF gone
  <2>2. \A s \in Sessions : ses'[s].watch = off(s)
    <3> HIDE DEF off
    <3> QED BY <1>1, <2>1 DEF Session
  <2>3. \A o \in Sessions : <<o, j>> \in watchSubs' <=> <<o, j>> \in watchSubs /\ o \notin gone
    <3>1. \A o \in Sessions : <<o, j>>[1] = o
      OBVIOUS
    <3> QED BY <2>1, <3>1
  <2> QED BY <2>2, <2>3 DEF Retied, Tied
<1>12. CASE Shutdown
  <2>1. Sight(ses, ses')
    BY <1>12, ShutdownEffect DEF Disowned, Sight
  <2>2. UNCHANGED watchSubs
    BY <1>12 DEF Shutdown
  <2> QED BY <2>1, <2>2, RetiedPlain
<1>13. CASE Drained
  BY <1>13, RetiedPlain DEF Drained, Sight
<1> QED BY <1>2, <1>3, <1>4, <1>5, <1>6, <1>7, <1>8, <1>9, <1>10, <1>11, <1>12, <1>13
        DEF Next, RequestStep, Blind, JobStep, JobThread

\* What the watcher is lent starts with those who watch as its owners.
LEMMA LentTied ==
    ASSUME IInv, OInv, Places, Books, Books', Pinned, Begun, NEW p \in Projects,
           Watcher \in Callers, CallIndex(Watcher, p), NEW j \in Jobs, Waited(j)'
    PROVE  Tied(watchSubs', ses', j, jobs'[j].project)
<1>1. pc[Watcher] = "idle" /\ at[Watcher] = NoJob /\ watchSubs = {} /\ UNCHANGED ses
  <2>1. pc[Watcher] = "idle" /\ UNCHANGED ses
    BY DEF CallIndex
  <2>2. at[Watcher] = NoJob
    BY <2>1 DEF Places, CallerPlace
  <2>3. \A x \in watchSubs : x[2] \in Jobs
    BY DEF OInv, Owners
  <2> QED BY <2>1, <2>2, <2>3, NamesAssumption DEF Pinned
<1>2. at' # at /\ at \in [Actors -> Jobs \cup {NoJob}] /\ Watcher \in Actors /\ j # NoJob
  BY <1>1, NamesAssumption DEF Waited, OInv, Actors
<1>3. PICK r \in Subscribe(Reap(jobs), p, Default) :
            \/ at' = [at EXCEPT ![Watcher] = NoJob]
            \/ LET owners == WatchOwners(p, r.job)
                   more   == Cardinality(owners \ watchSubs)
                   waits  == IF owners = {} THEN 0 ELSE 1
               IN  /\ watchSubs' = watchSubs \cup owners
                   /\ jobs' = Drop([r.jobs EXCEPT ![r.job].subs = @ + more,
                                                  ![r.job].waiters = @ + waits],
                                   Times(r.job, Lent))
                   /\ at' = [at EXCEPT ![Watcher] = IF waits = 1 THEN r.job ELSE NoJob]
                   /\ r.job # NoJob
  BY <1>2, Zenon DEF CallIndex
<1> DEFINE owners == WatchOwners(p, r.job)
           more   == Cardinality(owners \ watchSubs)
           waits  == IF owners = {} THEN 0 ELSE 1
           n == Times(r.job, Lent)
<1>4. at'[Watcher] = j
  BY DEF Waited
<1>5. /\ watchSubs' = watchSubs \cup owners /\ r.job = j
      /\ jobs' = Drop([r.jobs EXCEPT ![r.job].subs = @ + more, ![r.job].waiters = @ + waits], n)
  <2>1. at' # [at EXCEPT ![Watcher] = NoJob]
    BY <1>2, <1>4
  <2>2. at' = [at EXCEPT ![Watcher] = IF waits = 1 THEN r.job ELSE NoJob]
    BY <1>3, <2>1, Zenon
  <2> HIDE DEF waits
  <2>3. r.job = j
    BY <1>2, <1>4, <2>2
  <2> USE DEF waits
  <2>4. /\ watchSubs' = watchSubs \cup owners
        /\ jobs' = Drop([r.jobs EXCEPT ![r.job].subs = @ + more, ![r.job].waiters = @ + waits], n)
    BY <1>3, <2>1, Zenon
  <2> QED BY <2>3, <2>4
<1>6. r.jobs[j].project = p /\ Storage(r.jobs)
  <2>1. Tally(Reap(jobs), Firm(ses, at, pc), Loose(joining, watchSubs), Waits(at), stopping)
    BY TallyReap DEF Books
  <2>2. r.jobs[r.job].project = p
    BY <1>5, <2>1, TallySubscribe, NamesAssumption
  <2>3. Storage(Reap(jobs))
    BY ReapKept DEF Kept, IInv, JobsInv
  <2> QED BY <1>5, <2>2, <2>3, SubscribeLively
<1>7. jobs'[j].project = p
  <2> HIDE DEF more, waits, n
  <2> DEFINE su == r.jobs[j].subs + more
             wa == r.jobs[j].waiters + waits
             q == [r.jobs[j] EXCEPT !.subs = su, !.waiters = wa]
             js == [r.jobs EXCEPT ![j] = q]
  <2>1. js = [r.jobs EXCEPT ![r.job].subs = @ + more, ![r.job].waiters = @ + waits]
    BY <1>5, <1>6 DEF Storage, IsJob
  <2>2. jobs' = Drop(js, n)
    BY <1>5, <2>1
  <2> HIDE DEF su, wa
  <2>3. IsJob(q) /\ q.project = p
    BY <1>6 DEF Storage, IsJob
  <2> HIDE DEF q
  <2>4. Storage(js) /\ js[j] = q
    BY <1>6, <2>3 DEF Storage
  <2> HIDE DEF js
  <2>5. Drop(js, n)[j].project = js[j].project
    BY <2>4 DEF Storage, Drop, IsJob
  <2> QED BY <2>2, <2>3, <2>4, <2>5
<1>8. ASSUME NEW s \in Sessions PROVE <<s, j>> \in owners <=> ses[s].watch /\ Home[s] = p
  <2>1. ses[s].watch => ses[s].status = "open"
    BY DEF OInv, Owners, Session, Gone, Nothing, Begun
  <2>2. <<s, j>> \in owners <=> s \in Watching(ses, p) /\ ses[s].status = "open"
    BY <1>5 DEF WatchOwners, Watching
  <2> QED BY <2>1, <2>2 DEF Watching
<1> HIDE DEF owners
<1> QED BY <1>1, <1>5, <1>7, <1>8 DEF Tied

-----------------------------------------------------------------------------
(* What the watcher waits for moves only with its calls.                   *)

LEMMA WatcherStays ==
    ASSUME OInv, Next, Watcher \in Callers, ~CallDone(Watcher),
           \A p \in Projects : ~CallIndex(Watcher, p)
    PROVE  at'[Watcher] = at[Watcher]
<1>1. ASSUME NEW a, a # Watcher, NEW x, at' = [at EXCEPT ![a] = x] PROVE at'[Watcher] = at[Watcher]
  BY <1>1 DEF OInv, Actors
<1>2. \A s \in Sessions : s # Watcher
  BY NamesAssumption
<1>3. ASSUME NEW s \in Sessions, Admit(s) \/ Confirm(s) \/ Await(s) PROVE at'[Watcher] = at[Watcher]
  <2>1. UNCHANGED at \/ \E x : at' = [at EXCEPT ![s] = x]
    BY <1>3 DEF Admit, Confirm, Confirmed, Await
  <2> QED BY <1>1, <1>2, <2>1
<1>4. ASSUME NEW c \in Callers, CallDone(c) PROVE at'[Watcher] = at[Watcher]
  BY <1>1, <1>4 DEF CallDone
<1>5. ASSUME NEW c \in Callers, NEW p \in Projects, CallIndex(c, p) PROVE at'[Watcher] = at[Watcher]
  <2>1. UNCHANGED at \/ \E x : at' = [at EXCEPT ![c] = x]
    BY <1>5, Zenon DEF CallIndex
  <2> QED BY <1>1, <1>5, <2>1
<1>6. ASSUME NEW s \in Sessions,
             \/ Retry(s) \/ Open(s) \/ Submit(s) \/ CancelRequest(s) \/ CancelSession(s)
             \/ Join(s) \/ CloseSession(s) \/ Enter(s) \/ Parked(s) \/ RefreshWatch(s)
             \/ Complete(s) \/ Background(s) \/ AutoAdmit(s) \/ RefreshAgain(s)
      PROVE  UNCHANGED at
  BY <1>6 DEF Retry, Open, Submit, CancelRequest, CancelSession, Join, CloseSession, Enter, Parked,
     RefreshWatch, Complete, Background, AutoAdmit, RefreshAgain
<1>7. ASSUME NEW j \in Jobs, JobStep(j) PROVE UNCHANGED at
  BY <1>7 DEF JobStep, JobThread, Gate, Attempt, Launch, Kill, Settle, WorkerEnds, Publish, JobFrame
<1>8. ASSUME NEW a \in Actors, MutationStep(a) PROVE UNCHANGED at
  BY <1>8 DEF MutationStep, Reserve, Lock, Mutate, BeginRelease, EndRelease, MutFrame
<1>9. ASSUME NEW c \in Callers, NEW p \in Projects, CallMutate(c, p) PROVE UNCHANGED at
  BY <1>9 DEF CallMutate
<1>10. CASE Pruned \/ Shutdown \/ Drained
  BY <1>10 DEF Pruned, Shutdown, Drained
<1> QED BY <1>3, <1>4, <1>5, <1>6, <1>7, <1>8, <1>9, <1>10 DEF Next, RequestStep, CallerStep, Actors

\* Whoever gains a part in a watched job gains it in the one the watcher waits for.
LEMMA PinnedStays ==
    ASSUME Pinned, watchSubs = {} \/ at'[Watcher] = at[Watcher],
           \A x \in watchSubs' : x \in watchSubs \/ (Watcher \in Callers /\ at'[Watcher] = x[2])
    PROVE  Pinned'
BY DEF Pinned

LEMMA RefreshPinned ==
    ASSUME OInv, Pinned, at'[Watcher] = at[Watcher] \/ Watcher \notin Callers,
           NEW S, NEW p, NEW js, NEW ss, Refresh(S, p, js, ss),
           \A j \in Jobs : js[j].waiters > 0 => Waited(j)
    PROVE  Pinned'
<1> DEFINE able == {s \in S : ss[s].autoJob = NoJob /\ ~stopping /\ ~Cancelled(s)}
           gone == Watching(ss, p)
           new  == {s \in able : ~ss[s].watch}
           late == IF gone = {} THEN {} ELSE UNION {Late(js, s, p) : s \in new}
<1>1. \/ watchSubs' = watchSubs
      \/ watchSubs' = {x \in watchSubs : x[1] \notin gone}
      \/ watchSubs' = watchSubs \cup late
  BY DEF Refresh, Refreshed
<1>2. ASSUME NEW x \in late PROVE Waited(x[2])
  <2>1. PICK s : x \in Late(js, s, p)
    OBVIOUS
  <2>2. PICK j \in Jobs : x = <<s, j>> /\ js[j].waiters > 0
    BY <2>1 DEF Late, Active
  <2> QED BY <2>2
<1> HIDE DEF gone, late
<1>3. \A x \in watchSubs' : x \in watchSubs \/ Waited(x[2])
  BY <1>1, <1>2
<1>4. watchSubs # {} => Watcher \in Callers
  BY DEF Pinned
<1> QED BY <1>3, <1>4 DEF Pinned, Waited

\* No session begins to watch, or to own an auto-index job, before its first request.
LEMMA BegunStays ==
    ASSUME Begun, Older,
           \A s \in Sessions : ses[s].status = "new" =>
                /\ ses'[s].watch => ses[s].watch
                /\ ses'[s].autoJob \in {NoJob, ses[s].autoJob}
    PROVE  Begun'
BY DEF Begun, Older

LEMMA RefreshSight ==
    ASSUME NEW S, NEW p, NEW js, NEW ss, ss \in [Sessions -> Session], Refresh(S, p, js, ss)
    PROVE  \A s \in Sessions : ses'[s].watch => ss[s].watch \/ s \in S
<1> DEFINE able == {s \in S : ss[s].autoJob = NoJob /\ ~stopping /\ ~Cancelled(s)}
           gone == Watching(ss, p)
           new  == {s \in able : ~ss[s].watch}
           off(s) == ss[s].watch /\ s \notin gone
           on(s)  == ss[s].watch \/ s \in new
<1>1. \/ ses' = ss
      \/ ses' = [s \in Sessions |-> [ss[s] EXCEPT !.watch = off(s)]]
      \/ ses' = [s \in Sessions |-> [ss[s] EXCEPT !.watch = on(s)]]
  BY DEF Refresh, Refreshed
<1> HIDE DEF off, on
<1>2. ASSUME NEW s \in Sessions
      PROVE  ses'[s].watch = ss[s].watch \/ ses'[s].watch = off(s) \/ ses'[s].watch = on(s)
  <2>1. ss[s] \in Session
    OBVIOUS
  <2>2. \/ ses'[s] = ss[s] \/ ses'[s] = [ss[s] EXCEPT !.watch = off(s)]
        \/ ses'[s] = [ss[s] EXCEPT !.watch = on(s)]
    BY <1>1
  <2> QED BY <2>1, <2>2 DEF Session
<1> QED BY <1>2 DEF off, on

\* Auto-index jobs that stay owned stay at work.
LEMMA HomeStays ==
    ASSUME AutoHome,
           \A s \in Sessions : /\ ses'[s].autoJob \in {NoJob, ses[s].autoJob}
                               /\ ses'[s].autoJob # NoJob => LET j == ses[s].autoJob IN
                                    Alive(jobs[j]) => /\ Alive(jobs'[j])
                                                      /\ jobs'[j].project = jobs[j].project
    PROVE  AutoHome'
BY NamesAssumption DEF AutoHome

LEMMA HomeLively ==
    ASSUME OInv, AutoHome, Lively(jobs, jobs'),
           \A s \in Sessions : ses'[s].autoJob \in {NoJob, ses[s].autoJob}
    PROVE  AutoHome'
<1>1. \A s \in Sessions : ses[s].autoJob \in Jobs \cup {NoJob}
  BY DEF OInv, Owners, Session
<1> QED BY <1>1, HomeStays DEF Lively

\* An auto-index job is admitted for the project of its session.
LEMMA HomeAdmitted ==
    ASSUME OInv, Books, AutoHome, Lively(jobs, jobs'), NEW s \in Sessions, NEW r,
           ses' = [ses EXCEPT ![s] = r], NEW x \in Subscribe(jobs, Home[s], Default),
           jobs' = x.jobs, r.autoJob = x.job
    PROVE  AutoHome'
<1>1. ses \in [Sessions -> Session] /\ \A o \in Sessions : ses[o].autoJob \in Jobs \cup {NoJob}
  BY DEF OInv, Owners, Session
<1>2. x.job # NoJob => x.job \in Jobs /\ Alive(jobs'[x.job]) /\ jobs'[x.job].project = Home[s]
  BY TallySubscribe, NamesAssumption DEF Books
<1>3. ses'[s].autoJob = x.job /\ \A o \in Sessions \ {s} : ses'[o] = ses[o]
  BY <1>1
<1>4. ASSUME NEW o \in Sessions \ {s}, ses[o].autoJob # NoJob
      PROVE  Alive(jobs'[ses[o].autoJob]) /\ jobs'[ses[o].autoJob].project = Home[o]
  BY <1>1, <1>4 DEF AutoHome, Lively
<1> QED BY <1>2, <1>3, <1>4 DEF AutoHome

LEMMA PublishLively ==
    ASSUME IInv, OInv, NEW i \in Jobs, Publish(i), NEW j \in Jobs \ {i}, Alive(jobs[j])
    PROVE  Alive(jobs'[j]) /\ jobs'[j].project = jobs[j].project
<1> DEFINE n == Times(i, Cardinality({s \in Sessions : ses[s].autoJob = i}))
           q == [jobs[i] EXCEPT !.phase = "terminal"]
           base == [jobs EXCEPT ![i] = q]
           js == Drop([jobs EXCEPT ![i].phase = "terminal"], n)
<1>1. base = [jobs EXCEPT ![i].phase = "terminal"] /\ Storage(jobs)
  BY DEF Storage, IInv, JobsInv
<1>2. IsJob(q)
  BY <1>1 DEF Storage, IsJob
<1> HIDE DEF q
<1>3. Storage(base) /\ base[j] = jobs[j]
  BY <1>1, <1>2 DEF Storage
<1>4. js = Drop(base, n)
  BY <1>1
<1>5. jobs' = js \/ \E S, p, ss : jobs' = Refreshed(S, p, js, ss).jobs
  <2> HIDE DEF js
  <2>1. \/ jobs' = js
        \/ \E S, p, ss : Refresh(S, p, js, ss)
    BY PublishEffect DEF js
  <2> QED BY <2>1 DEF Refresh
<1> HIDE DEF base, n, js
<1>6. Kept(base, js) /\ Storage(js)
  BY <1>3, <1>4, DropKept DEF Kept
<1>7. Kept(base, jobs')
  BY <1>5, <1>6, RefreshedKept, KeptTransitive
<1> QED BY <1>3, <1>7 DEF Kept, Alive

LEMMA NextPinned == ASSUME IInv, OInv, Places, Books, Pinned, Next PROVE Pinned'
<1>1. \A j \in Jobs : jobs[j].waiters > 0 => Waited(j)
  BY BooksWaits
<1>2. ASSUME Watcher \in Callers, CallDone(Watcher) PROVE Pinned'
  <2>1. watchSubs' = {x \in watchSubs : x[2] # at[Watcher]}
    BY <1>2, Zenon DEF CallDone
  <2> QED BY <2>1 DEF Pinned
<1>3. ASSUME Watcher \in Callers, NEW p \in Projects, CallIndex(Watcher, p) PROVE Pinned'
  <2>1. watchSubs = {}
    <3>1. at[Watcher] = NoJob
      BY <1>3 DEF CallIndex, Places, CallerPlace
    <3>2. \A x \in watchSubs : x[2] \in Jobs
      BY DEF OInv, Owners
    <3> QED BY <3>1, <3>2, NamesAssumption DEF Pinned
  <2>2. \/ UNCHANGED watchSubs
        \/ \E j : LET owners == WatchOwners(p, j)
                      waits  == IF owners = {} THEN 0 ELSE 1
                  IN  /\ watchSubs' = watchSubs \cup owners
                      /\ at' = [at EXCEPT ![Watcher] = IF waits = 1 THEN j ELSE NoJob]
    <3>1. CASE Watching(ses, p) = {}
      BY <1>3, <3>1 DEF CallIndex
    <3>2. CASE Watching(ses, p) # {}
      <4>1. PICK r \in Subscribe(Reap(jobs), p, Default) :
              \/ UNCHANGED watchSubs
              \/ LET owners == WatchOwners(p, r.job)
                     waits  == IF owners = {} THEN 0 ELSE 1
                 IN  /\ watchSubs' = watchSubs \cup owners
                     /\ at' = [at EXCEPT ![Watcher] = IF waits = 1 THEN r.job ELSE NoJob]
        BY <1>3, <3>2, Zenon DEF CallIndex
      <4> QED BY <4>1, Zenon
    <3> QED BY <3>1, <3>2
  <2>3. ASSUME NEW j, watchSubs' = WatchOwners(p, j), WatchOwners(p, j) # {},
               at' = [at EXCEPT ![Watcher] = j]
        PROVE  Pinned'
    <3>1. at'[Watcher] = j
      BY <1>3, <2>3 DEF OInv, Actors
    <3> QED BY <1>3, <2>3, <3>1 DEF WatchOwners, Pinned
  <2> QED BY <2>1, <2>2, <2>3 DEF Pinned
<1>4. CASE Watcher \in Callers /\ (CallDone(Watcher) \/ \E p \in Projects : CallIndex(Watcher, p))
  BY <1>2, <1>3, <1>4
<1>5. CASE ~(Watcher \in Callers /\ (CallDone(Watcher) \/ \E p \in Projects : CallIndex(Watcher, p)))
  <2>1. Watcher \in Callers => at'[Watcher] = at[Watcher]
    BY <1>5, WatcherStays
  <2>2. ASSUME \A x \in watchSubs' : x \in watchSubs PROVE Pinned'
    BY <2>1, <2>2 DEF Pinned
  <2>3. ASSUME NEW S, NEW p, NEW ss, Refresh(S, p, jobs, ss) PROVE Pinned'
    BY <1>1, <2>1, <2>3, RefreshPinned
  <2>4. ASSUME NEW s \in Sessions, Blind(s) \/ Join(s) PROVE Pinned'
    BY <2>2, <2>4 DEF Blind, Open, Submit, Enter, Admit, Parked, Complete, Background, AutoAdmit,
       MutationStep, Reserve, Lock, Mutate, BeginRelease, EndRelease, MutFrame, Confirm, Await,
       CancelRequest, Join
  <2>5. ASSUME NEW s \in Sessions, Retry(s) \/ RefreshWatch(s) \/ RefreshAgain(s) PROVE Pinned'
    <3>1. UNCHANGED watchSubs \/ \E S, p, ss : Refresh(S, p, jobs, ss)
      BY <2>5 DEF Retry, RefreshWatch, RefreshAgain
    <3> QED BY <2>2, <2>3, <3>1
  <2>6. ASSUME NEW s \in Sessions, CancelSession(s) \/ CloseSession(s) PROVE Pinned'
    <3>1. watchSubs' = Release(s).subs
      BY <2>6 DEF CancelSession, CloseSession
    <3>2. Release(s).subs \subseteq watchSubs
      BY DEF Release
    <3> QED BY <2>2, <3>1, <3>2
  <2>7. ASSUME NEW i \in Jobs, Publish(i) PROVE Pinned'
    <3> DEFINE n == Times(i, Cardinality({s \in Sessions : ses[s].autoJob = i}))
               base == [jobs EXCEPT ![i].phase = "terminal"]
               js == Drop(base, n)
    <3>1. UNCHANGED watchSubs \/ \E S, p, ss : Refresh(S, p, js, ss)
      <4> HIDE DEF js
      <4> QED BY <2>7, PublishEffect DEF js
    <3>2. ASSUME NEW j \in Jobs PROVE js[j].waiters = jobs[j].waiters
      <4> DEFINE q == [jobs[i] EXCEPT !.phase = "terminal"]
      <4>1. Storage(jobs)
        BY DEF IInv, JobsInv
      <4>2. base = [jobs EXCEPT ![i] = q]
        BY <4>1 DEF Storage
      <4>3. IsJob(q) /\ q.waiters = jobs[i].waiters
        BY <4>1 DEF Storage, IsJob
      <4> HIDE DEF q
      <4>4. IsJob(base[j]) /\ base[j].waiters = jobs[j].waiters
        BY <4>1, <4>2, <4>3 DEF Storage
      <4> HIDE DEF base, n
      <4> QED BY <4>4 DEF Drop, IsJob
    <3> HIDE DEF js
    <3> QED BY <1>1, <2>1, <2>2, <3>1, <3>2, RefreshPinned
  <2>8. ASSUME NEW i \in Jobs, JobStep(i), ~Publish(i) PROVE Pinned'
    BY <2>2, <2>8 DEF JobStep, JobThread, Gate, Attempt, Launch, Kill, Settle, WorkerEnds, JobFrame
  <2>9. ASSUME NEW c \in Callers, CallerStep(c) \/ \E p \in Projects : CallMutate(c, p) PROVE Pinned'
    <3>1. CallDone(c) => UNCHANGED watchSubs
      BY <1>5, <2>9 DEF CallDone
    <3> QED BY <2>2, <2>9, <3>1 DEF CallerStep, CallMutate, MutationStep, Reserve, Lock, Mutate,
            BeginRelease, EndRelease, MutFrame
  <2>10. ASSUME NEW c \in Callers, NEW p \in Projects, CallIndex(c, p) PROVE Pinned'
    <3>1. UNCHANGED watchSubs
      BY <1>5, <2>10 DEF CallIndex
    <3> QED BY <2>2, <3>1
  <2>11. CASE Pruned
    <3>1. \E gone : watchSubs' = {x \in watchSubs : x[1] \notin gone}
      BY <2>11, Zenon DEF Pruned
    <3> QED BY <2>2, <3>1
  <2>12. CASE Shutdown \/ Drained
    BY <2>2, <2>12 DEF Shutdown, Drained
  <2> QED BY <2>4, <2>5, <2>6, <2>7, <2>8, <2>9, <2>10, <2>11, <2>12
          DEF Next, RequestStep, Blind, JobStep, JobThread
<1> QED BY <1>4, <1>5

LEMMA NextBegun == ASSUME IInv, OInv, TInv, Begun, Next PROVE Begun'
<1>1. ses \in [Sessions -> Session]
  BY DEF OInv, Owners
<1>2. ASSUME UNCHANGED ses PROVE Begun'
  BY <1>2 DEF Begun
<1>3. ASSUME Older, Sight(ses, ses'),
             \A s \in Sessions : ses[s].status = "new" => ses'[s].autoJob \in {NoJob, ses[s].autoJob}
      PROVE  Begun'
  BY <1>3, BegunStays DEF Sight
<1>4. ASSUME NEW s \in Sessions, Blind(s) PROVE Begun'
  <2>1. Older
    BY <1>4, PassingSame, SameOlder, SessionOlder DEF Blind, Passing
  <2>2. \A o \in Sessions : ses[o].status = "new" => ses'[o].autoJob \in {NoJob, ses[o].autoJob}
    <3>1. CASE Aloof(s)
      BY <3>1, AloofLinks DEF Links
    <3>2. CASE Confirm(s) \/ Await(s) \/ CancelRequest(s)
      <4>1. PICK r : ses' = [ses EXCEPT ![s] = r] /\ r.autoJob = ses[s].autoJob
        BY <3>2, ConfirmEffect, AwaitEffect, CancelEffect DEF Edited
      <4> QED BY <1>1, <4>1
    <3>3. CASE AutoAdmit(s)
      <4>1. ses[s].status # "new"
        BY <3>3 DEF AutoAdmit, TInv, Told
      <4>2. Links(ses, ses') \/ \E r : ses' = [ses EXCEPT ![s] = r]
        BY <3>3, AutoEffect
      <4> QED BY <1>1, <4>1, <4>2 DEF Links
    <3> QED BY <1>4, <3>1, <3>2, <3>3 DEF Blind, Aloof
  <2> QED BY <1>3, <1>4, <2>1, <2>2, BlindSight
<1>5. ASSUME NEW s \in Sessions, RefreshWatch(s) \/ RefreshAgain(s) PROVE Begun'
  <2> DEFINE i == ses[s].init \/ want[s].kind = "initialize"
             r == [ses[s] EXCEPT !.init = i]
             ss == [ses EXCEPT ![s] = r]
  <2>1. Refresh({s}, Home[s], jobs, ss) \/ Refresh({s}, Home[s], jobs, ses)
    BY <1>1, <1>5 DEF RefreshWatch, RefreshAgain
  <2>2. i \in BOOLEAN
    BY <1>1 DEF Session
  <2> HIDE DEF i
  <2>3. r \in Session /\ r.watch = ses[s].watch
    BY <1>1, <2>2 DEF Session
  <2> HIDE DEF r
  <2>4. ss \in [Sessions -> Session] /\ Sight(ses, ss) /\ Sight(ses, ses)
    BY <1>1, <2>3 DEF Sight
  <2> HIDE DEF ss
  <2>5. \A o \in Sessions : ses'[o].watch => ses[o].watch \/ o = s
    BY <1>1, <2>1, <2>4, RefreshSight DEF Sight
  <2>6. ses[s].status # "new"
    BY <1>5 DEF RefreshWatch, RefreshAgain, TInv, Told
  <2>7. Older /\ Links(ses, ses')
    BY <1>5, PassingSame, SameOlder, AloofLinks DEF Passing, Aloof
  <2> QED BY <2>5, <2>6, <2>7, BegunStays DEF Links
<1>6. ASSUME NEW s \in Sessions, Retry(s) PROVE Begun'
  <2>1. Older /\ ses[s].status # "new"
    BY <1>6, RetryOwners, SameOlder DEF Retry, OInv
  <2>2. ASSUME NEW ss, Refresh({s}, Home[s], jobs, ss), ss \in [Sessions -> Session], Dequeued(s, ss)
        PROVE  Begun'
    <3>1. \A o \in Sessions : ses'[o].watch => ses[o].watch \/ o = s
      BY <2>2, RefreshSight DEF Dequeued
    <3>2. \A o \in Sessions : ses'[o].autoJob = ses[o].autoJob
      BY <2>2, RefreshLinks DEF Refresh, Links, Dequeued
    <3> QED BY <2>1, <3>1, <3>2, BegunStays
  <2>3. ASSUME NEW r, ses' = [ses EXCEPT ![s] = r] PROVE Begun'
    BY <1>1, <2>1, <2>3 DEF Begun, Older
  <2> QED BY <1>2, <1>6, <2>2, <2>3, RetryEffect
<1>7. ASSUME NEW s \in Sessions, CancelSession(s) \/ CloseSession(s) PROVE Begun'
  <2>1. PICK r : ses' = [ses EXCEPT ![s] = r] /\ Gone(r)
    BY <1>7, PartEffect
  <2> QED BY <1>1, <2>1 DEF Begun, Gone
<1>8. ASSUME NEW i \in Jobs, Publish(i) PROVE Begun'
  <2> DEFINE S == {s \in Sessions : ses[s].autoJob = i}
  <2>1. PICK js, ss : /\ ss \in [Sessions -> Session] /\ Disowned(S, ss)
                      /\ Refresh(S, jobs[i].project, js, ss) \/ ses' = ss
    BY <1>8, PublishEffect
  <2>2. Older
    BY <1>8, JobOwners, SameOlder DEF JobStep, JobThread
  <2>3. ASSUME NEW s \in Sessions, ses[s].status = "new"
        PROVE  (ses'[s].watch => ses[s].watch) /\ ses'[s].autoJob \in {NoJob, ses[s].autoJob}
    <3>1. s \notin S
      BY <2>3, NamesAssumption DEF Begun
    <3>2. ses'[s].watch => ss[s].watch \/ s \in S
      BY <2>1, RefreshSight
    <3>3. ses'[s].autoJob = ss[s].autoJob
      BY <2>1, RefreshLinks DEF Refresh, Links
    <3> QED BY <2>1, <3>1, <3>2, <3>3 DEF Disowned
  <2> QED BY <2>2, <2>3, BegunStays
<1>9. ASSUME NEW i \in Jobs, JobStep(i), ~Publish(i) PROVE Begun'
  BY <1>2, <1>9 DEF JobStep, JobThread, Gate, Attempt, Launch, Kill, Settle, WorkerEnds, JobFrame
<1>10. ASSUME NEW s \in Sessions, Join(s) PROVE Begun'
  BY <1>2, <1>10 DEF Join
<1>11. ASSUME NEW c \in Callers, CallerStep(c) \/ \E p \in Projects : CallMutate(c, p) PROVE Begun'
  BY <1>2, <1>11 DEF CallerStep, CallDone, CallMutate, MutationStep, Reserve, Lock, Mutate,
     BeginRelease, EndRelease, MutFrame
<1>12. ASSUME NEW c \in Callers, NEW p \in Projects, CallIndex(c, p) PROVE Begun'
  BY <1>2, <1>12 DEF CallIndex
<1>13. CASE Pruned
  <2>1. Older /\ Links(ses, ses')
    BY <1>13, OthersOwners, SameOlder, PrunedLinks
  <2>2. \A s \in Sessions : ses'[s].watch => ses[s].watch
    <3> DEFINE gone == UNION {Watching(ses, m.key) : m \in Own(Watcher)}
               off(s) == ses[s].watch /\ s \notin gone
    <3>1. ses' = [s \in Sessions |-> [ses[s] EXCEPT !.watch = off(s)]]
      BY <1>13 DEF Pruned
    <3>2. \A s \in Sessions : ses'[s].watch = off(s)
      <4> HIDE DEF off
      <4> QED BY <1>1, <3>1 DEF Session
    <3> QED BY <3>2
  <2> QED BY <2>1, <2>2, BegunStays DEF Links
<1>14. CASE Shutdown
  BY <1>3, <1>14, ShutdownEffect, OthersOwners, SameOlder DEF Disowned, Sight
<1>15. CASE Drained
  BY <1>2, <1>15 DEF Drained
<1> QED BY <1>4, <1>5, <1>6, <1>7, <1>8, <1>9, <1>10, <1>11, <1>12, <1>13, <1>14, <1>15
        DEF Next, RequestStep, Blind, JobStep, JobThread

LEMMA NextHome == ASSUME IInv, OInv, Books, AutoHome, Next PROVE AutoHome'
<1>1. ses \in [Sessions -> Session]
  BY DEF OInv, Owners
<1>2. ASSUME NEW i \in Jobs, Publish(i) PROVE AutoHome'
  <2> DEFINE S == {s \in Sessions : ses[s].autoJob = i}
  <2>1. PICK js, ss : /\ ss \in [Sessions -> Session] /\ Disowned(S, ss)
                      /\ Refresh(S, jobs[i].project, js, ss) \/ ses' = ss
    BY <1>2, PublishEffect
  <2>2. \A s \in Sessions : ses'[s].autoJob = ss[s].autoJob
    BY <2>1, RefreshLinks DEF Refresh, Links
  <2>3. \A s \in Sessions : ses'[s].autoJob = IF s \in S THEN NoJob ELSE ses[s].autoJob
    BY <2>1, <2>2 DEF Disowned
  <2>4. ASSUME NEW s \in Sessions, ses'[s].autoJob # NoJob
        PROVE  ses[s].autoJob \in Jobs \ {i}
    BY <1>1, <2>3, <2>4 DEF Session
  <2> HIDE DEF S
  <2> QED BY <1>2, <2>3, <2>4, PublishLively, HomeStays
<1>3. CASE \A i \in Jobs : ~Publish(i)
  <2>1. Lively(jobs, jobs')
    BY <1>3, NextLively
  <2>2. ASSUME \A s \in Sessions : ses'[s].autoJob \in {NoJob, ses[s].autoJob} PROVE AutoHome'
    BY <2>1, <2>2, HomeLively
  <2>3. ASSUME NEW s \in Sessions, Aloof(s) PROVE AutoHome'
    BY <2>2, <2>3, AloofLinks DEF Links
  <2>4. ASSUME NEW s \in Sessions, Confirm(s) \/ Await(s) \/ CancelRequest(s) PROVE AutoHome'
    <3>1. PICK r : ses' = [ses EXCEPT ![s] = r] /\ r.autoJob = ses[s].autoJob
      BY <2>4, ConfirmEffect, AwaitEffect, CancelEffect DEF Edited
    <3> QED BY <1>1, <2>2, <3>1
  <2>5. ASSUME NEW s \in Sessions, CancelSession(s) \/ CloseSession(s) PROVE AutoHome'
    <3>1. PICK r : ses' = [ses EXCEPT ![s] = r] /\ r.autoJob = NoJob
      BY <2>5, PartEffect
    <3> QED BY <1>1, <2>2, <3>1
  <2>6. ASSUME NEW s \in Sessions, AutoAdmit(s) PROVE AutoHome'
    <3>1. CASE Links(ses, ses')
      BY <2>2, <3>1 DEF Links
    <3>2. CASE \E r : ses' = [ses EXCEPT ![s] = r] /\ r.autoJob = NoJob
      BY <1>1, <2>2, <3>2
    <3>3. ASSUME NEW r, ses' = [ses EXCEPT ![s] = r], NEW x \in Subscribe(jobs, Home[s], Default),
                 jobs' = x.jobs, r.autoJob = x.job
          PROVE  AutoHome'
      BY <2>1, <3>3, HomeAdmitted
    <3> QED BY <2>6, <3>1, <3>2, <3>3, AutoEffect
  <2>7. ASSUME NEW s \in Sessions, Retry(s) PROVE AutoHome'
    <3>1. ASSUME NEW ss, Refresh({s}, Home[s], jobs, ss), ss \in [Sessions -> Session],
                 Dequeued(s, ss)
          PROVE  AutoHome'
      <4>1. \A o \in Sessions : ses'[o].autoJob = ses[o].autoJob
        BY <3>1, RefreshLinks DEF Refresh, Links, Dequeued
      <4> QED BY <2>2, <4>1
    <3>2. CASE UNCHANGED ses
      BY <2>2, <3>2
    <3>3. ASSUME NEW r, ses' = [ses EXCEPT ![s] = r], NEW x \in Subscribe(jobs, Home[s], Default),
                 jobs' = x.jobs, r.autoJob = x.job
          PROVE  AutoHome'
      BY <2>1, <3>3, HomeAdmitted
    <3> QED BY <2>7, <3>1, <3>2, <3>3, RetryEffect
  <2>8. ASSUME NEW i \in Jobs, JobStep(i) PROVE AutoHome'
    <3>1. UNCHANGED ses
      BY <1>3, <2>8 DEF JobStep, JobThread, Gate, Attempt, Launch, Kill, Settle, WorkerEnds, JobFrame
    <3> QED BY <2>2, <3>1
  <2>9. ASSUME NEW s \in Sessions, Join(s) PROVE AutoHome'
    BY <2>2, <2>9 DEF Join
  <2>10. ASSUME NEW c \in Callers, CallerStep(c) \/ \E p \in Projects : CallMutate(c, p)
         PROVE  AutoHome'
    BY <2>2, <2>10 DEF CallerStep, CallDone, CallMutate, MutationStep, Reserve, Lock, Mutate,
       BeginRelease, EndRelease, MutFrame
  <2>11. ASSUME NEW c \in Callers, NEW p \in Projects, CallIndex(c, p) PROVE AutoHome'
    BY <2>2, <2>11 DEF CallIndex
  <2>12. CASE Pruned
    BY <2>2, <2>12, PrunedLinks DEF Links
  <2>13. CASE Shutdown
    BY <2>2, <2>13, ShutdownEffect DEF Disowned
  <2>14. CASE Drained
    BY <2>2, <2>14 DEF Drained
  <2> QED BY <2>3, <2>4, <2>5, <2>6, <2>7, <2>8, <2>9, <2>10, <2>11, <2>12, <2>13, <2>14
          DEF Next, RequestStep, Aloof
<1> QED BY <1>2, <1>3

\* What the watcher waits for, after a step, belongs to those who watch, if it did
\* before or is new.
LEMMA NextOwned ==
    ASSUME Whole, Whole', Awaited', Watches, Next, NEW j \in Jobs, j \in Active(jobs'), jobs'[j].waiters > 0,
           jobs[j].waiters = 0 \/ (Attached(j) /\ Watching(ses, jobs[j].project) # {})
    PROVE  Attached(j)'
<1>1. IInv /\ OInv /\ TInv /\ Places /\ Books /\ Pinned /\ Begun /\ AutoHome /\ OInv' /\ Books'
  BY DEF Whole, Watches
<1>2. Waited(j)' /\ Alive(jobs'[j])
  BY DEF Awaited, Active, Alive
<1>3. Tied(watchSubs', ses', j, jobs'[j].project) => Attached(j)'
  <2>1. watchSubs' \subseteq Sessions \X Jobs
    BY <1>1 DEF OInv, Owners
  <2> QED BY <2>1, TiedIs DEF Attached
<1>4. ASSUME NEW p \in Projects, CallIndex(Watcher, p) PROVE Attached(j)'
  BY <1>1, <1>2, <1>3, <1>4, LentTied DEF Waited
<1>5. CASE \A p \in Projects : ~CallIndex(Watcher, p)
  <2>1. Watcher \in Callers /\ ~CallDone(Watcher)
    BY <1>1, <1>2, NamesAssumption DEF CallDone, Waited, OInv, Actors
  <2>2. Waited(j)
    BY <1>1, <1>2, <1>5, <2>1, WatcherStays DEF Waited
  <2>3. Alive(jobs[j]) /\ jobs'[j].project = jobs[j].project /\ jobs[j].waiters > 0
    BY <1>1, <1>2, <2>2, Endures, BooksWaits
  <2>4. Attached(j) /\ Watching(ses, jobs[j].project) # {}
    BY <2>3
  <2>5. Tied(watchSubs, ses, j, jobs[j].project)
        /\ \E s \in Sessions : ses[s].watch /\ Home[s] = jobs[j].project
    BY <1>1, <2>4, AttachedIs DEF Watching
  <2>6. Retied(j)
    BY <1>1, NextRetied
  <2> QED BY <1>2, <1>3, <2>2, <2>3, <2>5, <2>6 DEF Retied
<1> QED BY <1>4, <1>5

\* What the watcher waits for is the only job with watch owners, sessions that have
\* not begun watch nothing, and auto-index jobs index their sessions' projects.
THEOREM WatchInvariance == Spec => []Watches
<1>1. Init => Watches
  BY NamesAssumption DEF Init, Watches, Pinned, Begun, AutoHome
<1>2. Whole /\ Watches /\ [Next]_vars => Watches'
  <2> SUFFICES ASSUME Whole, Watches, [Next]_vars PROVE Watches'
    OBVIOUS
  <2>1. CASE Next
    BY <2>1, NextPinned, NextBegun, NextHome DEF Whole, Watches
  <2>2. CASE UNCHANGED vars
    BY <2>2 DEF vars, Watches, Pinned, Begun, AutoHome, Alive
  <2> QED BY <2>1, <2>2
<1> QED BY <1>1, <1>2, WholeInvariance, PTL DEF Spec

\* A job the watcher waits for has the sessions that watch its project as its owners
\* from the start, and keeps them as they come and go, until nobody watches.
THEOREM WatchersAreOwners == Spec => WatchersOwn
<1>1. Whole => Awaited
  BY BooksWaits DEF Whole, Awaited
<1>2. Whole /\ Whole' /\ Awaited' /\ Watches /\ [Next]_vars =>
        [\A j \in Jobs :
            /\ j \in Active(jobs') /\ jobs'[j].waiters > 0
            /\ jobs[j].waiters = 0 \/ (Attached(j) /\ Watching(ses, jobs[j].project) # {})
            => Attached(j)']_vars
  BY NextOwned
<1> QED BY <1>1, <1>2, WholeInvariance, WatchInvariance, PTL DEF Spec, WatchersOwn

-----------------------------------------------------------------------------
(* What a shutdown that has reported success leaves.  Once the daemon is    *)
(* stopping nobody is admitted, so jobs can only be counted down, cancelled *)
(* and freed (Kept), unless their own threads move them: and there are none.*)

\* The daemon stops before it waits, and what has drained stays empty.
DInv == (shutdown # "no" => stopping) /\ DrainedForGood

LEMMA StoppedSubscribe ==
    ASSUME stopping, NEW js, NEW p, NEW o, NEW r \in Subscribe(js, p, o)
    PROVE  r.jobs = js /\ r.job = NoJob
BY DEF Subscribe

LEMMA KeptDrop ==
    ASSUME NEW js, Kept(jobs, js), NEW n PROVE Kept(jobs, Drop(js, n))
<1>1. Storage(js)
  BY DEF Kept
<1> QED BY <1>1, DropKept, KeptTransitive

LEMMA KeptReap ==
    ASSUME NEW js, Kept(jobs, js) PROVE Kept(jobs, Reap(js))
<1>1. Storage(js)
  BY DEF Kept
<1> QED BY <1>1, ReapKept, KeptTransitive

LEMMA KeptCancelAll ==
    ASSUME NEW js, Kept(jobs, js) PROVE Kept(jobs, CancelAll(js))
<1>1. Storage(js)
  BY DEF Kept
<1> QED BY <1>1, CancelAllKept, KeptTransitive

LEMMA SessionKept ==
    ASSUME stopping, Storage(jobs), NEW s \in Sessions,
           \/ Enter(s) \/ Admit(s) \/ Parked(s) \/ Confirm(s) \/ Await(s) \/ RefreshWatch(s)
           \/ Complete(s) \/ Background(s) \/ AutoAdmit(s) \/ RefreshAgain(s)
           \/ Open(s) \/ Submit(s) \/ CancelRequest(s) \/ CancelSession(s) \/ Join(s)
           \/ CloseSession(s) \/ Retry(s)
    PROVE  Kept(jobs, jobs') /\ stopping' /\ UNCHANGED <<muts, shutdown>>
<1>1. Kept(jobs, jobs)
  BY KeptReflexive
<1>2. \A ss, p, S : Kept(jobs, Refreshed(S, p, jobs, ss).jobs)
  BY RefreshedKept
<1>3. CASE Enter(s) \/ Parked(s) \/ Complete(s) \/ Open(s) \/ Submit(s)
  BY <1>1, <1>3 DEF Enter, Parked, Complete, Open, Submit, mutation
<1>4. CASE Admit(s)
  <2>1. PICK r \in Subscribe(Reap(jobs), want[s].project, want[s].args) : jobs' = r.jobs
    BY <1>4 DEF Admit
  <2>2. jobs' = Reap(jobs)
    BY <2>1, StoppedSubscribe
  <2> QED BY <1>1, <1>4, <2>2, KeptReap DEF Admit, mutation
<1>5. CASE Confirm(s)
  BY <1>1, <1>5, KeptDrop DEF Confirm, Confirmed, mutation
<1>6. CASE Await(s)
  BY <1>1, <1>6, KeptDrop, KeptReap DEF Await, mutation
<1>7. CASE RefreshWatch(s)
  BY <1>2, <1>7 DEF RefreshWatch, Refresh, mutation
<1>8. CASE Background(s)
  BY <1>1, <1>8, KeptReap DEF Background, mutation
<1>9. CASE AutoAdmit(s)
  BY <1>1, <1>9 DEF AutoAdmit, mutation
<1>10. CASE RefreshAgain(s)
  BY <1>2, <1>10 DEF RefreshAgain, Refresh, mutation
<1>11. CASE CancelRequest(s)
  BY <1>1, <1>11, KeptDrop DEF CancelRequest, mutation
<1>12. CASE CancelSession(s)
  BY <1>12, ReleaseKept, KeptCancelAll, KeptReap DEF CancelSession, mutation
<1>13. CASE Join(s)
  BY <1>1, <1>13, KeptDrop, KeptReap DEF Join, mutation
<1>14. CASE CloseSession(s)
  BY <1>14, ReleaseKept, KeptReap DEF CloseSession, mutation
<1>15. CASE Retry(s)
  <2>1. CASE Home[s] \in db
    BY <1>2, <1>15, <2>1 DEF Retry, Refresh, mutation
  <2>2. CASE Home[s] \notin db
    <3>1. PICK r \in Subscribe(jobs, Home[s], Default) : jobs' = r.jobs
      BY <1>15, <2>2 DEF Retry
    <3>2. jobs' = jobs
      BY <3>1, StoppedSubscribe
    <3> QED BY <1>1, <1>15, <3>2 DEF Retry, mutation
  <2> QED BY <2>1, <2>2
<1> QED
  BY <1>3, <1>4, <1>5, <1>6, <1>7, <1>8, <1>9, <1>10, <1>11, <1>12, <1>13, <1>14, <1>15

\* A daemon thread that calls in is refused, and one whose job has ended returns.
LEMMA CallerKept ==
    ASSUME stopping, Storage(jobs), NEW c \in Callers,
           CallDone(c) \/ \E p \in Projects : CallIndex(c, p) \/ CallMutate(c, p)
    PROVE  Kept(jobs, jobs') /\ stopping' /\ UNCHANGED <<muts, shutdown>>
<1>1. Kept(jobs, jobs) /\ Kept(jobs, Reap(jobs))
  BY KeptReflexive, KeptReap
<1>2. CASE CallDone(c)
  <2>1. ASSUME NEW n, NEW i, NEW x PROVE Kept(jobs, [Drop(jobs, n) EXCEPT ![i].waiters = x])
    <3> DEFINE js == Drop(jobs, n)
    <3>1. Kept(jobs, js) /\ Storage(js)
      BY <1>1, KeptDrop DEF Kept
    <3> HIDE DEF js
    <3>2. Kept(js, [js EXCEPT ![i].waiters = x])
      BY <3>1 DEF Kept, Storage, IsJob
    <3>3. Kept(jobs, [js EXCEPT ![i].waiters = x])
      BY <3>1, <3>2, KeptTransitive
    <3> QED BY <3>3 DEF js
  <2> QED BY <1>1, <1>2, <2>1, KeptDrop, KeptReap DEF CallDone, mutation
<1>3. ASSUME NEW p \in Projects, CallIndex(c, p)
      PROVE  Kept(jobs, jobs') /\ stopping' /\ UNCHANGED <<muts, shutdown>>
  <2>1. \A r \in Subscribe(Reap(jobs), p, Default) : r.jobs = Reap(jobs) /\ r.job = NoJob
    BY StoppedSubscribe
  <2>2. jobs' = Reap(jobs)
    BY <1>3, <2>1 DEF CallIndex
  <2> QED BY <1>1, <1>3, <2>2 DEF CallIndex, mutation
<1>4. ASSUME NEW p \in Projects, CallMutate(c, p)
      PROVE  Kept(jobs, jobs') /\ stopping' /\ UNCHANGED <<muts, shutdown>>
  BY <1>1, <1>4 DEF CallMutate
<1> QED BY <1>2, <1>3, <1>4

\* Without a reservation and without room for one, a mutation's thread only goes home.
LEMMA StoppedMutation ==
    ASSUME stopping, muts = {}, NEW a \in Actors, MutationStep(a)
    PROVE  muts' = {} /\ UNCHANGED <<jobs, stopping, shutdown>>
<1>1. CASE Reserve(a)
  BY <1>1 DEF Reserve, GivesUp, MutFrame
<1>2. CASE Lock(a)
  BY <1>2 DEF Lock, GivesUp, MutFrame
<1>3. CASE Mutate(a)
  BY <1>3 DEF Mutate, MutFrame, mutation
<1>4. ~BeginRelease(a) /\ ~EndRelease(a)
  BY DEF BeginRelease, EndRelease, Own
<1> QED BY <1>1, <1>2, <1>3, <1>4 DEF MutationStep

\* No thread of a job runs when no job is active.
LEMMA NoJobSteps ==
    ASSUME Active(jobs) = {}, NEW j \in Jobs PROVE ~JobStep(j)
BY DEF Active, JobStep, JobThread, Gate, Attempt, Launch, Kill, Settle, Publish, WorkerEnds

LEMMA NextDrained == IInv /\ DInv /\ [Next]_vars => DInv'
<1> SUFFICES ASSUME IInv, DInv, [Next]_vars PROVE DInv'
  OBVIOUS
<1>1. Storage(jobs)
  BY DEF IInv, JobsInv
<1>2. ASSUME shutdown = "drained", Kept(jobs, jobs'), stopping', muts' = {}, UNCHANGED shutdown
      PROVE  DInv'
  <2>1. Active(jobs) = {}
    BY <1>2 DEF DInv, DrainedForGood
  <2>2. Active(jobs') = {}
    BY <1>2, <2>1 DEF Kept, Active
  <2> QED BY <1>2, <2>2 DEF DInv, DrainedForGood
<1>3. CASE UNCHANGED vars
  BY <1>3 DEF vars, DInv, DrainedForGood, Active
<1>4. CASE Next /\ shutdown = "drained"
  <2>1. stopping /\ muts = {} /\ Active(jobs) = {}
    BY <1>4 DEF DInv, DrainedForGood
  <2>2. Kept(jobs, jobs)
    BY <1>1, KeptReflexive
  <2>3. ASSUME NEW a \in Actors, MutationStep(a) PROVE DInv'
    BY <1>2, <1>4, <2>1, <2>2, <2>3, StoppedMutation
  <2>4. ASSUME NEW s \in Sessions,
               Retry(s) \/ Open(s) \/ Submit(s) \/ RequestStep(s) \/ CancelRequest(s)
                 \/ CancelSession(s) \/ Join(s) \/ CloseSession(s)
        PROVE  DInv'
    <3>1. CASE MutationStep(s)
      BY <2>3, <3>1 DEF Actors
    <3>2. CASE ~MutationStep(s)
      <4>1. Kept(jobs, jobs') /\ stopping' /\ UNCHANGED <<muts, shutdown>>
        BY <1>1, <2>1, <2>4, <3>2, SessionKept DEF RequestStep
      <4> QED BY <1>2, <1>4, <2>1, <4>1
    <3> QED BY <3>1, <3>2
  <2>5. ASSUME NEW c \in Callers,
               CallerStep(c) \/ \E p \in Projects : CallIndex(c, p) \/ CallMutate(c, p)
        PROVE  DInv'
    <3>1. CASE MutationStep(c)
      BY <2>3, <3>1 DEF Actors
    <3>2. CASE ~MutationStep(c)
      <4>1. Kept(jobs, jobs') /\ stopping' /\ UNCHANGED <<muts, shutdown>>
        BY <1>1, <2>1, <2>5, <3>2, CallerKept DEF CallerStep
      <4> QED BY <1>2, <1>4, <2>1, <4>1
    <3> QED BY <3>1, <3>2
  <2>6. CASE Pruned
    <3>1. Kept(jobs, jobs')
      BY <2>2, <2>6, KeptDrop DEF Pruned
    <3> QED BY <1>2, <1>4, <2>1, <2>6, <3>1 DEF Pruned, mutation
  <2>7. ~Shutdown /\ ~Drained
    BY <1>4 DEF Shutdown, Drained
  <2> QED BY <1>4, <2>1, <2>4, <2>5, <2>6, <2>7, NoJobSteps DEF Next
<1>5. CASE Next /\ Drained
  <2>1. muts = {} /\ jobs' = Reap(jobs) /\ UNCHANGED <<muts, stopping>> /\ stopping
    BY <1>5 DEF Drained, Quiet, mutation, DInv
  <2>2. \A j \in Jobs : jobs'[j].phase \in {"free", "terminal"}
    BY <1>5, <2>1 DEF Drained, Quiet, Reap, Free
  <2> QED BY <2>1, <2>2 DEF DInv, DrainedForGood, Active
<1>6. CASE Next /\ shutdown # "drained" /\ ~Drained
  <2>1. (shutdown' = shutdown /\ (stopping => stopping')) \/ Shutdown
    <3>1. ASSUME NEW s \in Sessions, Retry(s) PROVE UNCHANGED <<shutdown, stopping>>
      BY <3>1 DEF Retry
    <3>2. ASSUME NEW a \in Actors, MutationStep(a) PROVE UNCHANGED <<shutdown, stopping>>
      BY <3>2 DEF MutationStep, Reserve, Lock, Mutate, BeginRelease, EndRelease, MutFrame
    <3>3. ASSUME NEW s \in Sessions, Open(s) \/ Submit(s) \/ CancelRequest(s) \/ Join(s) \/ CloseSession(s)
          PROVE  UNCHANGED <<shutdown, stopping>>
      BY <3>3 DEF Open, Submit, CancelRequest, Join, CloseSession
    <3>4. ASSUME NEW s \in Sessions, CancelSession(s)
          PROVE  shutdown' = shutdown /\ (stopping => stopping')
      BY <3>4 DEF CancelSession
    <3>5. ASSUME NEW s \in Sessions, RequestStep(s) PROVE UNCHANGED <<shutdown, stopping>>
      BY <3>2, <3>5 DEF Actors, RequestStep, Enter, Admit, Parked, Confirm, Await, RefreshWatch, Complete,
         Background, AutoAdmit, RefreshAgain
    <3>6. ASSUME NEW j \in Jobs, JobStep(j) PROVE UNCHANGED <<shutdown, stopping>>
      BY <3>6 DEF JobStep, JobThread, Gate, Attempt, Launch, Kill, Settle, Publish, WorkerEnds, JobFrame
    <3>7. ASSUME NEW c \in Callers,
                 CallerStep(c) \/ \E p \in Projects : CallIndex(c, p) \/ CallMutate(c, p)
          PROVE  UNCHANGED <<shutdown, stopping>>
      BY <3>2, <3>7 DEF Actors, CallerStep, CallDone, CallIndex, CallMutate
    <3>8. Pruned => UNCHANGED <<shutdown, stopping>>
      BY DEF Pruned
    <3> QED BY <1>6, <3>1, <3>3, <3>4, <3>5, <3>6, <3>7, <3>8 DEF Next
  <2>2. CASE shutdown' = shutdown /\ (stopping => stopping')
    BY <1>6, <2>2 DEF DInv, DrainedForGood
  <2>3. CASE Shutdown
    BY <2>3 DEF Shutdown, DInv, DrainedForGood
  <2> QED BY <2>1, <2>2, <2>3
<1> QED BY <1>3, <1>4, <1>5, <1>6

\* A shutdown that has reported success is final: no job is active and no mutation
\* has a reservation, then and ever after, whatever the sessions that are still
\* there, the watcher and the UI call.
THEOREM ShutdownIsFinal == Spec => []DrainedForGood
<1>1. Init => DInv
  BY DEF Init, DInv, DrainedForGood
<1>2. DInv => DrainedForGood
  BY DEF DInv
<1> QED BY <1>1, <1>2, NextDrained, Invariance, PTL DEF Spec
=============================================================================
