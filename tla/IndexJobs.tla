----------------------------- MODULE IndexJobs -----------------------------
(***************************************************************************)
(* daemon/application.c: index jobs, project mutations, sessions, watches  *)
(* and shutdown inside one daemon.                                         *)
(*                                                                         *)
(* Everything is guarded by application->mutex; an action is one critical  *)
(* section.  A session has two threads: its connection (requests, cancels, *)
(* disconnects) and the thread of its current request.  Every job has a    *)
(* thread; the watcher and the UI server call in from theirs.  The reap    *)
(* that follows a critical section is folded into it: it only frees jobs   *)
(* nobody refers to, and others may run it at any other moment.            *)
(*                                                                         *)
(* Left out: update checks (no build ships a provider), memory exhaustion, *)
(* the forced exit after a cleanup deadline, sessions with a restricted    *)
(* tool profile, two roots that share a project name, and a worker's tree  *)
(* that outlives its supervision: it still has the native project lock.    *)
(***************************************************************************)
EXTENDS Integers, Sequences, FiniteSets

CONSTANTS
    Sessions, Home,         \* sessions, and the project each has as its context
    Callers, Watcher,       \* daemon threads that call in; the watcher is one
    Projects, Wild,         \* project keys, and the key "*"
    Jobs, NoJob,            \* storage of jobs
    None,                   \* no project, no options
    Options, Default,       \* effective index options; auto-index has the defaults
    Plans, Rank,            \* sequences of keys a mutation may reserve; lock order of keys
    Limit,                  \* physical_job_limit
    MaxRestarts,            \* CBM_INDEX_MAX_RESTARTS
    AutoIndex, Permanent,   \* configuration
    Mixes                   \* bounds: what may happen in one behaviour

Keys == Projects \cup {Wild}
Actors == Sessions \cup Callers

\* In its life a daemon has finitely many sessions and threads.
ASSUME FinitenessAssumption == IsFiniteSet(Sessions) /\ IsFiniteSet(Callers)
ASSUME NamesAssumption ==
    /\ Home \in [Sessions -> Projects] /\ Watcher \notin Sessions
    /\ Sessions \cap Callers = {} /\ Wild \notin Projects /\ None \notin Keys \cup Options
    /\ NoJob \notin Jobs /\ Default \in Options
ASSUME PlansAssumption == Plans \subseteq Seq(Keys) \ {<<>>} /\ Rank \in [Keys -> Nat]
ASSUME LimitAssumption == Limit \in Nat \ {0} /\ MaxRestarts \in Nat
ASSUME ConfigurationAssumption == AutoIndex \in BOOLEAN /\ Permanent \in BOOLEAN

Kinds == {"index", "mutate", "initialize", "query"}

\* Who connects or calls, which projects the daemon's own threads name, what is requested
\* and how often, and what goes wrong.
Mix == [clients : SUBSET Sessions, callers : SUBSET Callers, projects : SUBSET Projects,
        kinds : SUBSET Kinds, requests : Nat, calls : Nat, interrupts : Nat,
        startFailures : Nat, crashes : BOOLEAN, hangs : BOOLEAN]
ASSUME MixesAssumption == Mixes \subseteq Mix

VARIABLES
    jobs,       \* [Jobs -> Job]
    ses,        \* [Sessions -> Session]
    watchSubs,  \* watch_job_subscriptions: <<session, job>>
    muts,       \* mutations: [owner, key, phase]
    pc,         \* where each actor's thread is
    at,         \* job pointer the thread holds
    want,       \* what the session's request is
    todo,       \* keys the actor still has to reserve
    joining,    \* job a disconnecting session waits for
    retry,      \* sessions a publication still has to revisit, in its critical section
    db,         \* projects that have a database
    stopping,   \* application->stopping
    asked,      \* history: the current request was cancelled before it completed
    answer,     \* history: what the last request returned
    shutdown,   \* "no" | "waiting" | "drained": the host's call of shutdown
    calls, interrupts, startFailures,   \* so many calls, cancels and disconnects, failures ...
    mix         \* ... of as many as one of Mixes allows

vars == <<jobs, ses, watchSubs, muts, pc, at, want, todo, joining, retry, db, stopping,
          asked, answer, shutdown, calls, interrupts, startFailures, mix>>

Phases == {"free", "gate", "attempt", "launch", "running", "ended", "publish", "terminal"}
Verdicts == {"none", "success", "crash", "failure", "unsafe", "cancelled"}

Job == [project : Projects \cup {None}, args : Options \cup {None}, phase : Phases,
        subs : Nat, waiters : Nat, cancel : BOOLEAN, killed : BOOLEAN, verdict : Verdicts,
        round : 0..MaxRestarts + 1, isolated : BOOLEAN]

Session == [status : {"new", "open", "cancelled", "closed"}, request : Nat,
            active : BOOLEAN, cancelToken : Nat, activeJob : Jobs \cup {NoJob},
            autoJob : Jobs \cup {NoJob}, evaluated : BOOLEAN, pending : BOOLEAN,
            eligible : BOOLEAN, init : BOOLEAN, needs : BOOLEAN, watch : BOOLEAN]

Free == [project |-> None, args |-> None, phase |-> "free", subs |-> 0, waiters |-> 0,
         cancel |-> FALSE, killed |-> FALSE, verdict |-> "none", round |-> 0, isolated |-> FALSE]

RequestPc == {"idle", "entry", "index", "parked", "admitted", "waiting", "reserve", "lock",
              "mutating", "release", "refresh", "complete", "background", "admit", "again"}

TypeOK ==
    /\ jobs \in [Jobs -> Job]
    /\ ses \in [Sessions -> Session]
    /\ watchSubs \subseteq Sessions \X Jobs
    /\ muts \subseteq [owner : Actors, key : Keys, phase : {"reserved", "held", "releasing"}]
    /\ pc \in [Actors -> RequestPc]
    /\ at \in [Actors -> Jobs \cup {NoJob}]
    /\ want \in [Sessions -> [kind : Kinds \cup {"none"}, project : Projects, args : Options]]
    /\ todo \in [Actors -> Seq(Keys)]
    /\ joining \in [Sessions -> Jobs \cup {NoJob}]
    /\ retry \subseteq Sessions
    /\ db \subseteq Projects
    /\ stopping \in BOOLEAN
    /\ asked \in [Sessions -> BOOLEAN]
    /\ answer \in [Sessions -> {"none", "done", "cancelled", "refused"}]
    /\ shutdown \in {"no", "waiting", "drained"}
    /\ mix \in Mixes
    /\ calls \in 0..mix.calls /\ interrupts \in 0..mix.interrupts
    /\ startFailures \in 0..mix.startFailures

Init ==
    /\ jobs = [j \in Jobs |-> Free]
    /\ ses = [s \in Sessions |->
                [status |-> "new", request |-> 0, active |-> FALSE, cancelToken |-> 0,
                 activeJob |-> NoJob, autoJob |-> NoJob, evaluated |-> FALSE, pending |-> FALSE,
                 eligible |-> FALSE, init |-> FALSE, needs |-> FALSE, watch |-> FALSE]]
    /\ watchSubs = {} /\ muts = {}
    /\ pc = [a \in Actors |-> "idle"] /\ at = [a \in Actors |-> NoJob]
    /\ want = [s \in Sessions |-> [kind |-> "none", project |-> Home[s], args |-> Default]]
    /\ todo = [a \in Actors |-> <<>>]
    /\ joining = [s \in Sessions |-> NoJob]
    /\ mix \in Mixes
    /\ retry = {} /\ db \in SUBSET mix.projects
    /\ stopping = FALSE
    /\ asked = [s \in Sessions |-> FALSE] /\ answer = [s \in Sessions |-> "none"]
    /\ shutdown = "no" /\ calls = 0 /\ interrupts = 0 /\ startFailures = 0

(* -------------------------------- helpers -------------------------------- *)

\* application_project_keys_conflict
Conflict(k, l) == k = l \/ k = Wild \/ l = Wild

Active(js) == {j \in Jobs : js[j].phase \notin {"free", "terminal"}}

Stopped(j) == jobs[j].cancel \/ stopping

\* Mutant: the token is a flag, whichever request it was meant for.
HitAny(s) == ses[s].cancelToken # 0
\* The cancellation token is that of the current request.
Hit(s) == ses[s].cancelToken = ses[s].request

\* application_request_cancelled_locked
Cancelled(s) ==
    \/ ses[s].status \in {"cancelled", "closed"}
    \/ ses[s].active /\ Hit(s)

Orphaned(left) == left = 0

\* application_job_unsubscribe_locked, dropping n[j] subscriptions of every job j.
Drop(js, n) ==
    [j \in Jobs |->
        LET left == IF js[j].subs > n[j] THEN js[j].subs - n[j] ELSE 0
        IN  [js[j] EXCEPT !.subs = left,
                          !.cancel = @ \/ /\ Orphaned(left) /\ js[j].subs > 0 /\ n[j] > 0
                                          /\ js[j].phase # "terminal"]]

Times(j, n) == [i \in Jobs |-> IF i = j THEN n ELSE 0]

Pairs(S) == [j \in Jobs |-> Cardinality({s \in S : <<s, j>> \in watchSubs})]

\* application_jobs_reap_completed
Reap(js) ==
    [j \in Jobs |-> IF js[j].phase = "terminal" /\ js[j].subs = 0 /\ js[j].waiters = 0
                    THEN Free ELSE js[j]]

\* application_job_subscribe_locked: what it may answer, and the jobs it leaves.
Created(js, j, p, o) ==
    [js EXCEPT ![j] = [Free EXCEPT !.project = p, !.args = o, !.phase = "gate", !.subs = 1]]

Full(js) == Cardinality(Active(js)) >= Limit

Subscribe(js, p, o) ==
    LET same == {j \in Active(js) : js[j].project = p}
        idle == {j \in Jobs : js[j].phase = "free"}
        No(status) == [status |-> status, job |-> NoJob, jobs |-> js, failed |-> 0]
    IN  IF stopping THEN {No("UNAVAILABLE")}
        ELSE IF same # {} THEN
            LET j == CHOOSE i \in same : TRUE
            IN  IF js[j].cancel THEN {No("CANCELLING")}
                ELSE IF js[j].args # o THEN {No("CONFLICT")}
                ELSE {[status |-> "OK", job |-> j, jobs |-> [js EXCEPT ![j].subs = @ + 1],
                       failed |-> 0]}
        ELSE IF Full(js) THEN {No("BUSY")}
        ELSE {[status |-> "OK", job |-> j, jobs |-> Created(js, j, p, o), failed |-> 0] :
                    j \in {i \in idle : i = CHOOSE k \in idle : TRUE}}
             \cup {[No("UNAVAILABLE") EXCEPT !.failed = 1] :
                    f \in {n \in {startFailures} : n < mix.startFailures}}

Watching(ss, p) == {s \in Sessions : ss[s].watch /\ Home[s] = p}

\* Mutant: who begins to watch waits for the next job.
LateNever(js, s, p) == {}
\* application_watch_job_subscribe_late_session_locked
Late(js, s, p) ==
    {<<s, j>> : j \in {i \in Active(js) : js[i].project = p /\ js[i].waiters > 0}} \ watchSubs

\* application_refresh_watch_locked for each session in S, all of project p.
Refreshed(S, p, js, ss) ==
    LET able == {s \in S : ss[s].autoJob = NoJob /\ ~stopping /\ ~Cancelled(s)}
        gone == Watching(ss, p)
        new  == {s \in able : ~ss[s].watch}
        late == IF gone = {} THEN {} ELSE UNION {Late(js, s, p) : s \in new}
    IN  IF able = {} THEN [jobs |-> js, ses |-> ss, subs |-> watchSubs]
        ELSE IF p \notin db THEN
            [jobs |-> Drop(js, Pairs(gone)),
             ses  |-> [s \in Sessions |-> [ss[s] EXCEPT !.watch = @ /\ s \notin gone]],
             subs |-> {x \in watchSubs : x[1] \notin gone}]
        ELSE
            [jobs |-> [j \in Jobs |->
                        [js[j] EXCEPT !.subs = @ + Cardinality({x \in late : x[2] = j})]],
             ses  |-> [s \in Sessions |-> [ss[s] EXCEPT !.watch = @ \/ s \in new]],
             subs |-> watchSubs \cup late]

Refresh(S, p, js, ss) ==
    LET r == Refreshed(S, p, js, ss)
    IN  jobs' = r.jobs /\ ses' = r.ses /\ watchSubs' = r.subs

Go(a, l) == pc' = [pc EXCEPT ![a] = l]

history == <<asked, answer>>
mutation == <<muts, todo>>
bounds == <<calls, interrupts, startFailures, mix>>

interrupted ==
    /\ interrupts < mix.interrupts /\ interrupts' = interrupts + 1
    /\ UNCHANGED <<calls, startFailures, mix>>

(* --------------------- sessions and their requests ----------------------- *)

\* application_session_open, with the request that sets the session's context.
Open(s) ==
    /\ ses[s].status = "new" /\ ~stopping /\ s \in mix.clients
    /\ ses' = [ses EXCEPT ![s].status = "open"]
    /\ UNCHANGED <<jobs, watchSubs, mutation, pc, at, want, joining, retry, db, stopping,
                   history, shutdown, bounds>>

\* Mutant: a cross-repository match reserves its own project first.
OrderedOwnFirst(s, plan) == Len(plan) > 1 => plan[1] = Home[s]
\* handle_cross_repo_mode sorts the keys it needs; other mutations need one.
Ordered(s, plan) == \A i, k \in 1..Len(plan) : i < k => Rank[plan[i]] < Rank[plan[k]]

\* The connection starts a thread for the next request.
Submit(s) ==
    /\ ses[s].status = "open" /\ pc[s] = "idle" /\ ses[s].request < mix.requests
    /\ \E k \in Kinds, p \in Projects, o \in Options :
            /\ k \in mix.kinds
            /\ k # "index" => p = Home[s] /\ o = Default
            /\ want' = [want EXCEPT ![s] = [kind |-> k, project |-> p, args |-> o]]
            /\ IF k = "mutate"
               THEN \E plan \in Plans : Ordered(s, plan) /\ todo' = [todo EXCEPT ![s] = plan]
               ELSE UNCHANGED todo
    /\ ses' = [ses EXCEPT ![s].request = @ + 1]
    /\ Go(s, "entry")
    /\ asked' = [asked EXCEPT ![s] = FALSE] /\ answer' = [answer EXCEPT ![s] = "none"]
    /\ UNCHANGED <<jobs, watchSubs, muts, at, joining, retry, db, stopping, shutdown, bounds>>

\* application_request up to the dispatch; a cancellation may have come first.
Enter(s) ==
    /\ pc[s] = "entry"
    /\ IF stopping \/ ses[s].status # "open"
       THEN /\ Go(s, "idle")
            /\ answer' = [answer EXCEPT ![s] = "refused"]
            /\ UNCHANGED ses
       ELSE /\ ses' = [ses EXCEPT ![s].active = TRUE,
                                  ![s].cancelToken = IF Hit(s) THEN @ ELSE 0]
            /\ Go(s, CASE Hit(s) -> "complete"
                       [] OTHER -> CASE want[s].kind = "index" -> "index"
                                     [] want[s].kind = "mutate" -> "reserve"
                                     [] OTHER -> "refresh")
            /\ UNCHANGED answer
    /\ UNCHANGED <<jobs, watchSubs, mutation, at, want, joining, retry, db, stopping,
                   asked, shutdown, bounds>>

\* application_index_execute: one turn of the admission loop.
Admit(s) ==
    /\ pc[s] = "index"
    /\ \E r \in Subscribe(Reap(jobs), want[s].project, want[s].args) :
            /\ jobs' = r.jobs /\ at' = [at EXCEPT ![s] = r.job]
            /\ startFailures' = startFailures + r.failed
            /\ Go(s, CASE r.status = "OK" -> "admitted"
                       [] r.status \in {"BUSY", "CANCELLING"} -> "parked"
                       [] OTHER -> "refresh")
    /\ UNCHANGED <<ses, watchSubs, mutation, want, joining, retry, db, stopping, history,
                   shutdown, calls, interrupts, mix>>

Parked(s) ==
    /\ pc[s] = "parked"
    /\ Go(s, IF Cancelled(s) THEN "refresh" ELSE "index")
    /\ UNCHANGED <<jobs, ses, watchSubs, mutation, at, want, joining, retry, db, stopping,
                   history, shutdown, bounds>>

\* Mutant: the cancelled session keeps the subscription.
ConfirmedKept(s) ==
    /\ at' = [at EXCEPT ![s] = IF Cancelled(s) THEN NoJob ELSE @]
    /\ ses' = [ses EXCEPT ![s].activeJob = IF Cancelled(s) THEN @ ELSE at[s]]
    /\ Go(s, IF Cancelled(s) THEN "refresh" ELSE "waiting")
    /\ UNCHANGED jobs
\* The session becomes an owner, unless it was cancelled since the admission.
Confirmed(s) ==
    IF Cancelled(s)
    THEN /\ jobs' = Drop(jobs, Times(at[s], 1))
         /\ at' = [at EXCEPT ![s] = NoJob]
         /\ Go(s, "refresh")
         /\ UNCHANGED ses
    ELSE /\ ses' = [ses EXCEPT ![s].activeJob = at[s]]
         /\ Go(s, "waiting")
         /\ UNCHANGED <<jobs, at>>

Confirm(s) ==
    /\ pc[s] = "admitted" /\ Confirmed(s)
    /\ UNCHANGED <<watchSubs, mutation, want, joining, retry, db, stopping, history, shutdown,
                   bounds>>

\* application_job_wait_for_session
Await(s) ==
    /\ pc[s] = "waiting"
    /\ \/ /\ ses[s].activeJob # at[s]
          /\ UNCHANGED <<jobs, ses>>
       \/ /\ ses[s].activeJob = at[s] /\ jobs[at[s]].phase = "terminal"
          /\ ses' = [ses EXCEPT ![s].activeJob = NoJob]
          /\ jobs' = Reap(Drop(jobs, Times(at[s], 1)))
    /\ at' = [at EXCEPT ![s] = NoJob] /\ Go(s, "refresh")
    /\ UNCHANGED <<watchSubs, mutation, want, joining, retry, db, stopping, history, shutdown,
                   bounds>>

\* The end of application_mcp_request and application_tool_request.
RefreshWatch(s) ==
    /\ pc[s] = "refresh"
    /\ Refresh({s}, Home[s], jobs,
               [ses EXCEPT ![s].init = @ \/ want[s].kind = "initialize"])
    /\ Go(s, "complete")
    /\ UNCHANGED <<mutation, at, want, joining, retry, db, stopping, history, shutdown, bounds>>

\* A cancellation counts if it arrived before the request completed.
CancelWon(s) == ses[s].status # "open" \/ Hit(s)

\* The end of application_request; after it, the thread may start background work.
Complete(s) ==
    /\ pc[s] = "complete"
    /\ ses' = [ses EXCEPT ![s].active = FALSE, ![s].init = FALSE,
                          ![s].cancelToken = IF Hit(s) THEN 0 ELSE @]
    /\ answer' = [answer EXCEPT ![s] = IF CancelWon(s) THEN "cancelled" ELSE "done"]
    /\ Go(s, IF ~CancelWon(s) /\ (ses[s].init \/ ses[s].eligible) THEN "background" ELSE "idle")
    /\ UNCHANGED <<jobs, watchSubs, mutation, at, want, joining, retry, db, stopping, asked,
                   shutdown, bounds>>

\* application_background_initialize reads the disk before it takes the mutex ...
Background(s) ==
    /\ pc[s] = "background"
    /\ ses' = [ses EXCEPT ![s].needs = AutoIndex /\ Home[s] \notin db]
    /\ jobs' = Reap(jobs)
    /\ Go(s, "admit")
    /\ UNCHANGED <<watchSubs, mutation, at, want, joining, retry, db, stopping, history,
                   shutdown, bounds>>

\* ... and decides under it.
AutoAdmit(s) ==
    LET try   == ses[s].autoJob = NoJob /\ (~ses[s].evaluated \/ ses[s].pending)
        ready == [ses EXCEPT ![s].eligible = TRUE, ![s].evaluated = @ \/ try,
                             ![s].pending = @ /\ ~try]
    IN  /\ pc[s] = "admit"
        /\ IF stopping \/ Cancelled(s)
           THEN Go(s, "idle") /\ UNCHANGED <<jobs, ses, startFailures>>
           ELSE /\ Go(s, "again")
                /\ IF try /\ ses[s].needs
                   THEN \E r \in Subscribe(jobs, Home[s], Default) :
                            /\ jobs' = r.jobs
                            /\ ses' = [ready EXCEPT ![s].autoJob = r.job,
                                                    ![s].pending = r.job = NoJob]
                            /\ startFailures' = startFailures + r.failed
                   ELSE ses' = ready /\ UNCHANGED <<jobs, startFailures>>
        /\ UNCHANGED <<watchSubs, mutation, at, want, joining, retry, db, stopping, history,
                       shutdown, calls, interrupts, mix>>

RefreshAgain(s) ==
    /\ pc[s] = "again"
    /\ Refresh({s}, Home[s], jobs, ses)
    /\ Go(s, "idle")
    /\ UNCHANGED <<mutation, at, want, joining, retry, db, stopping, history, shutdown, bounds>>

(* ------------------------- cancel and disconnect ------------------------- *)

\* The request has not completed yet.
InTime(s) == pc[s] \notin {"idle", "background", "admit", "again"}

\* application_request_cancel: the client cancels the request whose thread runs.
CancelRequest(s) ==
    /\ ses[s].status = "open" /\ pc[s] # "idle" /\ interrupted
    /\ LET owned == ses[s].active /\ ses[s].activeJob # NoJob
       IN  /\ ses' = [ses EXCEPT ![s].cancelToken = ses[s].request,
                                 ![s].activeJob = IF owned THEN NoJob ELSE @]
           /\ jobs' = IF owned THEN Drop(jobs, Times(ses[s].activeJob, 1)) ELSE jobs
    /\ asked' = [asked EXCEPT ![s] = @ \/ InTime(s)]
    /\ UNCHANGED <<watchSubs, mutation, pc, at, want, joining, retry, db, stopping, answer,
                   shutdown>>

\* application_auto_index_release_locked: the last owner stays one until the job ends.
AutoIsFinal(js, s) ==
    /\ ses[s].autoJob # NoJob
    /\ js[ses[s].autoJob].phase # "terminal" /\ js[ses[s].autoJob].subs = 1

\* What cancelling and closing a session both release: its index request, its
\* auto-index job and its watch.
Release(s) ==
    LET js1  == Drop(jobs, [j \in Jobs |-> IF ses[s].activeJob = j THEN 1 ELSE 0])
        auto == ses[s].autoJob
        fin  == AutoIsFinal(js1, s)
        js2  == IF fin THEN [js1 EXCEPT ![auto].cancel = TRUE]
                ELSE Drop(js1, [j \in Jobs |-> IF auto = j THEN 1 ELSE 0])
    IN  [jobs |-> IF ses[s].watch THEN Drop(js2, Pairs({s})) ELSE js2,
         subs |-> IF ses[s].watch THEN {x \in watchSubs : x[1] # s} ELSE watchSubs,
         join |-> IF fin THEN auto ELSE NoJob,
         ses  |-> [ses[s] EXCEPT !.activeJob = NoJob, !.autoJob = NoJob, !.watch = FALSE]]

\* application_cancel_jobs_locked
CancelAll(js) ==
    [j \in Jobs |-> [js[j] EXCEPT !.cancel = @ \/ js[j].phase \notin {"free", "terminal"}]]

\* application_session_cancel: the connection is gone.  The last live session of
\* an ordinary daemon takes all admission with it.
CancelSession(s) ==
    /\ ses[s].status = "open" /\ interrupted
    /\ LET r    == Release(s)
           last == ~Permanent /\ \A o \in Sessions \ {s} : ses[o].status # "open"
       IN  /\ jobs' = Reap(IF last THEN CancelAll(r.jobs) ELSE r.jobs)
           /\ watchSubs' = r.subs
           /\ joining' = [joining EXCEPT ![s] = r.join]
           /\ stopping' = (stopping \/ last)
           /\ ses' = [ses EXCEPT ![s] = [r.ses EXCEPT !.status = "cancelled",
                            !.cancelToken = IF ses[s].active THEN ses[s].request ELSE @]]
    /\ asked' = [asked EXCEPT ![s] = @ \/ InTime(s)]
    /\ UNCHANGED <<mutation, pc, at, want, retry, db, answer, shutdown>>

\* application_auto_index_cancel_join
Join(s) ==
    /\ joining[s] # NoJob /\ jobs[joining[s]].phase = "terminal"
    /\ jobs' = Reap(Drop(jobs, Times(joining[s], 1)))
    /\ joining' = [joining EXCEPT ![s] = NoJob]
    /\ UNCHANGED <<ses, watchSubs, mutation, pc, at, want, retry, db, stopping, history,
                   shutdown, bounds>>

\* application_session_close, once the request's thread has been joined.
CloseSession(s) ==
    /\ ses[s].status = "cancelled" /\ joining[s] = NoJob /\ pc[s] = "idle"
    /\ LET r == Release(s)
       IN  /\ jobs' = Reap(r.jobs) /\ watchSubs' = r.subs
           /\ joining' = [joining EXCEPT ![s] = r.join]
           /\ ses' = [ses EXCEPT ![s] = [r.ses EXCEPT !.status = "closed"]]
    /\ UNCHANGED <<mutation, pc, at, want, retry, db, stopping, history, shutdown, bounds>>

(* --------------------------- the job's thread ---------------------------- *)

Step(j, ph) == jobs' = [jobs EXCEPT ![j].phase = ph]
Verdict(j, v) == jobs' = [jobs EXCEPT ![j].phase = "publish", ![j].verdict = v]

JobFrame == UNCHANGED <<watchSubs, mutation, pc, at, want, joining, stopping, history,
                        shutdown, bounds>>

\* Mutant: the job starts its worker without waiting for mutations.
MayPassHasty(j) == TRUE
MayPass(j) == \A m \in muts : ~Conflict(m.key, jobs[j].project)

\* application_job_wait_for_mutations
Gate(j) ==
    /\ jobs[j].phase = "gate"
    /\ \/ Stopped(j) /\ Verdict(j, "cancelled")
       \/ ~Stopped(j) /\ MayPass(j) /\ Step(j, "attempt")
    /\ JobFrame /\ UNCHANGED <<ses, retry, db>>

\* application_job_run_attempt: the check before the worker is started.
Attempt(j) ==
    /\ jobs[j].phase = "attempt"
    /\ IF Stopped(j) THEN Verdict(j, "cancelled") ELSE Step(j, "launch")
    /\ JobFrame /\ UNCHANGED <<ses, retry, db>>

\* What follows an attempt that failed: a last one without the isolated files.
Concluded(j, v) ==
    IF jobs[j].isolated /\ jobs[j].round \in 1..MaxRestarts
    THEN jobs' = [jobs EXCEPT ![j].phase = "attempt", ![j].round = MaxRestarts + 1]
    ELSE Verdict(j, v)

\* The worker is published under the mutex; a cancellation that came first kills it.
Launch(j) ==
    /\ jobs[j].phase = "launch"
    /\ \/ jobs' = [jobs EXCEPT ![j].phase = "running", ![j].killed = Stopped(j)]
       \/ IF Stopped(j) THEN Verdict(j, "cancelled") ELSE Concluded(j, "failure")
    /\ JobFrame /\ UNCHANGED <<ses, retry, db>>

\* Mutant: only the start of the worker looks for a cancellation.
SeesCancelNever(j) == FALSE
SeesCancel(j) == Stopped(j)

\* The poll loop finds the cancellation and asks the supervisor to kill the tree.
Kill(j) ==
    /\ jobs[j].phase = "running" /\ SeesCancel(j) /\ ~jobs[j].killed
    /\ jobs' = [jobs EXCEPT ![j].killed = TRUE]
    /\ JobFrame /\ UNCHANGED <<ses, retry, db>>

\* The supervisor reports the end: the worker published a database, crashed or hung,
\* failed, or its supervision did, which is "unsafe".
WorkerEnds(j) ==
    /\ jobs[j].phase = "running"
    /\ \E v \in {"success", "failure"} \cup (IF mix.crashes THEN {"crash", "unsafe"} ELSE {}) :
            /\ jobs' = [jobs EXCEPT ![j].phase = "ended", ![j].killed = FALSE,
                                    ![j].verdict = IF Stopped(j) THEN "cancelled" ELSE v]
            /\ db' = IF v = "success" THEN db \cup {jobs[j].project} ELSE db
    /\ JobFrame /\ UNCHANGED <<ses, retry>>

\* Mutant: recovery goes on as long as files can be blamed.
RoundsLeftAlways(j) == TRUE
RoundsLeft(j) == jobs[j].round < MaxRestarts

\* application_consume_attempt, application_job_recover: a crash is retried while
\* its suspects can be told apart, isolating one of them after the first retry.
\* An unsafe end is not retried, not even without the isolated files.
Settle(j) ==
    LET v == jobs[j].verdict
    IN  /\ jobs[j].phase = "ended"
        /\ \/ (Stopped(j) \/ v = "cancelled") /\ Verdict(j, "cancelled")
           \/ ~Stopped(j) /\ v = "success" /\ Verdict(j, "success")
           \/ ~Stopped(j) /\ v = "unsafe" /\ Verdict(j, "failure")
           \/ ~Stopped(j) /\ v \in {"failure", "crash"} /\ Concluded(j, "failure")
           \/ /\ ~Stopped(j) /\ v = "crash" /\ RoundsLeft(j)
              /\ jobs' = [jobs EXCEPT ![j].phase = "attempt", ![j].round = @ + 1,
                                      ![j].isolated = @ \/ jobs[j].round > 1]
           \/ /\ ~Stopped(j) /\ v = "crash" /\ jobs[j].round = MaxRestarts /\ MaxRestarts > 1
              /\ jobs' = [jobs EXCEPT ![j].phase = "attempt", ![j].isolated = TRUE,
                                      ![j].round = MaxRestarts + 1]
        /\ JobFrame /\ UNCHANGED <<ses, retry, db>>

Revisited(j) == {s \in Sessions : ses[s].pending}

\* application_job_publish: the result, its auto-index owners, and then, still in
\* the same critical section, the sessions whose auto-index found no room.
Publish(j) ==
    LET S   == {s \in Sessions : ses[s].autoJob = j}
        js  == Drop([jobs EXCEPT ![j].phase = "terminal"], Times(j, Cardinality(S)))
        ss  == [s \in Sessions |-> IF s \in S THEN [ses[s] EXCEPT !.autoJob = NoJob] ELSE ses[s]]
    IN  /\ jobs[j].phase = "publish"
        /\ IF jobs[j].verdict = "success" THEN Refresh(S, jobs[j].project, js, ss)
           ELSE jobs' = js /\ ses' = ss /\ UNCHANGED watchSubs
        /\ retry' = {s \in Revisited(j) : /\ ~stopping /\ ss[s].autoJob = NoJob
                                         /\ ses[s].status = "open"}
        /\ UNCHANGED <<mutation, pc, at, want, joining, db, stopping, history, shutdown, bounds>>

\* application_auto_index_retry_pending_locked, one session at a time.
Retry(s) ==
    /\ s \in retry
    /\ IF Home[s] \in db
       THEN /\ Refresh({s}, Home[s], jobs, [ses EXCEPT ![s].pending = FALSE])
            /\ retry' = retry \ {s}
            /\ UNCHANGED startFailures
       ELSE \E r \in Subscribe(jobs, Home[s], Default) :
            /\ jobs' = r.jobs
            /\ ses' = IF r.job = NoJob THEN ses
                      ELSE [ses EXCEPT ![s].autoJob = r.job, ![s].pending = FALSE]
            /\ retry' = IF r.status = "BUSY" THEN {} ELSE retry \ {s}
            /\ startFailures' = startFailures + r.failed
            /\ UNCHANGED watchSubs
    /\ UNCHANGED <<mutation, pc, at, want, joining, db, stopping, history, shutdown, calls,
                   interrupts, mix>>

(* ------------------------------- mutations ------------------------------- *)

Own(a) == {m \in muts : m.owner = a}

\* Sessions wait for a busy project, daemon threads do not.
GivesUp(a) == stopping \/ (a \in Sessions /\ Cancelled(a))

MutFrame == UNCHANGED <<jobs, ses, watchSubs, at, want, joining, retry, stopping, history,
                        shutdown, bounds>>

After(a) == IF a \in Sessions THEN "refresh" ELSE "idle"

\* The mutation is refused: what it already holds is given back.
Refused(a, rest) ==
    /\ todo' = [todo EXCEPT ![a] = <<>>]
    /\ Go(a, IF rest # {} THEN "release" ELSE After(a))

Reserves(j) == jobs[j].phase \notin {"free", "terminal"}

Busy(k) ==
    \/ \E m \in muts : Conflict(m.key, k)
    \/ \E j \in Jobs : Reserves(j) /\ Conflict(jobs[j].project, k)

\* application_mutation_begin_internal: the reservation inside the daemon ...
Reserve(a) ==
    LET k == Head(todo[a])
    IN  /\ pc[a] = "reserve"
        /\ \/ /\ ~GivesUp(a) /\ ~Busy(k)
              /\ muts' = muts \cup {[owner |-> a, key |-> k, phase |-> "reserved"]}
              /\ Go(a, "lock") /\ UNCHANGED todo
           \/ /\ GivesUp(a) \/ (a \notin Sessions /\ Busy(k))
              /\ Refused(a, Own(a)) /\ UNCHANGED muts
        /\ MutFrame /\ UNCHANGED db

\* ... then the project lock among processes.  Busy and waiting: tried again.
Lock(a) ==
    LET k == Head(todo[a])
        m == [owner |-> a, key |-> k, phase |-> "reserved"]
    IN  /\ pc[a] = "lock"
        /\ \/ /\ ~GivesUp(a)
              /\ muts' = (muts \ {m}) \cup {[m EXCEPT !.phase = "held"]}
              /\ todo' = [todo EXCEPT ![a] = Tail(@)]
              /\ Go(a, IF Len(todo[a]) > 1 THEN "reserve" ELSE "mutating")
           \/ muts' = muts \ {m} /\ Refused(a, Own(a) \ {m})
        /\ MutFrame /\ UNCHANGED db

\* The operation itself.  One of a single project may be its deletion.
Mutate(a) ==
    /\ pc[a] = "mutating"
    /\ \/ UNCHANGED db /\ Go(a, "release")
       \/ \E p \in Projects :
            /\ {m.key : m \in Own(a)} = {p} /\ db' = db \ {p}
            /\ Go(a, IF a = Watcher THEN "refresh" ELSE "release")
    /\ MutFrame /\ UNCHANGED mutation

\* application_watcher_project_pruned: every session loses the project's watch.
Pruned ==
    /\ Watcher \in Callers /\ pc[Watcher] = "refresh"
    /\ LET gone == UNION {Watching(ses, m.key) : m \in Own(Watcher)}
       IN  /\ jobs' = Drop(jobs, Pairs(gone))
           /\ ses' = [s \in Sessions |-> [ses[s] EXCEPT !.watch = @ /\ s \notin gone]]
           /\ watchSubs' = {x \in watchSubs : x[1] \notin gone}
    /\ Go(Watcher, "release")
    /\ UNCHANGED <<mutation, at, want, joining, retry, db, stopping, history, shutdown, bounds>>

\* cbm_daemon_application_project_mutation_end: the reservation outlives the lock.
BeginRelease(a) ==
    /\ pc[a] = "release"
    /\ \A m \in Own(a) : m.phase = "held"
    /\ \E m \in Own(a) : muts' = (muts \ {m}) \cup {[m EXCEPT !.phase = "releasing"]}
    /\ MutFrame /\ UNCHANGED <<pc, todo, db>>

EndRelease(a) ==
    /\ pc[a] = "release"
    /\ \E m \in Own(a) :
            /\ m.phase = "releasing" /\ muts' = muts \ {m}
            /\ Go(a, IF Own(a) = {m} THEN After(a) ELSE "release")
    /\ MutFrame /\ UNCHANGED <<todo, db>>

(* ---------------------------- daemon threads ----------------------------- *)

\* Subscriptions of the sessions that watch the project when the watcher's job
\* is admitted.
WatchOwners(p, j) == {<<s, j>> : s \in {w \in Watching(ses, p) : ses[w].status = "open"}}

Lent == 1

\* application_background_index up to its wait.  The watcher only stores; the
\* sessions that watch own the job.
CallIndex(c, p) ==
    /\ pc[c] = "idle" /\ calls < mix.calls /\ c \in mix.callers /\ p \in mix.projects
    /\ calls' = calls + 1
    /\ IF c = Watcher /\ Watching(ses, p) = {}
       THEN jobs' = Reap(jobs) /\ UNCHANGED <<pc, at, watchSubs, startFailures>>
       ELSE \E r \in Subscribe(Reap(jobs), p, Default) :
            /\ startFailures' = startFailures + r.failed
            /\ IF r.job = NoJob \/ c # Watcher
               THEN /\ jobs' = r.jobs /\ at' = [at EXCEPT ![c] = r.job]
                    /\ Go(c, IF r.job = NoJob THEN "idle" ELSE "waiting")
                    /\ UNCHANGED watchSubs
               ELSE LET owners == WatchOwners(p, r.job)
                        more   == Cardinality(owners \ watchSubs)
                        waits  == IF owners = {} THEN 0 ELSE 1
                    IN  /\ watchSubs' = watchSubs \cup owners
                        /\ jobs' = Drop([r.jobs EXCEPT ![r.job].subs = @ + more,
                                                       ![r.job].waiters = @ + waits],
                                        Times(r.job, Lent))
                        /\ at' = [at EXCEPT ![c] = IF waits = 1 THEN r.job ELSE NoJob]
                        /\ Go(c, IF waits = 1 THEN "waiting" ELSE "idle")
    /\ UNCHANGED <<ses, mutation, want, joining, retry, db, stopping, history, shutdown,
                   interrupts, mix>>

\* The end of application_background_index.
CallDone(c) ==
    /\ c \in Callers /\ pc[c] = "waiting" /\ jobs[at[c]].phase = "terminal"
    /\ LET j == at[c]
       IN  IF c = Watcher
           THEN /\ watchSubs' = {x \in watchSubs : x[2] # j}
                /\ jobs' = Reap([Drop(jobs, Times(j, Pairs(Sessions)[j]))
                                    EXCEPT ![j].waiters = @ - 1])
           ELSE jobs' = Reap(Drop(jobs, Times(j, 1))) /\ UNCHANGED watchSubs
    /\ at' = [at EXCEPT ![c] = NoJob] /\ Go(c, "idle")
    /\ UNCHANGED <<ses, mutation, want, joining, retry, db, stopping, history, shutdown, bounds>>

\* cbm_daemon_application_project_mutation_try_begin: the UI writes, the watcher prunes.
CallMutate(c, p) ==
    /\ pc[c] = "idle" /\ calls < mix.calls /\ c \in mix.callers /\ p \in mix.projects
    /\ calls' = calls + 1
    /\ todo' = [todo EXCEPT ![c] = <<p>>] /\ Go(c, "reserve")
    /\ UNCHANGED <<jobs, ses, watchSubs, muts, at, want, joining, retry, db, stopping, history,
                   shutdown, interrupts, startFailures, mix>>

(* ------------------------------- shutdown -------------------------------- *)

\* cbm_daemon_application_shutdown: no more admission, everything is cancelled ...
Shutdown ==
    /\ shutdown = "no"
    /\ shutdown' = "waiting" /\ stopping' = TRUE
    /\ jobs' = CancelAll(Drop(jobs, [j \in Jobs |->
                    Cardinality({s \in Sessions : ses[s].autoJob = j})]))
    /\ ses' = [s \in Sessions |-> [ses[s] EXCEPT !.autoJob = NoJob]]
    /\ UNCHANGED <<watchSubs, mutation, pc, at, want, joining, retry, db, history, bounds>>

\* ... and the call returns when all of it is gone.
Quiet ==
    /\ muts = {}
    /\ \A s \in Sessions : ~ses[s].active
    /\ \A j \in Jobs : jobs[j].phase = "free" \/
            (jobs[j].phase = "terminal" /\ jobs[j].subs = 0 /\ jobs[j].waiters = 0)

Drained ==
    /\ shutdown = "waiting" /\ Quiet
    /\ shutdown' = "drained" /\ jobs' = Reap(jobs)
    /\ UNCHANGED <<ses, watchSubs, mutation, pc, at, want, joining, retry, db, stopping,
                   history, bounds>>

(* ----------------------------- specification ----------------------------- *)

MutationStep(a) == Reserve(a) \/ Lock(a) \/ Mutate(a) \/ BeginRelease(a) \/ EndRelease(a)

RequestStep(s) ==
    \/ Enter(s) \/ Admit(s) \/ Parked(s) \/ Confirm(s) \/ Await(s) \/ RefreshWatch(s)
    \/ Complete(s) \/ Background(s) \/ AutoAdmit(s) \/ RefreshAgain(s) \/ MutationStep(s)

JobThread(j) == Gate(j) \/ Attempt(j) \/ Launch(j) \/ Kill(j) \/ Settle(j) \/ Publish(j)

JobStep(j) == JobThread(j) \/ WorkerEnds(j)

CallerStep(c) == CallDone(c) \/ MutationStep(c)

\* A publication in progress holds the mutex until it has revisited its sessions.
Next ==
    \/ \E s \in Sessions : Retry(s)
    \/ /\ retry = {}
       /\ \/ \E s \in Sessions :
                Open(s) \/ Submit(s) \/ RequestStep(s) \/ CancelRequest(s) \/ CancelSession(s)
                        \/ Join(s) \/ CloseSession(s)
          \/ \E j \in Jobs : JobStep(j)
          \/ \E c \in Callers :
                CallerStep(c) \/ (\E p \in Projects : CallIndex(c, p) \/ CallMutate(c, p))
          \/ Pruned \/ Shutdown \/ Drained

Spec == Init /\ [][Next]_vars

\* Threads keep running, and so does what a mutation does; a worker's tree that is
\* being killed ends.  Where workers hang, one that nobody kills may run for ever;
\* elsewhere it ends by itself: it is done, or the supervisor finds it silent.
\* Clients, the host, the UI and the watcher's clock need not do anything more.
FairSpec ==
    /\ Spec
    /\ \A s \in Sessions :
        /\ WF_vars(Retry(s))
        /\ WF_vars(retry = {} /\ RequestStep(s))
        /\ WF_vars(retry = {} /\ (Join(s) \/ CloseSession(s)))
    /\ \A j \in Jobs :
        /\ WF_vars(retry = {} /\ JobThread(j))
        /\ WF_vars(retry = {} /\ (jobs[j].killed \/ ~mix.hangs) /\ WorkerEnds(j))
    /\ \A c \in Callers : WF_vars(retry = {} /\ CallerStep(c))
    /\ WF_vars(retry = {} /\ (Pruned \/ Drained))

(* ------------------------------- properties ------------------------------ *)

\* Workers of a project, and the mutations that conflict with it, exclude each
\* other: from the moment a job has passed the mutations until its worker's
\* process tree is gone, no reservation of its project exists (mutation_begin
\* and job_wait_for_mutations look at each other's lists).
WriterAlone ==
    /\ \A j \in Jobs, m \in muts :
            jobs[j].phase \in {"attempt", "launch", "running", "ended"}
                => ~Conflict(m.key, jobs[j].project)
    /\ \A m, n \in muts : m # n => ~Conflict(m.key, n.key)

\* The subscription count of a job is the number of references that count: the
\* requests, auto-index owners, watch owners, disconnects and UI calls that hold
\* it, at every point between their critical sections.  In particular no job is
\* freed while one of them still has its address.
SubsCounted ==
    \A j \in Jobs :
        /\ jobs[j].subs = Cardinality({s \in Sessions : ses[s].activeJob = j})
                + Cardinality({s \in Sessions : ses[s].autoJob = j})
                + Cardinality({s \in Sessions : joining[s] = j})
                + Cardinality({x \in watchSubs : x[2] = j})
                + Cardinality({a \in Actors : at[a] = j /\
                    (pc[a] = "admitted" \/ a \in Callers \ {Watcher})})
        /\ jobs[j].waiters = Cardinality({c \in Callers \cap {Watcher} : at[c] = j})

\* Work nobody owns any more is being cancelled; work that a request, an
\* auto-index session or the UI owns is cancelled only when the daemon stops.
DemandDriven ==
    ~stopping => \A j \in Active(jobs) :
        IF jobs[j].cancel
        THEN /\ \A s \in Sessions : ses[s].activeJob # j /\ ses[s].autoJob # j
             /\ \A a \in Actors \ {Watcher} : at[a] = j => pc[a] = "waiting" /\ a \in Sessions
        ELSE jobs[j].subs > 0

\* The sessions that own a job through the watcher are those that watch its project.
Attached(j) == {x[1] : x \in {y \in watchSubs : y[2] = j}} = Watching(ses, jobs[j].project)

\* A job the watcher waits for starts with the sessions that watch its project as
\* its owners, and they stay that: one that leaves ceases to be one, and a late one
\* becomes one (watch_job_subscribe_late_session), as long as anybody watches.
WatchersOwn ==
    [][\A j \in Jobs :
          /\ j \in Active(jobs') /\ jobs'[j].waiters > 0
          /\ jobs[j].waiters = 0 \/ (Attached(j) /\ Watching(ses, jobs[j].project) # {})
          => Attached(j)']_vars

\* A disconnect is the ownership boundary: from then on, whatever the session's
\* request thread still does, the session owns no job and no watch.
CancelledOwnsNothing ==
    \A s \in Sessions : ses[s].status \in {"cancelled", "closed"} =>
        /\ ses[s].activeJob = NoJob /\ ses[s].autoJob = NoJob /\ ~ses[s].watch
        /\ \A x \in watchSubs : x[1] # s

\* A request is answered as cancelled exactly if its client cancelled it, or went
\* away, before it completed; a late cancellation never hits the next request.
CancelIsExact ==
    \A s \in Sessions : answer[s] \in {"done", "cancelled"} =>
        (answer[s] = "cancelled" <=> asked[s])

\* No lost wake-up: a session whose auto-index found no room is revisited by some
\* publication, as a job whose publication is still to come exists.
PendingHasWaker ==
    retry = {} /\ ~stopping /\ startFailures = 0 =>
        \A s \in Sessions : ses[s].pending /\ ses[s].status = "open" => Active(jobs) # {}

\* Who has a job: its references are counted, no disconnected session is among
\* them, work without any is being cancelled, a session that waits for room has a
\* waker, and whoever writes a project writes it alone.
JobsSound ==
    SubsCounted /\ CancelledOwnsNothing /\ DemandDriven /\ PendingHasWaker /\ WriterAlone

\* What is cancelled, of requests and of jobs, is what should be.
CancelledRightly == CancelIsExact /\ DemandDriven

\* Refinement: workers alive and mutations with a lease implement the gate.
Gated == INSTANCE ProjectGate WITH
            Project  <- Projects,
            indexing <- {jobs[j].project : j \in {i \in Jobs : jobs[i].phase = "running"}},
            mutating <- {m.key : m \in {n \in muts : n.phase = "held"}}
ImplementsGate == Gated!Spec

\* Every request is answered unless workers hang: an index behind a full house, a
\* mutation behind a job, and several keys of one mutation wait for each other only
\* in lock order.
RequestsEnd == \A s \in Sessions : ~mix.hangs /\ pc[s] # "idle" ~> pc[s] = "idle"

\* A disconnected session is closed: its request and its last job come to an end,
\* even if a worker that nobody kills would run for ever.
DisconnectsEnd == \A s \in Sessions : ses[s].status = "cancelled" ~> ses[s].status = "closed"

\* Once a shutdown has reported success, nothing of the application works any more
\* and nothing starts again.
DrainedForGood == shutdown = "drained" => muts = {} /\ Active(jobs) = {}

\* A shutdown that has begun reports success in the end, and means it.
ShutdownDrains == (shutdown = "waiting" ~> shutdown = "drained") /\ []DrainedForGood

\* Whoever leaves gets away, and so does the daemon.
PartingEnds == DisconnectsEnd /\ ShutdownDrains
=============================================================================
