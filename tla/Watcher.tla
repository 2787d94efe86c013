------------------------------ MODULE Watcher ------------------------------
(***************************************************************************)
(* watcher/watcher.c: the thread that polls watched projects with git and  *)
(* has changed ones indexed, and that prunes projects whose root is gone;  *)
(* with what it shares in the daemon: the logical watches of sessions, the *)
(* index jobs and project mutations of application.c, and the deletion of  *)
(* a project through the UI server or a tool call.                         *)
(*                                                                         *)
(* What a poll sees of a work tree is its HEAD and its dirty signature.    *)
(* Numbers stand for both: an edit or a commit is new (the signature folds *)
(* in sizes and times), 0 is a clean tree or a repository with no commit.  *)
(* rev counts changes; a database is the revision its index read, or NoDb. *)
(*                                                                         *)
(* application->mutex is only shown where it spans more than one step; a   *)
(* job is only what its readers and writers see of it (IndexJobs has the   *)
(* rest).  Left out: memory exhaustion, a watch moved to another root (the *)
(* application refuses a second root), the option that turns watches off,  *)
(* a grace period of zero, and cbm_watcher_free, after the thread's end.   *)
(***************************************************************************)
EXTENDS Integers, FiniteSetsExt

CONSTANTS
    Projects, Sessions,
    Home,           \* the project each session has as its context
    States, NoState,    \* storage of project_state_t
    NoOne,
    MissingRootDeleteAfter, \* MISSING_ROOT_DELETE_AFTER
    Budgets         \* bound: the largest numbers of events of each kind explored

ASSUME NamesAssumption ==
    /\ Home \in [Sessions -> Projects]
    /\ NoState \notin States /\ NoOne \notin Sessions
ASSUME PruneAssumption == MissingRootDeleteAfter \in Nat \ {0}
Event == {"change", "move", "fault", "index", "delete"}
ASSUME BudgetAssumption == Budgets \subseteq [Event -> Nat]

VARIABLES
    tree,       \* the work trees: [Projects -> [head, edit, root]]
    rev,        \* history: number of changes of each tree
    db,         \* revision in each project's database, or NoDb
    st,         \* [States -> State]
    table,      \* w->projects: [Projects -> States \cup {NoState}]
    pc,         \* where the poll thread is
    cur,        \* the state it works on
    snap,       \* the states of its snapshot it has still to visit
    seen,       \* pending_head, pending_dirty_sig, and whether they are a change
    answer,     \* what index_fn returned
    joined,     \* history: the job it called for had read the tree before
    stopped,    \* w->stopped
    job,        \* active index job of each project
    lease,      \* who has each project's mutation: a prune, the UI server, a tool call
    logical,    \* projects with an application watch
    watch,      \* sessions with session->watch # NULL
    mutex,      \* session in application_refresh_watch
    found,      \* db_exists, as that session saw it
    del,        \* how far the deletion that has the lease is
    cut,        \* history: logical watches whose physical one a deletion took away
    events      \* number of events of each kind, kept within a budget

poll == <<pc, cur, snap, seen, answer, joined>>
world == <<tree, rev>>
app == <<logical, watch, mutex, found, cut>>
vars == <<poll, world, app, db, st, table, stopped, job, lease, del, events>>

NoDb == -1

State == [life : {"free", "live", "deferred"}, project : Projects, registered : BOOLEAN,
          baseline : BOOLEAN, git : BOOLEAN, due : BOOLEAN, head : Nat, sig : Nat,
          missing : 0..MissingRootDeleteAfter, aged : BOOLEAN,
          indexed : Nat \cup {NoDb}, own : BOOLEAN]    \* history: of the committed baseline

Blank(p) == [life |-> "free", project |-> p, registered |-> FALSE, baseline |-> FALSE,
             git |-> FALSE, due |-> TRUE, head |-> 0, sig |-> 0, missing |-> 0,
             aged |-> FALSE, indexed |-> NoDb, own |-> TRUE]

NoJob == [phase |-> "none", read |-> NoDb, watcher |-> FALSE]
Unseen == [head |-> 0, sig |-> 0, rev |-> 0, changed |-> FALSE]

TypeOK ==
    /\ tree \in [Projects -> [head : Nat, edit : Nat,
                              root : {"present", "missing", "uncertain"}]]
    /\ rev \in [Projects -> Nat] /\ db \in [Projects -> Nat \cup {NoDb}]
    /\ st \in [States -> State]
    /\ table \in [Projects -> States \cup {NoState}]
    /\ pc \in {"idle", "next", "root", "baseline", "head", "sig", "admit", "call", "wait",
               "prune", "recheck", "pruned", "release", "done"}
    /\ cur \in States \cup {NoState} /\ snap \subseteq States
    /\ seen \in [head : Nat, sig : Nat, rev : Nat, changed : BOOLEAN]
    /\ answer \in {"none", "ok", "retry", "error"}
    /\ joined \in BOOLEAN /\ stopped \in BOOLEAN
    /\ job \in [Projects -> [phase : {"none", "begun", "read", "written"},
                             read : Nat \cup {NoDb}, watcher : BOOLEAN]]
    /\ lease \in [Projects -> {"free", "prune", "ui", "tool"}]
    /\ logical \subseteq Projects /\ watch \subseteq Sessions
    /\ cut \subseteq Projects
    /\ mutex \in Sessions \cup {NoOne} /\ found \in BOOLEAN
    /\ del \in [Projects -> {"none", "held", "unlinked", "end"}]
    /\ events \in [Event -> Nat]

Init ==
    /\ tree \in [Projects -> [head : {0, 1}, edit : {0}, root : {"present"}]]
    /\ rev = [p \in Projects |-> 0] /\ db = [p \in Projects |-> 0]
    /\ \E p \in Projects : st = [q \in States |-> Blank(p)]
    /\ table = [p \in Projects |-> NoState]
    /\ pc = "idle" /\ cur = NoState /\ snap = {} /\ seen = Unseen
    /\ answer = "none" /\ joined = FALSE /\ stopped = FALSE
    /\ job = [p \in Projects |-> NoJob] /\ lease = [p \in Projects |-> "free"]
    /\ logical = {} /\ watch = {} /\ mutex = NoOne /\ found = FALSE /\ cut = {}
    /\ del = [p \in Projects |-> "none"]
    /\ events = [e \in Event |-> 0]

\* One event more, if a budget allows it.
Count(e) ==
    /\ events' = [events EXCEPT ![e] = @ + 1]
    /\ \E b \in Budgets : \A k \in Event : events'[k] <= b[k]

(* ------------------------------- the table ------------------------------- *)

Deferred == {q \in States : st[q].life = "deferred"}
Root(p) == tree[p].root
P == st[cur].project

\* Mutant: the state is freed at once.
TombstoneNow(q) == [st EXCEPT ![q] = Blank(st[q].project)]
\* defer_state_free and the end of the registration, which also cancels its git.
Tombstone(q) == [st EXCEPT ![q].life = "deferred", ![q].registered = FALSE]

\* cbm_watcher_unwatch
Unwatch(p) ==
    IF table[p] = NoState THEN UNCHANGED <<st, table>>
    ELSE /\ st' = Tombstone(table[p]) /\ table' = [table EXCEPT ![p] = NoState]

\* cbm_watcher_watch: an identical watch stays as it is.
Watch(p) ==
    IF table[p] # NoState THEN UNCHANGED <<st, table>>
    ELSE \E q \in States :
            /\ st[q].life = "free"
            /\ st' = [st EXCEPT ![q] = [Blank(p) EXCEPT !.life = "live", !.registered = TRUE]]
            /\ table' = [table EXCEPT ![p] = q]

\* cbm_watcher_stop
Stop ==
    /\ ~stopped /\ stopped' = TRUE
    /\ UNCHANGED <<poll, world, app, db, st, table, job, lease, del, events>>

\* next_poll_ns passes: a poll compares it with the time it began at.
Elapse(q) ==
    /\ pc = "idle" /\ st[q].life = "live" /\ ~st[q].due
    /\ st' = [st EXCEPT ![q].due = TRUE]
    /\ UNCHANGED <<poll, world, app, db, table, stopped, job, lease, del, events>>

\* prune_grace_s passes since first_missing_ms.
Age(q) ==
    /\ pc = "idle" /\ st[q].missing > 0 /\ ~st[q].aged
    /\ st' = [st EXCEPT ![q].aged = TRUE]
    /\ UNCHANGED <<poll, world, app, db, table, stopped, job, lease, del, events>>

(* -------------------------------- a poll --------------------------------- *)

Polling(where) ==
    /\ pc = where
    /\ UNCHANGED <<world, app, stopped, del>>

\* The end of poll_project.
Next1 == pc' = "next" /\ cur' = NoState /\ seen' = Unseen /\ answer' = "none" /\ joined' = FALSE
Keep == UNCHANGED <<db, table, job, lease>>

\* cbm_watcher_run, and the snapshot of cbm_watcher_poll_once.
StartPoll ==
    /\ Polling("idle") /\ ~stopped /\ Keep
    /\ st' = [q \in States |-> IF q \in Deferred THEN Blank(st[q].project) ELSE st[q]]
    /\ snap' = {table[p] : p \in Projects} \ {NoState}
    /\ pc' = "next" /\ UNCHANGED <<cur, seen, answer, joined, events>>

EndPoll ==
    /\ Polling("next") /\ snap = {} /\ Keep
    /\ pc' = "idle" /\ UNCHANGED <<cur, snap, seen, answer, joined, st, events>>

Exit ==
    /\ Polling("idle") /\ stopped /\ Keep
    /\ pc' = "done" /\ UNCHANGED <<cur, snap, seen, answer, joined, st, events>>

Visiting(q) ==
    /\ Polling("next") /\ q \in snap /\ snap' = snap \ {q}
    /\ Keep /\ UNCHANGED <<seen, answer, joined, events>>

SkipUnwatched(q) ==
    /\ Visiting(q) /\ ~st[q].registered /\ UNCHANGED <<pc, cur, st>>

\* An unreadable root, or one that is there, ends the streak of misses.
StreakEnds(q) == st' = [st EXCEPT ![q].missing = 0, ![q].aged = FALSE]

RootUncertain(q) ==
    /\ Visiting(q) /\ st[q].registered /\ Root(st[q].project) = "uncertain"
    /\ StreakEnds(q) /\ UNCHANGED <<pc, cur>>

\* Mutant: first_missing_ms is set by every miss.
StampedAgain(q) == FALSE
\* prune_grace_s has passed since first_missing_ms, which the first miss sets.
Stamped(q) == st[q].missing > 0 /\ st[q].aged

\* missing_root_count matters up to MissingRootDeleteAfter only.
RootMissing(q) ==
    /\ Visiting(q) /\ st[q].registered /\ Root(st[q].project) = "missing"
    /\ LET n == Min({st[q].missing + 1, MissingRootDeleteAfter})
           prune == n = MissingRootDeleteAfter /\ Stamped(q)
       IN  /\ st' = [st EXCEPT ![q].missing = n, ![q].aged = Stamped(q)]
           /\ pc' = (IF prune THEN "prune" ELSE pc) /\ cur' = (IF prune THEN q ELSE cur)

RootPresent(q) ==
    /\ Visiting(q) /\ st[q].registered /\ Root(st[q].project) = "present"
    /\ StreakEnds(q)
    /\ LET to == IF ~st[q].baseline THEN "root"
                 ELSE IF st[q].git /\ st[q].due THEN "head" ELSE "next"
       IN  pc' = to /\ cur' = (IF to = "next" THEN cur ELSE q)

\* watcher_git_run: a command succeeds, fails (a missing root, no repository, no
\* commit), or is given up (cancelled by stop or unwatch, a deadline, a limit).
Spend(free) == IF free THEN UNCHANGED events ELSE Count("fault")
GitOk == Root(P) = "present" /\ UNCHANGED events
GitFails == Spend(Root(P) # "present")
GitGivenUp == Spend(stopped \/ ~st[cur].registered)

\* init_baseline: the root, and whether it is a repository.
BaselineRoot ==
    /\ Polling("root") /\ Keep /\ UNCHANGED snap
    /\ \/ /\ GitOk /\ pc' = "baseline" /\ UNCHANGED <<cur, seen, answer, joined, st>>
       \/ /\ GitFails /\ Next1
          /\ st' = [st EXCEPT ![cur].baseline = TRUE, ![cur].git = FALSE,
                              ![cur].due = Root(P) # "present" /\ @]
       \/ /\ GitGivenUp /\ Next1 /\ UNCHANGED st

\* init_baseline: HEAD and the number of files.
BaselineHead ==
    /\ Polling("baseline") /\ Keep /\ UNCHANGED snap /\ Next1
    /\ \E head \in {0, tree[P].head} :
        /\ IF head = tree[P].head /\ Root(P) = "present" THEN GitOk ELSE GitFails /\ head = 0
        /\ st' = [st EXCEPT ![cur].baseline = TRUE, ![cur].git = TRUE, ![cur].due = FALSE,
                            ![cur].head = head]

BaselineGivenUp ==
    /\ Polling("baseline") /\ Keep /\ UNCHANGED snap /\ Next1
    /\ GitGivenUp /\ st' = [st EXCEPT ![cur].git = TRUE]

\* check_changes: HEAD.  The first one seen becomes the baseline.
CheckHead ==
    /\ Polling("head") /\ Keep /\ pc' = "sig" /\ UNCHANGED <<cur, snap, answer, joined>>
    /\ \E head \in {0, tree[P].head} :
        /\ IF head = tree[P].head /\ Root(P) = "present" THEN GitOk ELSE GitFails /\ head = 0
        /\ seen' = [seen EXCEPT !.head = head,
                                !.changed = head # 0 /\ st[cur].head \notin {0, head}]
        /\ st' = [st EXCEPT ![cur].head = IF @ = 0 THEN head ELSE @]

\* check_changes: the dirty signature.
CheckTree ==
    /\ Polling("sig") /\ Keep /\ UNCHANGED snap /\ GitOk
    /\ LET changed == seen.changed \/ tree[P].edit # st[cur].sig
       IN  IF changed
           THEN /\ seen' = [seen EXCEPT !.sig = tree[P].edit, !.rev = rev[P], !.changed = TRUE]
                /\ pc' = "admit" /\ UNCHANGED <<cur, answer, joined, st>>
           ELSE Next1 /\ st' = [st EXCEPT ![cur].due = FALSE]

CheckTreeFails ==
    /\ Polling("sig") /\ Keep /\ UNCHANGED snap /\ GitFails /\ Next1
    /\ st' = [st EXCEPT ![cur].due = FALSE]

CheckGivenUp ==
    /\ pc \in {"head", "sig"} /\ Polling(pc) /\ Keep /\ UNCHANGED <<snap, st>>
    /\ GitGivenUp /\ Next1

\* The last look at registered before index_fn.
Admit ==
    /\ Polling("admit") /\ Keep /\ UNCHANGED <<snap, st, events>>
    /\ IF st[cur].registered THEN pc' = "call" /\ UNCHANGED <<cur, seen, answer, joined>>
                             ELSE Next1

Active(p) == job[p].phase # "none"

\* application_background_index: joins an active job of the project or starts one.
Call ==
    /\ Polling("call") /\ mutex = NoOne /\ Root(P) = "present" /\ P \in logical
    /\ job' = [job EXCEPT ![P] = [IF Active(P) THEN @ ELSE [NoJob EXCEPT !.phase = "begun"]
                                     EXCEPT !.watcher = TRUE]]
    /\ joined' = (job[P].phase \in {"read", "written"}) /\ pc' = "wait"
    /\ UNCHANGED <<cur, snap, seen, answer, db, st, table, lease, events>>

\* ... or it is refused: the root is gone, nobody watches, no room for a job.
CallRefused ==
    /\ Polling("call") /\ mutex = NoOne /\ Keep /\ UNCHANGED <<cur, snap, seen, joined, st>>
    /\ Spend(Root(P) # "present" \/ P \notin logical)
    /\ pc' = "wait" /\ answer' \in {"retry", "error"}

\* Mutant: a baseline is committed whatever the index returned.
CommittedAlways(q) ==
    [st EXCEPT ![q].head = IF seen.head = 0 THEN @ ELSE seen.head, ![q].sig = seen.sig,
               ![q].indexed = seen.rev, ![q].own = ~joined, ![q].due = FALSE]
\* Mutant: the signature is forgotten.
CommittedHead(q) == IF answer = "ok" THEN [st EXCEPT ![q].head = seen.head, ![q].due = FALSE]
                                     ELSE [st EXCEPT ![q].due = FALSE]
\* What was observed at the check is committed once it is indexed.
Committed(q) ==
    IF answer = "ok"
    THEN [st EXCEPT ![q].head = IF seen.head = 0 THEN @ ELSE seen.head, ![q].sig = seen.sig,
                    ![q].indexed = seen.rev, ![q].own = ~joined, ![q].due = FALSE]
    ELSE [st EXCEPT ![q].due = FALSE]

Answered ==
    /\ Polling("wait") /\ answer # "none" /\ Keep /\ UNCHANGED <<snap, events>>
    /\ st' = Committed(cur) /\ Next1

(* ------------------------------- pruning --------------------------------- *)

\* cbm_daemon_application_project_mutation_try_begin
Begin(p, who) ==
    /\ mutex = NoOne /\ lease[p] = "free" /\ ~Active(p)
    /\ lease' = [lease EXCEPT ![p] = who]

\* prune_missing_project, with the coordination lock.
PruneBegin ==
    /\ Polling("prune") /\ Begin(P, "prune") /\ pc' = "recheck"
    /\ UNCHANGED <<cur, snap, seen, answer, joined, db, st, table, job, events>>

PruneRefused ==
    /\ Polling("prune") /\ mutex = NoOne /\ (lease[P] # "free" \/ Active(P)) /\ Keep
    /\ Next1 /\ UNCHANGED <<snap, st, events>>

Eligible(q) ==
    /\ table[P] = q /\ Root(P) = "missing"
    /\ st[q].missing = MissingRootDeleteAfter /\ st[q].aged

\* With projects_lock: the database goes first, then its sidecars, then the watch.
PruneDelete ==
    /\ Polling("recheck") /\ Eligible(cur)
    /\ db' = [db EXCEPT ![P] = NoDb]
    /\ st' = Tombstone(cur) /\ table' = [table EXCEPT ![P] = NoState]
    /\ pc' = "pruned"
    /\ UNCHANGED <<cur, snap, seen, answer, joined, job, lease, events>>

\* A file cannot be unlinked: the watch stays, and so may the database.
PruneFails ==
    /\ Polling("recheck") /\ Eligible(cur) /\ Spend(FALSE)
    /\ db' \in {db, [db EXCEPT ![P] = NoDb]}
    /\ pc' = "release" /\ UNCHANGED <<cur, snap, seen, answer, joined, st, table, job, lease>>

PruneSpares ==
    /\ Polling("recheck") /\ ~Eligible(cur) /\ Keep
    /\ pc' = "release" /\ UNCHANGED <<cur, snap, seen, answer, joined, st, events>>

\* application_remove_watch_entry_locked, of the logical watch
Forgotten(p) ==
    /\ logical' = logical \ {p}
    /\ watch' = {s \in watch : Home[s] # p}
    /\ cut' = cut \ {p}

\* application_watcher_project_pruned
PruneTold ==
    /\ pc = "pruned" /\ mutex = NoOne /\ Forgotten(P) /\ pc' = "release"
    /\ UNCHANGED <<cur, snap, seen, answer, joined, world, mutex, found, db, st, table,
                   stopped, job, lease, del, events>>

PruneEnd ==
    /\ Polling("release") /\ mutex = NoOne
    /\ lease' = [lease EXCEPT ![P] = "free"]
    /\ Next1 /\ UNCHANGED <<snap, db, st, table, job, events>>

(* --------------------- index jobs, as the watcher sees -------------------- *)

Working == UNCHANGED <<world, app, st, table, stopped, lease, del, pc, cur, snap, seen,
                       joined>>

\* A session or the UI server has the project indexed.
ClientIndex(p) ==
    /\ Working /\ mutex = NoOne /\ ~Active(p) /\ Count("index")
    /\ job' = [job EXCEPT ![p].phase = "begun"]
    /\ UNCHANGED <<db, answer>>

\* The job reads the tree once no mutation holds the project.
JobRead(p) ==
    /\ Working /\ job[p].phase = "begun" /\ lease[p] = "free" /\ Root(p) = "present"
    /\ job' = [job EXCEPT ![p].phase = "read", ![p].read = rev[p]]
    /\ UNCHANGED <<db, answer, events>>

\* application_job_publish, of what the waiters see
Terminal(p, as) ==
    /\ job' = [job EXCEPT ![p] = NoJob]
    /\ answer' = IF job[p].watcher THEN as ELSE answer

JobWrite(p) ==
    /\ Working /\ job[p].phase = "read"
    /\ db' = [db EXCEPT ![p] = job[p].read] /\ job' = [job EXCEPT ![p].phase = "written"]
    /\ UNCHANGED <<answer, events>>

JobDone(p) ==
    /\ Working /\ job[p].phase = "written" /\ mutex = NoOne /\ Terminal(p, "ok")
    /\ UNCHANGED <<db, events>>

\* It fails, or is cancelled: always when its root is gone, or its watchers are.
JobFails(p) ==
    /\ Working /\ Active(p) /\ mutex = NoOne
    /\ Spend(Root(p) # "present" \/ p \notin logical)
    /\ \E as \in {"retry", "error"} : Terminal(p, as)
    /\ UNCHANGED db

(* ------------------------ sessions and deletions ------------------------- *)

Serving == UNCHANGED <<poll, world, stopped, job>>

\* application_release_session_watch_locked
Leave(s) ==
    /\ Serving /\ s \in watch /\ mutex = NoOne /\ watch' = watch \ {s}
    /\ IF \A t \in watch \ {s} : Home[t] # Home[s]
       THEN logical' = logical \ {Home[s]} /\ cut' = cut \ {Home[s]} /\ Unwatch(Home[s])
       ELSE UNCHANGED <<logical, cut, st, table>>
    /\ UNCHANGED <<mutex, found, db, lease, del, events>>

\* application_refresh_watch: the mutex is taken and the database looked for
RefreshLook(s) ==
    /\ Serving /\ mutex = NoOne
    /\ \E q \in States : st[q].life = "free"            \* bounded storage
    /\ mutex' = s /\ found' = (db[Home[s]] # NoDb)
    /\ UNCHANGED <<logical, watch, cut, db, st, table, lease, del, events>>

\* ... no database: the watch goes, for all its sessions.
RefreshDrops(s) ==
    /\ Serving /\ mutex = s /\ ~found /\ mutex' = NoOne /\ found' = FALSE
    /\ IF Home[s] \in logical THEN Forgotten(Home[s]) /\ Unwatch(Home[s])
                              ELSE UNCHANGED <<logical, watch, cut, st, table>>
    /\ UNCHANGED <<db, lease, del, events>>

\* ... a watch that exists is joined, a new one registered, unless that fails.
RefreshKeeps(s) ==
    /\ Serving /\ mutex = s /\ found /\ mutex' = NoOne /\ found' = FALSE
    /\ \/ /\ Home[s] \in logical
          /\ watch' = watch \cup {s} /\ UNCHANGED <<logical, st, table, events>>
       \/ /\ Home[s] \notin logical /\ ~stopped
          /\ Watch(Home[s])
          /\ logical' = logical \cup {Home[s]} /\ watch' = watch \cup {s} /\ UNCHANGED events
       \/ /\ Home[s] \notin logical /\ Spend(stopped)
          /\ UNCHANGED <<logical, watch, st, table>>
    /\ UNCHANGED <<cut, db, lease, del>>

\* handle_delete_project of the UI server and of the tool call
DeleteBegin(p) ==
    /\ Serving /\ Count("delete")
    /\ \E who \in {"ui", "tool"} : Begin(p, who)
    /\ del' = [del EXCEPT ![p] = "held"]
    /\ UNCHANGED <<app, db, st, table>>

\* unlink; a session has no watcher to tell, the UI server has.
DeleteFile(p) ==
    /\ Serving /\ del[p] = "held"
    /\ db' = [db EXCEPT ![p] = NoDb]
    /\ del' = [del EXCEPT ![p] = IF lease[p] = "ui" THEN "unlinked" ELSE "end"]
    /\ UNCHANGED <<app, st, table, lease, events>>

DeleteFails(p) ==
    /\ Serving /\ del[p] = "held"
    /\ del' = [del EXCEPT ![p] = "end"]
    /\ UNCHANGED <<app, db, st, table, lease, events>>

\* unwatch_project
DeleteUnwatches(p) ==
    /\ Serving /\ del[p] = "unlinked"
    /\ Unwatch(p) /\ del' = [del EXCEPT ![p] = "end"]
    /\ cut' = cut \cup ({p} \cap logical)
    /\ UNCHANGED <<logical, watch, mutex, found, db, lease, events>>

DeleteEnd(p) ==
    /\ Serving /\ del[p] = "end" /\ mutex = NoOne
    /\ lease' = [lease EXCEPT ![p] = "free"]
    /\ del' = [del EXCEPT ![p] = "none"]
    /\ UNCHANGED <<app, db, st, table, events>>

(* ------------------------------ work trees ------------------------------- *)

Outside == UNCHANGED <<poll, app, db, st, table, stopped, job, lease, del>>

\* An edit, a commit, a revert, a checkout of the first commit.
Change(p) ==
    /\ Outside /\ Root(p) = "present" /\ Count("change")
    /\ LET t == tree[p]
           to == {<<t.head, rev[p] + 2>>, <<rev[p] + 2, 0>>, <<t.head, 0>>, <<1, 0>>}
       IN  \E x \in to \ {<<t.head, t.edit>>} :
                tree' = [tree EXCEPT ![p].head = x[1], ![p].edit = x[2]]
    /\ rev' = [rev EXCEPT ![p] = @ + 1]

\* The root disappears, comes back, or cannot be read for a while.
Move(p) ==
    /\ Outside /\ Count("move")
    /\ \E r \in {"present", "missing", "uncertain"} \ {Root(p)} :
            tree' = [tree EXCEPT ![p].root = r]
    /\ UNCHANGED rev

(* ----------------------------- specification ----------------------------- *)

PollStep ==
    \/ StartPoll \/ EndPoll \/ Exit
    \/ \E q \in States : SkipUnwatched(q) \/ RootUncertain(q) \/ RootMissing(q) \/ RootPresent(q)
    \/ BaselineRoot \/ BaselineHead \/ BaselineGivenUp
    \/ CheckHead \/ CheckTree \/ CheckTreeFails \/ CheckGivenUp
    \/ Admit \/ Call \/ CallRefused \/ Answered
    \/ PruneBegin \/ PruneRefused \/ PruneDelete \/ PruneFails \/ PruneSpares
    \/ PruneTold \/ PruneEnd

JobStep(p) == JobRead(p) \/ JobWrite(p) \/ JobDone(p) \/ JobFails(p)
RefreshStep(s) == RefreshDrops(s) \/ RefreshKeeps(s)
DeleteStep(p) == DeleteFile(p) \/ DeleteFails(p) \/ DeleteUnwatches(p) \/ DeleteEnd(p)

Next ==
    \/ PollStep \/ Stop
    \/ \E q \in States : Elapse(q) \/ Age(q)
    \/ \E s \in Sessions : Leave(s) \/ RefreshLook(s) \/ RefreshStep(s)
    \/ \E p \in Projects :
        \/ JobStep(p) \/ ClientIndex(p) \/ DeleteBegin(p) \/ DeleteStep(p)
        \/ Change(p) \/ Move(p)

\* Threads go on, and get the mutex they wait for; time passes.  Nobody has to
\* change a tree, connect, ask for an index or a deletion, or stop the watcher.
Fairness ==
    /\ SF_vars(PollStep) /\ SF_vars(\E q \in States : Elapse(q) \/ Age(q))
    /\ \A p \in Projects : SF_vars(JobStep(p)) /\ SF_vars(DeleteStep(p))
    /\ \A s \in Sessions : WF_vars(RefreshStep(s))

SafeSpec == Init /\ [][Next]_vars
Spec == SafeSpec /\ Fairness

(* ------------------------------ properties ------------------------------- *)

Watched(p) == table[p] # NoState

\* No state that the table, the snapshot or the poll itself still refers to has
\* been freed, and the table holds exactly the live states, under their projects:
\* what unwatching defers, the next poll frees (watcher.c:709, 1365).
StatesAlive ==
    /\ \A p \in Projects : Watched(p) =>
            /\ st[table[p]].life = "live" /\ st[table[p]].registered
            /\ st[table[p]].project = p
    /\ \A q \in States : st[q].life = "live" => table[st[q].project] = q
    /\ \A q \in snap \cup ({cur} \ {NoState}) : st[q].life # "free"

\* A project has a logical watch exactly if it has a physical one, but while a
\* prune has yet to tell the application, and after a deletion by the UI server
\* has taken the physical one away (application.c:497, 1004).
WatchesAgree ==
    \A p \in Projects :
        \/ p \in logical <=> Watched(p)
        \/ p \in logical /\ p \in cut
        \/ p \in logical /\ pc = "pruned" /\ P = p

\* The books of the watches: their states live and die in order, and the physical
\* and the logical ones agree.
WatchesSound == TypeOK /\ StatesAlive /\ WatchesAgree

\* A committed baseline is no newer than what the database was built from, so that
\* no change is taken for indexed that is not.
CommittedIsIndexed ==
    \A p \in Projects : Watched(p) /\ db[p] # NoDb => st[table[p]].indexed <= db[p]

\* The same, of baselines whose index read the tree after it was checked.
OwnIndexIsCommitted ==
    \A p \in Projects :
        Watched(p) /\ db[p] # NoDb /\ st[table[p]].own => st[table[p]].indexed <= db[p]

\* What git shows of a watched work tree differs from what was committed.
Differs(p) ==
    /\ Watched(p) /\ Root(p) = "present" /\ ~stopped
    /\ LET q == st[table[p]]
       IN  /\ q.baseline /\ q.git
           /\ \/ tree[p].edit # q.sig
              \/ q.head # 0 /\ tree[p].head \notin {0, q.head}

\* A difference does not last: failed, refused and cancelled indexes are retried
\* until one that read it has succeeded (watcher.c:1319).
ChangesAreIndexed == \A p \in Projects : []<>~Differs(p)

\* A project whose root stays away is pruned, whatever its watch was doing.
GoneIsPruned ==
    \A p \in Projects :
        Watched(p) /\ Root(p) = "missing" ~> ~Watched(p) \/ Root(p) # "missing" \/ stopped

=============================================================================
