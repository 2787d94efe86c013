---------------------------- MODULE WatcherProofs ----------------------------
(***************************************************************************)
(* The books of the watches are sound (WatchesSound), and a baseline whose *)
(* index read the tree after the check is no newer than the database       *)
(* (OwnIndexIsCommitted), for any number of projects, sessions, states and *)
(* events.                                                                 *)
(*                                                                         *)
(* The argument.  States are freed between polls only, when the thread has *)
(* none at hand, and a new watch takes a free one.  A prune keeps the      *)
(* project's mutation from its last look to the end: no job that could     *)
(* write the database again is then past its wait for it, so a session     *)
(* that looks for the database finds none, and one that had found it       *)
(* before has the logical watch still there to join (PruneShape).  What    *)
(* was seen is no newer than what any job reads that begins to read after  *)
(* the check; when one that has done so says it is done its reading is in  *)
(* the database, unless a deletion came between, and whoever writes it     *)
(* later has read later (SeenShape, OwnShape).                             *)
(*                                                                         *)
(* Most steps are of a few kinds, each shown to keep the invariant once:   *)
(* the thread only looks (Looks), time passes (PassKeeps), a job of one    *)
(* project moves (JobKeeps), a mutation does (DeletionKeeps), or one watch *)
(* goes (CutKeeps).                                                        *)
(***************************************************************************)
EXTENDS Watcher, TLAPS

(* The inductive invariant. *)

\* What the place of the poll thread says of its registers.
PollShape ==
    /\ cur = NoState <=> pc \in {"idle", "next", "done"}
    /\ pc \in {"idle", "done"} => snap = {}
    /\ pc # "wait" => answer = "none"

\* Who has a project's mutation; while anyone does, no job works on the database.
LeaseShape ==
    /\ pc \in {"recheck", "pruned", "release"} => lease[P] = "prune"
    /\ \A p \in Projects :
        /\ del[p] # "none" => lease[p] \in {"ui", "tool"}
        /\ lease[p] # "free" => job[p].phase \in {"none", "begun"}

\* A job the watcher waits for is the one of the state it polls.
JobShape ==
    \A p \in Projects :
        /\ job[p].watcher => pc = "wait" /\ answer = "none" /\ P = p
        /\ job[p].phase = "written" => db[p] = job[p].read

\* A pruned project has no watch and no database, and the session that still believes
\* in the database joins the logical watch, which it makes no new one for.
PruneShape ==
    pc = "pruned" =>
        /\ ~Watched(P) /\ db[P] = NoDb
        /\ mutex # NoOne /\ found /\ Home[mutex] = P => P \in logical

\* What was seen is older than what a job reads that is started for it.
SeenShape ==
    /\ pc \in {"admit", "call", "wait"} => seen.rev <= rev[P]
    /\ pc = "wait" /\ ~joined /\ answer \in {"none", "ok"} =>
        /\ job[P].phase \in {"read", "written"} => seen.rev <= job[P].read
        /\ answer = "ok" => db[P] = NoDb \/ seen.rev <= db[P]

\* A baseline of the watcher's own index is older than whatever is written next.
OwnShape ==
    \A p \in Projects : Watched(p) /\ st[table[p]].own =>
        /\ st[table[p]].indexed <= rev[p]
        /\ db[p] = NoDb \/ st[table[p]].indexed <= db[p]
        /\ job[p].phase \in {"read", "written"} => st[table[p]].indexed <= job[p].read

Shape == PollShape /\ LeaseShape /\ JobShape /\ PruneShape /\ SeenShape /\ OwnShape
IInv == WatchesSound /\ Shape

USE NamesAssumption, PruneAssumption

(* ------------------------------- frames ---------------------------------- *)

\* No state is registered, freed or given another baseline to compare.
Steady ==
    \A q \in States :
        /\ st'[q].life = st[q].life /\ st'[q].registered = st[q].registered
        /\ st'[q].project = st[q].project
        /\ st'[q].indexed = st[q].indexed /\ st'[q].own = st[q].own

Idle == {"idle", "next", "done"}
Late == {"wait", "recheck", "pruned", "release"}

\* The thread looks at a tree, or at one of its states.
Looks ==
    /\ UNCHANGED <<rev, app, db, table, job, lease, del>>
    /\ Steady
    /\ pc \notin Late /\ pc' \notin Late /\ answer' = "none"
    /\ cur' = NoState <=> pc' \in Idle
    /\ pc' \in {"idle", "done"} => snap' = {}
    /\ snap' \subseteq snap /\ (cur' = NoState \/ cur' = cur \/ cur' \in snap)
    /\ pc' \in {"admit", "call"} => cur' = cur /\ seen'.rev <= rev[P]

LEMMA LooksKeep == ASSUME IInv, TypeOK', Looks PROVE IInv'
<1>1. /\ TypeOK /\ rev' = rev /\ db' = db /\ table' = table /\ job' = job /\ lease' = lease
      /\ del' = del /\ logical' = logical /\ cut' = cut /\ mutex' = mutex /\ found' = found
  BY DEF IInv, WatchesSound, Looks, app
<1>2. StatesAlive'
  <2>1. \A q \in snap' \cup ({cur'} \ {NoState}) : q \in snap \cup ({cur} \ {NoState})
    BY DEF Looks
  <2>2. snap' \cup ({cur'} \ {NoState}) \subseteq States
    BY DEF TypeOK
  <2>3. \A q \in States : /\ st'[q].life = st[q].life /\ st'[q].registered = st[q].registered
                         /\ st'[q].project = st[q].project
    BY DEF Looks, Steady
  <2>4. \A p \in Projects : Watched(p) => table[p] \in States
    BY <1>1 DEF TypeOK, Watched
  <2> QED BY <1>1, <2>1, <2>2, <2>3, <2>4 DEF IInv, WatchesSound, StatesAlive, Watched
<1>3. WatchesAgree'
  BY <1>1 DEF IInv, WatchesSound, WatchesAgree, Looks, Watched, Late
<1>4. PollShape'
  BY DEF Looks, PollShape, Idle, Late
<1>5. LeaseShape'
  BY <1>1 DEF IInv, Shape, LeaseShape, Looks, Late
<1>6. JobShape'
  BY <1>1 DEF IInv, Shape, JobShape, Looks, Late
<1>7. PruneShape'
  BY DEF PruneShape, Looks, Late
<1>8. SeenShape'
  <2>1. pc' \in {"admit", "call"} => P' = P
    <3>1. pc' \in {"admit", "call"} => cur' = cur /\ cur' \in States
      BY <1>4 DEF Looks, PollShape, TypeOK
    <3> QED BY <3>1 DEF Looks, Steady, P
  <2> QED BY <1>1, <2>1 DEF SeenShape, Looks, Late
<1>9. OwnShape'
  <2>1. \A p \in Projects : Watched(p) => table[p] \in States
    BY <1>1 DEF TypeOK, Watched
  <2>2. \A q \in States : st'[q].indexed = st[q].indexed /\ st'[q].own = st[q].own
    BY DEF Looks, Steady
  <2> QED BY <1>1, <2>1, <2>2 DEF IInv, Shape, OwnShape, Watched
<1> QED BY <1>2, <1>3, <1>4, <1>5, <1>6, <1>7, <1>8, <1>9 DEF IInv, WatchesSound, Shape

\* The poll thread has a state at hand unless it is between two.
LEMMA CurIsState == ASSUME IInv, pc \notin Idle PROVE cur \in States /\ P \in Projects
<1>1. cur \in States /\ st \in [States -> State]
  BY DEF IInv, Shape, PollShape, WatchesSound, TypeOK, Idle
<1> QED BY <1>1 DEF State, P

LEMMA GitTyped == ASSUME TypeOK, GitOk \/ GitFails \/ GitGivenUp PROVE events' \in [Event -> Nat]
<1>1. events \in [Event -> Nat]
  BY DEF TypeOK
<1>2. events' = events \/ events' = [events EXCEPT !["fault"] = events["fault"] + 1]
  BY DEF GitOk, GitFails, GitGivenUp, Spend, Count
<1> QED BY <1>1, <1>2 DEF Event

\* What stays as it is.
LEMMA PollingKeeps ==
    ASSUME NEW x, Polling(x)
    PROVE  /\ pc = x /\ UNCHANGED <<tree, rev, logical, watch, mutex, found, cut, stopped, del>>
BY DEF Polling, world, app

\* A state is replaced by one with the same life and baseline.
SameLife(r, s) ==
    /\ s.life = r.life /\ s.registered = r.registered /\ s.project = r.project
    /\ s.indexed = r.indexed /\ s.own = r.own

LEMMA PutSteady ==
    ASSUME st \in [States -> State], NEW q \in States, NEW r \in State, SameLife(st[q], r),
           st' = [st EXCEPT ![q] = r]
    PROVE  st' \in [States -> State] /\ Steady
<1>1. \A x \in States : st'[x] = IF x = q THEN r ELSE st[x]
  OBVIOUS
<1> QED BY <1>1 DEF Steady, SameLife

LEMMA Missed ==
    ASSUME st \in [States -> State], NEW q \in States,
           NEW n \in 0..MissingRootDeleteAfter, NEW a \in BOOLEAN,
           st' = [st EXCEPT ![q].missing = n, ![q].aged = a]
    PROVE  st' \in [States -> State] /\ Steady
<1> DEFINE r == [st[q] EXCEPT !.missing = n, !.aged = a]
<1>1. r \in State /\ SameLife(st[q], r)
  <2>1. st[q] \in State
    OBVIOUS
  <2> QED BY ONLY <2>1, n \in 0..MissingRootDeleteAfter, a \in BOOLEAN DEF State, SameLife
<1>2. st' = [st EXCEPT ![q] = r]
  OBVIOUS
<1> HIDE DEF r
<1> QED BY <1>1, <1>2, PutSteady

LEMMA Based ==
    ASSUME st \in [States -> State], NEW q \in States,
           NEW b \in BOOLEAN, NEW g \in BOOLEAN, NEW d \in BOOLEAN, NEW h \in Nat,
           st' = [st EXCEPT ![q].baseline = b, ![q].git = g, ![q].due = d, ![q].head = h]
    PROVE  st' \in [States -> State] /\ Steady
<1> DEFINE r == [st[q] EXCEPT !.baseline = b, !.git = g, !.due = d, !.head = h]
<1>1. r \in State /\ SameLife(st[q], r)
  <2>1. st[q] \in State
    OBVIOUS
  <2> QED BY ONLY <2>1, b \in BOOLEAN, g \in BOOLEAN, d \in BOOLEAN, h \in Nat DEF State, SameLife
<1>2. st' = [st EXCEPT ![q] = r]
  OBVIOUS
<1> HIDE DEF r
<1> QED BY <1>1, <1>2, PutSteady

LEMMA LesserOfTwo ==
    ASSUME NEW n \in 0..MissingRootDeleteAfter
    PROVE  Min({n + 1, MissingRootDeleteAfter}) \in 0..MissingRootDeleteAfter
<1> DEFINE S == {n + 1, MissingRootDeleteAfter}
<1>1. \E x \in S : \A y \in S : x <= y
  OBVIOUS
<1>2. Min(S) \in S /\ \A y \in S : Min(S) <= y
  BY <1>1 DEF Min
<1> QED BY <1>2

LEMMA VisitKeeps ==
    ASSUME IInv, NEW q \in States,
           SkipUnwatched(q) \/ RootUncertain(q) \/ RootMissing(q) \/ RootPresent(q)
    PROVE  IInv'
<1>1. /\ TypeOK /\ PollShape /\ Visiting(q)
  BY DEF IInv, WatchesSound, Shape, SkipUnwatched, RootUncertain, RootMissing, RootPresent
<1>2. /\ pc = "next" /\ cur = NoState /\ answer = "none" /\ q \in snap /\ snap' = snap \ {q}
      /\ UNCHANGED <<db, table, job, lease, seen, answer, joined, events>>
      /\ UNCHANGED <<tree, rev, logical, watch, mutex, found, cut, stopped, del>>
  BY <1>1 DEF Visiting, Keep, PollShape, Polling, world, app
<1>3. st' \in [States -> State] /\ Steady
  <2>1. CASE SkipUnwatched(q)
    BY <1>1, <2>1 DEF SkipUnwatched, TypeOK, Steady
  <2>2. CASE StreakEnds(q)
    <3>1. st' = [st EXCEPT ![q].missing = 0, ![q].aged = FALSE] /\ 0 \in 0..MissingRootDeleteAfter
      BY <2>2 DEF StreakEnds
    <3> QED BY <1>1, <3>1, Missed DEF TypeOK
  <2>3. CASE RootMissing(q)
    <3> DEFINE n == Min({st[q].missing + 1, MissingRootDeleteAfter})
    <3>1. n \in 0..MissingRootDeleteAfter
      <4>1. st[q].missing \in 0..MissingRootDeleteAfter
        BY <1>1 DEF TypeOK, State
      <4> QED BY <4>1, LesserOfTwo
    <3>2. st' = [st EXCEPT ![q].missing = n, ![q].aged = Stamped(q)] /\ Stamped(q) \in BOOLEAN
      BY <2>3 DEF RootMissing, Stamped
    <3> HIDE DEF n
    <3> QED BY <1>1, <3>1, <3>2, Missed DEF TypeOK
  <2> QED BY <2>1, <2>2, <2>3 DEF RootUncertain, RootPresent
<1>4. /\ pc' \in {"next", "prune", "root", "head"}
      /\ cur' \in {NoState, q} /\ (cur' = NoState <=> pc' = "next")
  BY <1>2 DEF SkipUnwatched, RootUncertain, RootMissing, RootPresent
<1>5. TypeOK'
  BY <1>1, <1>2, <1>3, <1>4 DEF TypeOK
<1>6. Looks
  BY <1>2, <1>3, <1>4 DEF Looks, Late, Idle, app
<1> QED BY <1>5, <1>6, LooksKeep
(* A git command is run, or its result is looked at. *)
LEMMA GitKeeps ==
    ASSUME IInv, pc \in {"root", "baseline", "head", "sig", "admit", "prune"},
           UNCHANGED <<tree, rev, app, db, table, job, lease, del, stopped, snap>>,
           st' \in [States -> State], Steady, events' \in [Event -> Nat],
           \/ Next1
           \/ /\ pc' \in {"baseline", "sig", "admit", "call"} /\ UNCHANGED <<cur, answer, joined>>
              /\ seen' \in [head : Nat, sig : Nat, rev : Nat, changed : BOOLEAN]
              /\ pc' \in {"admit", "call"} => seen'.rev <= rev[P]
    PROVE  IInv'
<1>1. TypeOK /\ PollShape /\ cur \in States /\ answer = "none"
  BY CurIsState DEF IInv, WatchesSound, Shape, Idle, PollShape
<1>2. TypeOK'
  <2>1. /\ UNCHANGED <<tree, rev, logical, watch, mutex, found, cut, db, table, job, lease, del,
                        stopped, snap>>
    BY DEF app
  <2>2. CASE Next1
    BY <1>1, <2>1, <2>2 DEF TypeOK, Next1, Unseen
  <2>3. CASE ~Next1
    BY <1>1, <2>1, <2>3 DEF TypeOK
  <2> QED BY <2>2, <2>3
<1>3. Looks
  BY <1>1 DEF Looks, Next1, Late, Idle
<1> QED BY <1>2, <1>3, LooksKeep

LEMMA Still == Steady <=> \A q \in States : SameLife(st[q], st'[q])
BY DEF Steady, SameLife

LEMMA CheckKeeps ==
    ASSUME IInv,
           \/ BaselineRoot \/ BaselineHead \/ BaselineGivenUp
           \/ CheckHead \/ CheckTree \/ CheckTreeFails \/ CheckGivenUp \/ Admit \/ PruneRefused
    PROVE  IInv'
<1> DEFINE Seen == [head : Nat, sig : Nat, rev : Nat, changed : BOOLEAN]
           Frame == UNCHANGED <<tree, rev, app, db, table, job, lease, del, stopped, snap>>
<1>1. /\ pc \in {"root", "baseline", "head", "sig", "admit", "prune"}
      /\ Frame /\ (GitOk \/ GitFails \/ GitGivenUp \/ events' = events)
  BY DEF BaselineRoot, BaselineHead, BaselineGivenUp, CheckHead, CheckTree, CheckTreeFails,
         CheckGivenUp, Admit, PruneRefused, Polling, Keep, world
<1>2. TypeOK /\ cur \in States /\ P \in Projects
  BY <1>1, CurIsState DEF IInv, WatchesSound, Idle
<1>3. /\ st \in [States -> State] /\ st[cur] \in State /\ seen \in Seen
      /\ tree[P] \in [head : Nat, edit : Nat, root : {"present", "missing", "uncertain"}]
      /\ rev[P] \in Nat
  BY <1>2 DEF TypeOK
<1>4. events' \in [Event -> Nat]
  BY <1>1, <1>2, GitTyped DEF TypeOK
<1>5. st[cur].due \in BOOLEAN /\ st[cur].git \in BOOLEAN /\ st[cur].baseline \in BOOLEAN
      /\ st[cur].head \in Nat
  BY <1>3 DEF State
<1>6. st' = st => st' \in [States -> State] /\ Steady
  BY <1>3 DEF Steady
<1>7. ASSUME NEW b \in BOOLEAN, NEW g \in BOOLEAN, NEW d \in BOOLEAN, NEW h \in Nat,
             st' = [st EXCEPT ![cur].baseline = b, ![cur].git = g, ![cur].due = d, ![cur].head = h]
      PROVE  st' \in [States -> State] /\ Steady
  BY <1>2, <1>3, <1>7, Based
<1>8. CASE BaselineRoot
  <2>1. st' = st \/ \E d \in BOOLEAN : st' = [st EXCEPT ![cur].baseline = TRUE, ![cur].git = FALSE,
                                                     ![cur].due = d]
    BY <1>5, <1>8 DEF BaselineRoot
  <2>2. ASSUME NEW d \in BOOLEAN,
               st' = [st EXCEPT ![cur].baseline = TRUE, ![cur].git = FALSE, ![cur].due = d]
        PROVE  st' \in [States -> State] /\ Steady
    <3>1. st' = [st EXCEPT ![cur].baseline = TRUE, ![cur].git = FALSE, ![cur].due = d,
                           ![cur].head = st[cur].head]
      BY <1>2, <1>3, <1>5, <2>2 DEF State
    <3> QED BY <1>5, <1>7, <3>1
  <2>3. \/ Next1
        \/ pc' = "baseline" /\ UNCHANGED <<cur, answer, joined, seen>>
    BY <1>8 DEF BaselineRoot
  <2> QED BY <1>1, <1>3, <1>4, <1>6, <2>1, <2>2, <2>3, GitKeeps
<1>9. CASE BaselineHead
  <2>1. PICK head \in {0, tree[P].head} :
           st' = [st EXCEPT ![cur].baseline = TRUE, ![cur].git = TRUE, ![cur].due = FALSE,
                            ![cur].head = head]
    BY <1>9 DEF BaselineHead
  <2>2. head \in Nat
    BY <1>3
  <2>3. st' \in [States -> State] /\ Steady
    BY <1>7, <2>1, <2>2
  <2>4. Next1
    BY <1>9 DEF BaselineHead
  <2> QED BY <1>1, <1>4, <2>3, <2>4, GitKeeps
<1>10. CASE BaselineGivenUp
  <2>1. st' = [st EXCEPT ![cur].git = TRUE] /\ Next1
    BY <1>10 DEF BaselineGivenUp
  <2>2. st' = [st EXCEPT ![cur].baseline = st[cur].baseline, ![cur].git = TRUE,
                         ![cur].due = st[cur].due, ![cur].head = st[cur].head]
    BY <1>2, <1>3, <2>1 DEF State
  <2>3. st' \in [States -> State] /\ Steady
    BY <1>5, <1>7, <2>2
  <2> QED BY <1>1, <1>4, <2>1, <2>3, GitKeeps
<1>11. CASE CheckHead
  <2>1. PICK head \in {0, tree[P].head} :
           /\ seen' = [seen EXCEPT !.head = head,
                                   !.changed = head # 0 /\ st[cur].head \notin {0, head}]
           /\ st' = [st EXCEPT ![cur].head = IF @ = 0 THEN head ELSE @]
    BY <1>11 DEF CheckHead
  <2> DEFINE h == IF st[cur].head = 0 THEN head ELSE st[cur].head
  <2>2. head \in Nat /\ h \in Nat
    BY <1>3, <1>5
  <2>3. seen' \in Seen
    BY <1>3, <2>1, <2>2
  <2>4. st' = [st EXCEPT ![cur].head = h]
    BY <2>1
  <2> HIDE DEF h
  <2>5. st' = [st EXCEPT ![cur].baseline = st[cur].baseline, ![cur].git = st[cur].git,
                         ![cur].due = st[cur].due, ![cur].head = h]
    BY <1>2, <1>3, <2>4 DEF State
  <2>6. st' \in [States -> State] /\ Steady
    BY <1>5, <1>7, <2>2, <2>5
  <2>7. pc' = "sig" /\ UNCHANGED <<cur, answer, joined>>
    BY <1>11 DEF CheckHead
  <2> QED BY <1>1, <1>4, <2>3, <2>6, <2>7, GitKeeps
<1>12. ASSUME st' = [st EXCEPT ![cur].due = FALSE] PROVE st' \in [States -> State] /\ Steady
  <2>1. st' = [st EXCEPT ![cur].baseline = st[cur].baseline, ![cur].git = st[cur].git,
                         ![cur].due = FALSE, ![cur].head = st[cur].head]
    BY <1>2, <1>3, <1>12 DEF State
  <2> QED BY <1>5, <1>7, <2>1
<1>13. CASE CheckTree
  <2>1. CASE seen.changed \/ tree[P].edit # st[cur].sig
    <3>1. /\ seen' = [seen EXCEPT !.sig = tree[P].edit, !.rev = rev[P], !.changed = TRUE]
          /\ pc' = "admit" /\ UNCHANGED <<cur, answer, joined, st>>
      BY <1>13, <2>1 DEF CheckTree
    <3>2. seen' \in Seen /\ seen'.rev <= rev[P]
      <4>1. PICK e \in Nat, v \in Nat : e = tree[P].edit /\ v = rev[P]
        BY <1>3
      <4>2. seen' = [seen EXCEPT !.sig = e, !.rev = v, !.changed = TRUE]
        BY <3>1, <4>1
      <4>3. seen' \in Seen
        <5> HIDE DEF Seen
        <5>1. e \in Nat /\ v \in Nat /\ seen \in Seen
          BY <1>3, <4>1
        <5> QED BY ONLY <4>2, <5>1 DEF Seen
      <4>4. seen'.rev = v
        BY ONLY <1>3, <4>2
      <4> QED BY <1>3, <4>1, <4>3, <4>4
    <3> QED BY <1>1, <1>4, <1>6, <3>1, <3>2, GitKeeps
  <2>2. CASE ~(seen.changed \/ tree[P].edit # st[cur].sig)
    BY <1>1, <1>4, <1>12, <1>13, <2>2, GitKeeps DEF CheckTree
  <2> QED BY <2>1, <2>2
<1>14. CASE CheckTreeFails
  BY <1>1, <1>4, <1>12, <1>14, GitKeeps DEF CheckTreeFails
<1>15. CASE CheckGivenUp
  BY <1>1, <1>4, <1>6, <1>15, GitKeeps DEF CheckGivenUp
<1>16. CASE Admit
  <2>1. st' = st /\ (Next1 \/ (pc' = "call" /\ UNCHANGED <<cur, seen, answer, joined>>))
    BY <1>16 DEF Admit
  <2>2. pc = "admit" /\ seen.rev <= rev[P]
    BY <1>16 DEF Admit, Polling, IInv, Shape, SeenShape
  <2> QED BY <1>1, <1>3, <1>4, <1>6, <2>1, <2>2, GitKeeps
<1>17. CASE PruneRefused
  BY <1>1, <1>4, <1>6, <1>17, GitKeeps DEF PruneRefused
<1> QED BY <1>8, <1>9, <1>10, <1>11, <1>13, <1>14, <1>15, <1>16, <1>17

LEMMA EndKeeps == ASSUME IInv, EndPoll \/ Exit PROVE IInv'
<1>1. TypeOK /\ PollShape
  BY DEF IInv, WatchesSound, Shape
<1>2. /\ UNCHANGED <<tree, rev, app, db, table, job, lease, del, stopped>>
      /\ UNCHANGED <<cur, snap, seen, answer, joined, st, events>>
      /\ pc \in {"idle", "next"} /\ pc' \in {"idle", "done"} /\ snap = {}
  BY <1>1 DEF EndPoll, Exit, Polling, Keep, world, PollShape
<1>3. TypeOK'
  BY <1>1, <1>2 DEF TypeOK, app
<1>4. Looks
  BY <1>1, <1>2 DEF Looks, PollShape, Steady, Late, Idle
<1> QED BY <1>3, <1>4, LooksKeep
LEMMA BlankTyped == ASSUME NEW p \in Projects PROVE Blank(p) \in State
BY DEF Blank, State

LEMMA BlankFields == ASSUME NEW p PROVE Blank(p).life = "free" /\ Blank(p).indexed = NoDb
BY DEF Blank

LEMMA StartKeeps == ASSUME IInv, StartPoll PROVE IInv'
<1>1. TypeOK /\ StatesAlive /\ WatchesAgree /\ Shape
  BY DEF IInv, WatchesSound
<1>2. /\ pc = "idle" /\ pc' = "next" /\ snap' = {table[p] : p \in Projects} \ {NoState}
      /\ UNCHANGED <<cur, seen, answer, joined, events>>
      /\ UNCHANGED <<db, table, job, lease, del, tree, rev, logical, watch, mutex, found, cut, stopped>>
      /\ cur = NoState /\ answer = "none"
  BY <1>1 DEF StartPoll, Polling, Keep, world, app, Shape, PollShape
<1>3. \A q \in States : st'[q] = IF st[q].life = "deferred" THEN Blank(st[q].project) ELSE st[q]
  BY DEF StartPoll, Deferred
<1>4. \A q \in States : st[q] \in State /\ st[q].project \in Projects /\ st[q].life \in {"free", "live", "deferred"}
  BY <1>1 DEF TypeOK, State
<1>5. st' \in [States -> State]
  <2>1. DOMAIN st' = States /\ st' = [q \in States |-> st'[q]]
    BY DEF StartPoll
  <2>2. \A q \in States : st'[q] \in State
    BY <1>3, <1>4, BlankTyped
  <2> QED BY <2>1, <2>2
<1>6. TypeOK'
  <2>1. snap' \subseteq States
    BY <1>1, <1>2 DEF TypeOK
  <2> QED BY <1>1, <1>2, <1>5, <2>1 DEF TypeOK
<1>7. \A p \in Projects : Watched(p) => /\ table[p] \in States /\ st[table[p]].life = "live"
                                       /\ st'[table[p]] = st[table[p]]
  BY <1>1, <1>3 DEF StatesAlive, TypeOK, Watched
<1>8. \A q \in States : st'[q].life = "live" => st'[q] = st[q]
  BY <1>3, BlankFields
<1>9. StatesAlive'
  <2>1. \A p \in Projects : Watched(p)' => Watched(p) /\ table'[p] = table[p]
    BY <1>2 DEF Watched
  <2>2. \A q \in snap' : \E p \in Projects : q = table[p] /\ Watched(p)
    BY <1>2 DEF Watched
  <2>3. \A q \in snap' : st'[q].life = "live"
    BY <1>7, <2>2
  <2> QED BY <1>1, <1>2, <1>7, <1>8, <2>1, <2>3 DEF StatesAlive
<1>10. WatchesAgree'
  BY <1>1, <1>2 DEF WatchesAgree, Watched
<1>11. Shape'
  <2>1. PollShape' /\ PruneShape' /\ SeenShape'
    BY <1>2 DEF PollShape, PruneShape, SeenShape
  <2>2. LeaseShape' /\ JobShape'
    BY <1>1, <1>2 DEF Shape, LeaseShape, JobShape
  <2>3. OwnShape'
    BY <1>1, <1>2, <1>7 DEF Shape, OwnShape, Watched
  <2> QED BY <2>1, <2>2, <2>3 DEF Shape
<1> QED BY <1>6, <1>9, <1>10, <1>11 DEF IInv, WatchesSound

(* Time passes, the world changes, the watcher is told to stop. *)
LEMMA PassKeeps ==
    ASSUME IInv, TypeOK', Steady, UNCHANGED <<poll, app, db, table, job, lease, del>>,
           \A p \in Projects : rev[p] <= rev'[p]
    PROVE  IInv'
<1>1. /\ TypeOK /\ StatesAlive /\ WatchesAgree /\ Shape
      /\ UNCHANGED <<pc, cur, snap, seen, answer, joined, logical, watch, mutex, found, cut,
                     db, table, job, lease, del>>
  BY DEF IInv, WatchesSound, poll, app
<1>2. \A p \in Projects : Watched(p) => table[p] \in States
  BY <1>1 DEF TypeOK, Watched
<1>3. pc \notin Idle => cur \in States /\ P' = P /\ P \in Projects
  BY <1>1, CurIsState DEF Steady, P
<1>4. StatesAlive'
  <2>1. \A q \in snap \cup ({cur} \ {NoState}) : q \in States
    BY <1>1 DEF TypeOK
  <2> QED BY <1>1, <1>2, <2>1 DEF StatesAlive, Watched, Steady
<1>5. WatchesAgree'
  BY <1>1, <1>3 DEF WatchesAgree, Watched, Idle
<1>6. PollShape' /\ LeaseShape' /\ JobShape' /\ PruneShape'
  BY <1>1, <1>3 DEF Shape, PollShape, LeaseShape, JobShape, PruneShape, Watched, Idle
<1>7. SeenShape'
  <2>1. seen.rev \in Nat /\ rev \in [Projects -> Nat] /\ rev' \in [Projects -> Nat]
    BY <1>1 DEF TypeOK
  <2>2. pc \notin Idle => rev[P] \in Nat /\ rev'[P] \in Nat /\ rev[P] <= rev'[P]
    BY <1>3, <2>1
  <2> QED BY <1>1, <1>3, <2>1, <2>2 DEF Shape, SeenShape, Idle
<1>8. OwnShape'
  <2>1. \A q \in States : st'[q].own = st[q].own /\ st'[q].indexed = st[q].indexed /\ st[q].indexed \in Int
    BY <1>1 DEF Steady, TypeOK, State, NoDb
  <2>2. \A p \in Projects : rev[p] \in Nat /\ rev'[p] \in Nat
    BY <1>1 DEF TypeOK
  <2>3. \A p \in Projects : Watched(p)' => Watched(p) /\ table'[p] = table[p]
    BY <1>1 DEF Watched
  <2>4. ASSUME NEW p \in Projects, Watched(p)', st'[table'[p]].own
        PROVE  /\ st[table[p]].indexed <= rev'[p] /\ st'[table'[p]].indexed = st[table[p]].indexed
               /\ db[p] = NoDb \/ st[table[p]].indexed <= db[p]
               /\ job[p].phase \in {"read", "written"} => st[table[p]].indexed <= job[p].read
    BY <1>1, <1>2, <2>1, <2>2, <2>3, <2>4 DEF Shape, OwnShape
  <2> QED BY <1>1, <2>4 DEF OwnShape
<1> QED BY <1>4, <1>5, <1>6, <1>7, <1>8 DEF IInv, WatchesSound, Shape

LEMMA CountTyped == ASSUME TypeOK, NEW e \in Event, Count(e) PROVE events' \in [Event -> Nat]
BY DEF Count, TypeOK

LEMMA TimeKeeps == ASSUME IInv, NEW q \in States, Elapse(q) \/ Age(q) PROVE IInv'
<1>1. /\ TypeOK /\ UNCHANGED <<poll, world, app, db, table, stopped, job, lease, del, events>>
      /\ st' = [st EXCEPT ![q].due = TRUE] \/ st' = [st EXCEPT ![q].aged = TRUE]
  BY DEF IInv, WatchesSound, Elapse, Age
<1>2. st' \in [States -> State] /\ Steady
  <2>1. st \in [States -> State] /\ st[q] \in State
    BY <1>1 DEF TypeOK
  <2>2. CASE st' = [st EXCEPT ![q].due = TRUE]
    <3> DEFINE r == [st[q] EXCEPT !.due = TRUE]
    <3>1. r \in State /\ SameLife(st[q], r)
      BY ONLY <2>1 DEF State, SameLife
    <3>2. st' = [st EXCEPT ![q] = r]
      BY <2>1, <2>2
    <3> HIDE DEF r
    <3> QED BY <2>1, <3>1, <3>2, PutSteady
  <2>3. CASE st' = [st EXCEPT ![q].aged = TRUE]
    <3> DEFINE r == [st[q] EXCEPT !.aged = TRUE]
    <3>1. r \in State /\ SameLife(st[q], r)
      BY ONLY <2>1 DEF State, SameLife
    <3>2. st' = [st EXCEPT ![q] = r]
      BY <2>1, <2>3
    <3> HIDE DEF r
    <3> QED BY <2>1, <3>1, <3>2, PutSteady
  <2> QED BY <1>1, <2>2, <2>3
<1>3. TypeOK'
  BY <1>1, <1>2 DEF TypeOK, poll, world, app
<1>4. \A p \in Projects : rev[p] <= rev'[p]
  BY <1>1 DEF TypeOK, world
<1> QED BY <1>1, <1>2, <1>3, <1>4, PassKeeps

LEMMA OutsideKeeps ==
    ASSUME IInv, NEW p \in Projects, Change(p) \/ Move(p)
    PROVE  IInv'
<1>1. /\ TypeOK /\ UNCHANGED <<poll, app, db, st, table, stopped, job, lease, del>>
      /\ Count("change") \/ Count("move")
  BY DEF IInv, WatchesSound, Change, Move, Outside
<1>2. events' \in [Event -> Nat]
  BY <1>1, CountTyped DEF Event
<1>3. tree[p] \in [head : Nat, edit : Nat, root : {"present", "missing", "uncertain"}]
      /\ rev[p] \in Nat
  BY <1>1 DEF TypeOK
<1>4. /\ tree' \in [Projects -> [head : Nat, edit : Nat, root : {"present", "missing", "uncertain"}]]
      /\ rev' \in [Projects -> Nat] /\ \A x \in Projects : rev[x] <= rev'[x]
  <2>1. CASE Change(p)
    <3>1. PICK x \in {<<tree[p].head, rev[p] + 2>>, <<rev[p] + 2, 0>>, <<tree[p].head, 0>>, <<1, 0>>} :
             tree' = [tree EXCEPT ![p].head = x[1], ![p].edit = x[2]]
      BY <2>1 DEF Change
    <3>2. x[1] \in Nat /\ x[2] \in Nat
      BY <1>3
    <3> DEFINE t == [tree[p] EXCEPT !.head = x[1], !.edit = x[2]]
    <3>3. t \in [head : Nat, edit : Nat, root : {"present", "missing", "uncertain"}]
      BY ONLY <1>3, <3>2
    <3>4. tree \in [Projects -> [head : Nat, edit : Nat, root : {"present", "missing", "uncertain"}]]
          /\ rev \in [Projects -> Nat]
      BY <1>1 DEF TypeOK
    <3>5. tree' = [tree EXCEPT ![p] = t]
      BY <3>1, <3>4
    <3>6. rev' = [rev EXCEPT ![p] = rev[p] + 1]
      BY <2>1 DEF Change
    <3> HIDE DEF t
    <3> QED BY <1>3, <3>3, <3>4, <3>5, <3>6
  <2>2. CASE Move(p)
    <3>1. PICK r \in {"present", "missing", "uncertain"} : tree' = [tree EXCEPT ![p].root = r]
      BY <2>2 DEF Move
    <3>2. rev' = rev /\ rev \in [Projects -> Nat]
          /\ tree \in [Projects -> [head : Nat, edit : Nat, root : {"present", "missing", "uncertain"}]]
      BY <1>1, <2>2 DEF Move, TypeOK
    <3> QED BY ONLY <1>3, <3>1, <3>2
  <2> QED BY <2>1, <2>2
<1>5. TypeOK'
  BY <1>1, <1>2, <1>4 DEF TypeOK, poll, app
<1>6. Steady
  BY <1>1 DEF Steady
<1> QED BY <1>1, <1>4, <1>5, <1>6, PassKeeps

LEMMA StopKeeps == ASSUME IInv, Stop \/ UNCHANGED vars PROVE IInv'
<1>1. /\ TypeOK /\ UNCHANGED <<poll, world, app, db, st, table, job, lease, del, events>>
      /\ stopped' \in BOOLEAN
  BY DEF IInv, WatchesSound, Stop, vars, TypeOK
<1>2. TypeOK' /\ Steady /\ \A p \in Projects : rev[p] <= rev'[p]
  BY <1>1 DEF TypeOK, poll, world, app, Steady
<1> QED BY <1>1, <1>2, PassKeeps
(* ------------------------------ index jobs ------------------------------- *)

Phases == {"none", "begun", "read", "written"}
Job == [phase : Phases, read : Nat \cup {NoDb}, watcher : BOOLEAN]

\* Neither the states nor the watches change, and the thread at most begins to wait.
Untouched ==
    /\ UNCHANGED <<st, table, cur, snap, logical, watch, cut, mutex, found, tree, rev, stopped>>
    /\ UNCHANGED <<lease, del, seen>>
    /\ pc' = pc \/ (pc = "call" /\ pc' = "wait")

LEMMA UntouchedKeeps ==
    ASSUME IInv, Untouched PROVE StatesAlive' /\ WatchesAgree' /\ P' = P
<1>1. StatesAlive /\ WatchesAgree
  BY DEF IInv, WatchesSound
<1> QED BY <1>1 DEF Untouched, StatesAlive, WatchesAgree, Watched, P

\* What a job's step leaves to be shown once the job of p is j and its database d.
LEMMA JobKeeps ==
    ASSUME IInv, Untouched, NEW p \in Projects, NEW j \in Job, NEW d \in Nat \cup {NoDb},
           job' = [job EXCEPT ![p] = j], db' = [db EXCEPT ![p] = d],
           answer' \in {"none", "ok", "retry", "error"}, joined' \in BOOLEAN,
           events' \in [Event -> Nat],
           pc' # "wait" => answer' = "none",
           lease[p] # "free" => j.phase \in {"none", "begun"} /\ d = db[p],
           j.phase = "written" => d = j.read,
           j.watcher => pc' = "wait" /\ answer' = "none" /\ P = p,
           \A x \in Projects \ {p} : job[x].watcher => pc' = pc /\ answer' = answer,
           \A q \in States : table[p] = q /\ st[q].own =>
                /\ d = NoDb \/ st[q].indexed <= d
                /\ j.phase \in {"read", "written"} => st[q].indexed <= j.read,
           SeenShape'
    PROVE  IInv'
<1>1. TypeOK /\ Shape /\ P' = P /\ StatesAlive' /\ WatchesAgree'
  BY UntouchedKeeps DEF IInv, WatchesSound
<1>2. /\ \A x \in Projects : job'[x] = IF x = p THEN j ELSE job[x]
      /\ \A x \in Projects : db'[x] = IF x = p THEN d ELSE db[x]
      /\ job' \in [Projects -> Job] /\ db' \in [Projects -> Nat \cup {NoDb}]
  BY <1>1 DEF TypeOK, Job, Phases
<1>3. TypeOK'
  BY <1>1, <1>2 DEF TypeOK, Untouched, Job, Phases
<1>4. PollShape'
  BY <1>1 DEF PollShape, Shape, Untouched
<1>5. LeaseShape'
  BY <1>1, <1>2 DEF LeaseShape, Shape, Untouched
<1>6. JobShape'
  BY <1>1, <1>2 DEF JobShape, Shape
<1>7. PruneShape'
  <2>1. pc' = "pruned" => pc = "pruned" /\ lease[P] = "prune" /\ P \in Projects
    BY <1>1, CurIsState DEF Shape, LeaseShape, Untouched, Idle
  <2>2. pc' = "pruned" => db'[P] = db[P]
    BY <1>2, <2>1
  <2> QED BY <1>1, <2>1, <2>2 DEF PruneShape, Shape, Untouched, Watched
<1>8. OwnShape'
  <2>1. ASSUME NEW x \in Projects, Watched(x)', st'[table'[x]].own
        PROVE  /\ st[table[x]].indexed <= rev[x]
               /\ db'[x] = NoDb \/ st[table[x]].indexed <= db'[x]
               /\ job'[x].phase \in {"read", "written"} => st[table[x]].indexed <= job'[x].read
    <3>1. table[x] \in States /\ Watched(x) /\ st[table[x]].own
      BY <1>1, <2>1 DEF TypeOK, Watched, Untouched
    <3> QED BY <1>1, <1>2, <3>1 DEF Shape, OwnShape
  <2>2. st' = st /\ table' = table /\ rev' = rev
    BY DEF Untouched
  <2> QED BY <2>1, <2>2 DEF OwnShape
<1> QED BY <1>1, <1>3, <1>4, <1>5, <1>6, <1>7, <1>8 DEF IInv, WatchesSound, Shape

\* Nothing but the watcher that waits for it is told of a job, and once.
LEMMA WaiterIsOne ==
    ASSUME IInv, NEW p \in Projects, job[p].watcher
    PROVE  /\ pc = "wait" /\ answer = "none" /\ P = p
           /\ \A x \in Projects \ {p} : ~job[x].watcher
BY DEF IInv, Shape, JobShape

LEMMA JobTyped ==
    ASSUME IInv, NEW p \in Projects
    PROVE  /\ job[p] \in Job /\ job[p].phase \in Phases /\ job[p].read \in Nat \cup {NoDb}
           /\ job[p].watcher \in BOOLEAN /\ db[p] \in Nat \cup {NoDb} /\ rev[p] \in Nat
           /\ job \in [Projects -> Job] /\ db = [db EXCEPT ![p] = db[p]]
           /\ seen.rev \in Nat /\ \A q \in States : st[q].indexed \in Nat \cup {NoDb}
<1>1. TypeOK
  BY DEF IInv, WatchesSound
<1> QED BY <1>1 DEF TypeOK, Job, Phases, State

LEMMA NoJobTyped == NoJob \in Job /\ NoJob.phase = "none" /\ ~NoJob.watcher
BY DEF NoJob, Job, Phases

\* What holds of the watch of p and of what was seen of p.
LEMMA OwnOf ==
    ASSUME IInv, NEW p \in Projects, NEW q \in States, table[p] = q, st[q].own
    PROVE  /\ st[q].indexed <= rev[p]
           /\ db[p] = NoDb \/ st[q].indexed <= db[p]
           /\ job[p].phase \in {"read", "written"} => st[q].indexed <= job[p].read
BY DEF IInv, Shape, OwnShape, Watched

LEMMA CallKeeps == ASSUME IInv, Call PROVE IInv'
<1>1. /\ pc = "call" /\ pc' = "wait" /\ P \in Projects /\ Untouched /\ answer = "none"
      /\ answer' = answer /\ db' = db /\ events' = events /\ Shape /\ events \in [Event -> Nat]
  BY CurIsState DEF Call, Polling, Untouched, world, app, Idle, IInv, Shape, PollShape, WatchesSound, TypeOK
<1> DEFINE j == [IF Active(P) THEN job[P] ELSE [NoJob EXCEPT !.phase = "begun"] EXCEPT !.watcher = TRUE]
<1>2. job' = [job EXCEPT ![P] = j] /\ joined' = (job[P].phase \in {"read", "written"})
  BY DEF Call
<1>3. /\ j \in Job /\ j.watcher
      /\ Active(P) => j.phase = job[P].phase /\ j.read = job[P].read
      /\ ~Active(P) => j.phase = "begun"
  <2>1. CASE Active(P)
    BY <1>1, <2>1, JobTyped DEF Job
  <2>2. CASE ~Active(P)
    <3> QED BY <2>2, NoJobTyped DEF Job, Phases
  <2> QED BY <2>1, <2>2
<1> HIDE DEF j
<1>4. ~Active(P) => job[P].phase = "none"
  BY DEF Active
<1>5. \A x \in Projects : ~job[x].watcher
  BY <1>1, WaiterIsOne
<1>6. lease[P] # "free" => j.phase \in {"none", "begun"} /\ db[P] = db[P]
  BY <1>1, <1>3, <1>4 DEF Shape, LeaseShape
<1>7. j.phase = "written" => db[P] = j.read
  BY <1>1, <1>3, <1>4 DEF Shape, JobShape
<1>8. ASSUME NEW q \in States, table[P] = q, st[q].own
      PROVE  /\ db[P] = NoDb \/ st[q].indexed <= db[P]
             /\ j.phase \in {"read", "written"} => st[q].indexed <= j.read
  BY <1>1, <1>3, <1>4, <1>8, OwnOf
<1>9. SeenShape'
  <2>1. P' = P /\ job'[P] = j /\ seen' = seen /\ rev' = rev
    BY <1>1, <1>2, JobTyped, UntouchedKeeps DEF Untouched
  <2> QED BY <1>1, <1>2, <1>3, <1>4, <2>1 DEF SeenShape, Shape
<1>10. db' = [db EXCEPT ![P] = db[P]] /\ db[P] \in Nat \cup {NoDb} /\ joined' \in BOOLEAN
  BY <1>1, <1>2, JobTyped
<1> QED BY ZenonT(60), <1>1, <1>2, <1>3, <1>5, <1>6, <1>7, <1>8, <1>9, <1>10, JobKeeps

LEMMA CallRefusedKeeps == ASSUME IInv, CallRefused PROVE IInv'
<1>1. /\ pc = "call" /\ pc' = "wait" /\ P \in Projects /\ Untouched /\ answer' \in {"retry", "error"}
      /\ UNCHANGED <<db, job, joined>> /\ Shape /\ TypeOK
  BY CurIsState DEF CallRefused, Polling, Keep, Untouched, world, app, Idle, IInv, WatchesSound
<1>2. events' \in [Event -> Nat]
  BY <1>1 DEF CallRefused, Spend, Count, TypeOK, Event
<1>3. /\ job' = [job EXCEPT ![P] = job[P]] /\ db' = [db EXCEPT ![P] = db[P]]
      /\ job[P] \in Job /\ db[P] \in Nat \cup {NoDb} /\ joined' \in BOOLEAN
  BY <1>1, JobTyped DEF TypeOK
<1>4. \A x \in Projects : ~job[x].watcher
  BY <1>1, WaiterIsOne
<1>5. /\ lease[P] # "free" => job[P].phase \in {"none", "begun"} /\ db[P] = db[P]
      /\ job[P].phase = "written" => db[P] = job[P].read
  BY <1>1 DEF Shape, LeaseShape, JobShape
<1>6. ASSUME NEW q \in States, table[P] = q, st[q].own
      PROVE  /\ db[P] = NoDb \/ st[q].indexed <= db[P]
             /\ job[P].phase \in {"read", "written"} => st[q].indexed <= job[P].read
  BY <1>1, <1>6, OwnOf
<1>7. SeenShape'
  <2>1. P' = P /\ seen' = seen /\ rev' = rev
    BY UntouchedKeeps, <1>1 DEF Untouched
  <2> QED BY <1>1, <2>1 DEF SeenShape, Shape
<1> QED BY ZenonT(60), <1>1, <1>2, <1>3, <1>4, <1>5, <1>6, <1>7, JobKeeps
LEMMA WorkKeeps ==
    ASSUME IInv, NEW p \in Projects,
           ClientIndex(p) \/ JobRead(p) \/ JobWrite(p) \/ JobDone(p) \/ JobFails(p)
    PROVE  IInv'
<1> USE NoJobTyped
<1>1. Shape /\ TypeOK /\ Untouched /\ pc' = pc /\ seen' = seen /\ rev' = rev /\ joined' = joined /\ P' = P
  <2>1. Untouched /\ pc' = pc /\ joined' = joined
    BY DEF ClientIndex, JobRead, JobWrite, JobDone, JobFails, Working, Untouched, world, app
  <2> QED BY <2>1, UntouchedKeeps DEF Untouched, IInv, WatchesSound
<1>2. /\ events \in [Event -> Nat] /\ answer \in {"none", "ok", "retry", "error"} /\ joined \in BOOLEAN
      /\ pc # "wait" => answer = "none"
  BY <1>1 DEF TypeOK, Shape, PollShape
<1>3. events' \in [Event -> Nat]
  <2>1. events' = events \/ \E e \in Event : events' = [events EXCEPT ![e] = events[e] + 1]
    BY DEF ClientIndex, JobRead, JobWrite, JobDone, JobFails, Count, Spend, Event
  <2> QED BY <1>2, <2>1
<1>4. /\ lease[p] # "free" => job[p].phase \in {"none", "begun"}
      /\ job[p].phase = "written" => db[p] = job[p].read
      /\ job[p].watcher => pc = "wait" /\ answer = "none" /\ P = p
      /\ \A x \in Projects \ {p} : job[p].watcher => ~job[x].watcher
  BY <1>1, WaiterIsOne DEF Shape, LeaseShape, JobShape
<1>5. pc = "wait" => P \in Projects
  BY CurIsState DEF Idle
<1>6. CASE ClientIndex(p)
  <2> DEFINE j == [job[p] EXCEPT !.phase = "begun"]
  <2>1. j \in Job /\ j.phase = "begun" /\ j.watcher = job[p].watcher
    BY ONLY JobTyped, p \in Projects, IInv DEF Job, Phases
  <2>2. job' = [job EXCEPT ![p] = j] /\ answer' = answer /\ db' = db
    BY <1>6, JobTyped DEF ClientIndex
  <2> HIDE DEF j
  <2>3. SeenShape'
    <3>1. pc = "wait" /\ job'[P].phase \in {"read", "written"} => job'[P] = job[P]
      BY <1>5, <2>1, <2>2, JobTyped
    <3> QED BY <1>1, <2>2, <3>1 DEF SeenShape, Shape
  <2>4. ASSUME NEW q \in States, table[p] = q, st[q].own
        PROVE  db[p] = NoDb \/ st[q].indexed <= db[p]
    BY <2>4, OwnOf
  <2>5. db' = [db EXCEPT ![p] = db[p]] /\ db[p] \in Nat \cup {NoDb}
    BY <2>2, JobTyped
  <2>6. /\ lease[p] # "free" => j.phase \in {"none", "begun"} /\ db[p] = db[p]
        /\ j.phase = "written" => db[p] = j.read
        /\ j.watcher => pc' = "wait" /\ answer' = "none" /\ P = p
        /\ \A x \in Projects \ {p} : job[x].watcher => pc' = pc /\ answer' = answer
        /\ answer' \in {"none", "ok", "retry", "error"} /\ joined' \in BOOLEAN
        /\ pc' # "wait" => answer' = "none"
    BY <1>1, <1>2, <1>4, <2>1, <2>2
  <2>7. \A q \in States : table[p] = q /\ st[q].own =>
           /\ db[p] = NoDb \/ st[q].indexed <= db[p]
           /\ j.phase \in {"read", "written"} => st[q].indexed <= j.read
    BY <2>1, <2>4
  <2> QED BY <1>1, <1>3, <2>1, <2>2, <2>3, <2>5, <2>6, <2>7, JobKeeps
<1>7. CASE JobRead(p)
  <2> DEFINE j == [job[p] EXCEPT !.phase = "read", !.read = rev[p]]
  <2>1. j \in Job /\ j.phase = "read" /\ j.watcher = job[p].watcher /\ j.read = rev[p]
    BY ONLY JobTyped, p \in Projects, IInv DEF Job, Phases
  <2>2. job' = [job EXCEPT ![p] = j] /\ answer' = answer /\ db' = db /\ lease[p] = "free"
    BY <1>7, JobTyped DEF JobRead
  <2> HIDE DEF j
  <2>3. SeenShape'
    <3>1. pc = "wait" /\ P # p => job'[P] = job[P]
      BY <1>5, <2>2, JobTyped
    <3>2. pc = "wait" /\ P = p => job'[P] = j
      BY <2>2, JobTyped
    <3>3. pc = "wait" => seen.rev <= rev[P]
      BY <1>1 DEF Shape, SeenShape
    <3> QED BY <1>1, <2>1, <2>2, <3>1, <3>2, <3>3 DEF SeenShape, Shape
  <2>4. ASSUME NEW q \in States, table[p] = q, st[q].own
        PROVE  /\ db[p] = NoDb \/ st[q].indexed <= db[p]
               /\ st[q].indexed <= j.read
    BY <2>1, <2>4, OwnOf
  <2>5. db' = [db EXCEPT ![p] = db[p]] /\ db[p] \in Nat \cup {NoDb}
    BY <2>2, JobTyped
  <2>6. /\ lease[p] # "free" => j.phase \in {"none", "begun"} /\ db[p] = db[p]
        /\ j.phase = "written" => db[p] = j.read
        /\ j.watcher => pc' = "wait" /\ answer' = "none" /\ P = p
        /\ \A x \in Projects \ {p} : job[x].watcher => pc' = pc /\ answer' = answer
        /\ answer' \in {"none", "ok", "retry", "error"} /\ joined' \in BOOLEAN
        /\ pc' # "wait" => answer' = "none"
    BY <1>1, <1>2, <1>4, <2>1, <2>2
  <2>7. \A q \in States : table[p] = q /\ st[q].own =>
           /\ db[p] = NoDb \/ st[q].indexed <= db[p]
           /\ j.phase \in {"read", "written"} => st[q].indexed <= j.read
    BY <2>1, <2>4
  <2> QED BY ZenonT(60), <1>1, <1>3, <2>1, <2>2, <2>3, <2>5, <2>6, <2>7, JobKeeps
<1>8. CASE JobWrite(p)
  <2> DEFINE j == [job[p] EXCEPT !.phase = "written"]
  <2>1. /\ j \in Job /\ j.phase = "written" /\ j.watcher = job[p].watcher /\ j.read = job[p].read
        /\ job[p].read \in Nat \cup {NoDb}
    BY ONLY JobTyped, p \in Projects, IInv DEF Job, Phases
  <2>2. /\ job' = [job EXCEPT ![p] = j] /\ answer' = answer /\ db' = [db EXCEPT ![p] = job[p].read]
        /\ job[p].phase = "read"
    BY <1>8, JobTyped DEF JobWrite
  <2> HIDE DEF j
  <2>3. SeenShape'
    <3>1. pc = "wait" /\ P # p => job'[P] = job[P] /\ db'[P] = db[P]
      BY <1>1, <1>5, <2>2, JobTyped DEF TypeOK
    <3>2. pc = "wait" /\ P = p => job'[P] = j /\ db'[P] = job[P].read
      BY <1>1, <2>2, JobTyped DEF TypeOK
    <3> QED BY <1>1, <2>1, <2>2, <3>1, <3>2 DEF SeenShape, Shape
  <2>4. ASSUME NEW q \in States, table[p] = q, st[q].own
        PROVE  st[q].indexed <= job[p].read /\ st[q].indexed <= j.read
    BY <2>1, <2>2, <2>4, OwnOf
  <2> QED BY ZenonT(60), <1>1, <1>2, <1>3, <1>4, <2>1, <2>2, <2>3, <2>4, JobKeeps
<1>9. CASE JobDone(p)
  <2>1. /\ job' = [job EXCEPT ![p] = NoJob] /\ answer' = IF job[p].watcher THEN "ok" ELSE answer
        /\ db' = db /\ job[p].phase = "written"
    BY <1>9 DEF JobDone, Terminal
  <2>2. db' = [db EXCEPT ![p] = db[p]] /\ db[p] \in Nat \cup {NoDb}
    BY <2>1, JobTyped
  <2>3. SeenShape'
    <3>1. pc = "wait" /\ P # p => job'[P] = job[P] /\ answer' = answer
      BY <1>4, <1>5, <2>1, JobTyped
    <3>2. pc = "wait" /\ P = p => job'[P] = NoJob
      BY <2>1, JobTyped
    <3>3. /\ pc = "wait" /\ P = p /\ ~joined /\ answer' = "ok"
              => db[P] = NoDb \/ seen.rev <= db[P]
      BY <1>1, <1>4, <2>1 DEF SeenShape, Shape
    <3> QED BY <1>1, <2>1, <3>1, <3>2, <3>3 DEF SeenShape, Shape
  <2>4. ASSUME NEW q \in States, table[p] = q, st[q].own
        PROVE  db[p] = NoDb \/ st[q].indexed <= db[p]
    BY <2>4, OwnOf
  <2>5. /\ answer' \in {"none", "ok", "retry", "error"} /\ (pc' # "wait" => answer' = "none")
        /\ \A x \in Projects \ {p} : job[x].watcher => pc' = pc /\ answer' = answer
    BY <1>1, <1>2, <1>4, <2>1
  <2> QED BY <1>1, <1>2, <1>3, <2>1, <2>2, <2>3, <2>4, <2>5, JobKeeps
<1>10. CASE JobFails(p)
  <2>1. PICK as \in {"retry", "error"} :
           /\ job' = [job EXCEPT ![p] = NoJob] /\ answer' = IF job[p].watcher THEN as ELSE answer
           /\ db' = db
    BY <1>10 DEF JobFails, Terminal
  <2>2. db' = [db EXCEPT ![p] = db[p]] /\ db[p] \in Nat \cup {NoDb}
    BY <2>1, JobTyped
  <2>3. SeenShape'
    <3>1. pc = "wait" /\ P # p => job'[P] = job[P] /\ answer' = answer
      BY <1>4, <1>5, <2>1, JobTyped
    <3>2. pc = "wait" /\ P = p => job'[P] = NoJob
      BY <2>1, JobTyped
    <3> QED BY <1>1, <2>1, <3>1, <3>2 DEF SeenShape, Shape
  <2>4. ASSUME NEW q \in States, table[p] = q, st[q].own
        PROVE  db[p] = NoDb \/ st[q].indexed <= db[p]
    BY <2>4, OwnOf
  <2>5. /\ answer' \in {"none", "ok", "retry", "error"} /\ (pc' # "wait" => answer' = "none")
        /\ \A x \in Projects \ {p} : job[x].watcher => pc' = pc /\ answer' = answer
    BY <1>1, <1>2, <1>4, <2>1
  <2> QED BY <1>1, <1>2, <1>3, <2>1, <2>2, <2>3, <2>4, <2>5, JobKeeps
<1> QED BY <1>6, <1>7, <1>8, <1>9, <1>10
(* A baseline is committed. *)
LEMMA AnsweredKeeps == ASSUME IInv, Answered PROVE IInv'
<1>1. /\ TypeOK /\ StatesAlive /\ WatchesAgree /\ Shape
      /\ pc = "wait" /\ cur \in States /\ P \in Projects /\ answer # "none"
      /\ pc' = "next" /\ cur' = NoState /\ seen' = Unseen /\ answer' = "none" /\ joined' = FALSE
      /\ UNCHANGED <<tree, rev, logical, watch, mutex, found, cut, stopped, del, db, table, job, lease,
                     snap, events>>
  BY CurIsState DEF IInv, WatchesSound, Answered, Polling, Keep, Next1, world, app, Idle
<1> DEFINE h == IF seen.head = 0 THEN st[cur].head ELSE seen.head
           r == IF answer = "ok"
                THEN [st[cur] EXCEPT !.head = h, !.sig = seen.sig, !.indexed = seen.rev, !.own = ~joined,
                                     !.due = FALSE]
                ELSE [st[cur] EXCEPT !.due = FALSE]
<1>2. /\ st \in [States -> State] /\ st[cur] \in State /\ seen.sig \in Nat /\ seen.rev \in Nat
      /\ h \in Nat /\ joined \in BOOLEAN
  BY <1>1 DEF TypeOK, State
<1>3. st' = [st EXCEPT ![cur] = r]
  <2>1. st' = Committed(cur)
    BY DEF Answered
  <2>2. CASE answer = "ok"
    BY <1>2, <2>1, <2>2 DEF Committed
  <2>3. CASE answer # "ok"
    BY <1>2, <2>1, <2>3 DEF Committed
  <2> QED BY <2>2, <2>3
<1>4. /\ r \in State /\ r.life = st[cur].life /\ r.registered = st[cur].registered
      /\ r.project = st[cur].project
      /\ answer = "ok" => r.indexed = seen.rev /\ r.own = ~joined
      /\ answer # "ok" => r.indexed = st[cur].indexed /\ r.own = st[cur].own
  <2> HIDE DEF h
  <2>1. CASE answer = "ok"
    <3>1. r = [st[cur] EXCEPT !.head = h, !.sig = seen.sig, !.indexed = seen.rev, !.own = ~joined,
                              !.due = FALSE]
      BY <2>1
    <3> HIDE DEF r
    <3>2. PICK g \in Nat, v \in Nat, o \in BOOLEAN : g = seen.sig /\ v = seen.rev /\ o = ~joined
      BY <1>2
    <3>3. r = [st[cur] EXCEPT !.head = h, !.sig = g, !.indexed = v, !.own = o, !.due = FALSE]
      BY <3>1, <3>2
    <3>4. /\ r \in State /\ r.life = st[cur].life /\ r.registered = st[cur].registered
          /\ r.project = st[cur].project /\ r.indexed = v /\ r.own = o
      BY ONLY <1>2, <3>2, <3>3 DEF State
    <3> QED BY <2>1, <3>2, <3>4
  <2>2. CASE answer # "ok"
    <3>1. r = [st[cur] EXCEPT !.due = FALSE]
      BY <2>2
    <3> HIDE DEF r
    <3> QED BY ONLY <1>2, <2>2, <3>1 DEF State
  <2> QED BY <2>1, <2>2
<1> HIDE DEF r, h
<1>5. \A q \in States : st'[q] = IF q = cur THEN r ELSE st[q]
  BY <1>2, <1>3
<1>6. TypeOK'
  BY <1>1, <1>2, <1>3, <1>4 DEF TypeOK, Unseen
<1>7. StatesAlive'
  <2>1. \A q \in States : /\ st'[q].life = st[q].life /\ st'[q].registered = st[q].registered
                         /\ st'[q].project = st[q].project
    BY <1>4, <1>5
  <2>2. \A p \in Projects : Watched(p) => table[p] \in States
    BY <1>1 DEF TypeOK, Watched
  <2>3. snap \subseteq States
    BY <1>1 DEF TypeOK
  <2> QED BY <1>1, <2>1, <2>2, <2>3 DEF StatesAlive, Watched
<1>8. WatchesAgree'
  BY <1>1 DEF WatchesAgree, Watched
<1>9. PollShape' /\ LeaseShape' /\ JobShape' /\ PruneShape' /\ SeenShape'
  BY <1>1 DEF Shape, PollShape, LeaseShape, JobShape, PruneShape, SeenShape
<1>10. OwnShape'
  <2>1. ASSUME NEW p \in Projects, Watched(p), st'[table[p]].own
        PROVE  /\ st'[table[p]].indexed <= rev[p]
               /\ db[p] = NoDb \/ st'[table[p]].indexed <= db[p]
               /\ job[p].phase \in {"read", "written"} => st'[table[p]].indexed <= job[p].read
    <3>1. table[p] \in States
      BY <1>1, <2>1 DEF TypeOK, Watched
    <3>2. CASE table[p] = cur /\ answer = "ok"
      <4>1. P = p
        BY <1>1, <2>1, <3>2 DEF StatesAlive, P
      <4>2. ~joined /\ st'[table[p]].indexed = seen.rev
        BY <1>4, <1>5, <2>1, <3>1, <3>2
      <4> QED BY <1>1, <4>1, <4>2, <3>2 DEF Shape, SeenShape
    <3>3. CASE ~(table[p] = cur /\ answer = "ok")
      <4>1. st'[table[p]].indexed = st[table[p]].indexed /\ st'[table[p]].own = st[table[p]].own
        BY <1>4, <1>5, <3>1, <3>3
      <4> QED BY <1>1, <2>1, <4>1 DEF Shape, OwnShape
    <3> QED BY <3>2, <3>3
  <2> QED BY <1>1, <2>1 DEF OwnShape, Watched
<1> QED BY <1>6, <1>7, <1>8, <1>9, <1>10 DEF IInv, WatchesSound, Shape

(* ------------------------- pruning and deletion --------------------------- *)

\* The states and the watches stay, and no index is at work where something changes.
LEMMA DeletionKeeps ==
    ASSUME IInv, TypeOK',
           UNCHANGED <<st, table, snap, answer, job, logical, watch, cut, mutex, found, tree, rev>>,
           \/ cur' = cur /\ pc' = pc /\ seen' = seen /\ joined' = joined
           \/ /\ pc \in {"prune", "recheck"} /\ pc' \in {"recheck", "release"}
              /\ cur' = cur /\ seen' = seen /\ joined' = joined
           \/ pc = "release" /\ Next1,
           \A p \in Projects : db'[p] = db[p] \/ (db'[p] = NoDb /\ lease[p] # "free"),
           LeaseShape'
    PROVE  IInv'
<1>1. TypeOK /\ StatesAlive /\ WatchesAgree /\ Shape
  BY DEF IInv, WatchesSound
<1>2. cur' # NoState => cur' = cur /\ P' = P
  BY DEF P, Next1
<1>3. /\ StatesAlive'
      /\ WatchesAgree'
  BY <1>1 DEF StatesAlive, WatchesAgree, Watched, Next1, P
<1>4. PollShape'
  BY <1>1 DEF Shape, PollShape, Next1
<1>5. JobShape'
  <2>1. \A p \in Projects : job[p].phase = "written" => db'[p] = db[p]
    BY <1>1 DEF Shape, LeaseShape
  <2>2. \A p \in Projects : job[p].watcher => pc = "wait" /\ answer = "none" /\ P = p /\ cur # NoState
    BY <1>1 DEF Shape, JobShape, PollShape
  <2> QED BY <1>1, <1>2, <2>1, <2>2 DEF Shape, JobShape
<1>6. PruneShape'
  <2>1. pc' = "pruned" => pc = "pruned" /\ P' = P /\ P \in Projects
    BY <1>1, CurIsState DEF Next1, Idle, P
  <2>2. pc' = "pruned" => db'[P] = NoDb
    BY <1>1, <2>1 DEF Shape, PruneShape
  <2> QED BY <1>1, <2>1, <2>2 DEF Shape, PruneShape, Watched
<1>7. SeenShape'
  <2>1. pc' \in {"admit", "call", "wait"} => /\ pc' = pc /\ cur' = cur /\ P' = P /\ P \in Projects
                                            /\ seen' = seen /\ joined' = joined
    BY <1>1, CurIsState DEF Next1, Idle, P
  <2> QED BY <1>1, <2>1 DEF Shape, SeenShape
<1>8. OwnShape'
  <2>1. \A p \in Projects : db'[p] = NoDb \/ db'[p] = db[p]
    OBVIOUS
  <2> QED BY <1>1, <2>1 DEF Shape, OwnShape, Watched
<1> QED BY <1>3, <1>4, <1>5, <1>6, <1>7, <1>8 DEF IInv, WatchesSound, Shape

LEMMA PruneKeeps == ASSUME IInv, PruneBegin \/ PruneFails \/ PruneSpares \/ PruneEnd PROVE IInv'
<1>1. /\ TypeOK /\ Shape /\ cur \in States /\ P \in Projects
      /\ pc \in {"prune", "recheck", "release"}
      /\ UNCHANGED <<st, table, snap, job, logical, watch, cut, mutex, found, tree, rev, stopped, del>>
      /\ answer = "none"
  <2>1. pc \in {"prune", "recheck", "release"}
    BY DEF PruneBegin, PruneFails, PruneSpares, PruneEnd, Polling
  <2>2. UNCHANGED <<st, table, snap, job, logical, watch, cut, mutex, found, tree, rev, stopped, del>>
    BY DEF PruneBegin, PruneFails, PruneSpares, PruneEnd, Polling, Keep, world, app
  <2> QED BY <2>1, <2>2, CurIsState DEF IInv, WatchesSound, Idle, Shape, PollShape
<1>2. CASE PruneBegin
  <2>1. /\ pc = "prune" /\ pc' = "recheck" /\ UNCHANGED <<cur, seen, answer, joined, db, events>>
        /\ lease[P] = "free" /\ ~Active(P) /\ lease' = [lease EXCEPT ![P] = "prune"]
    BY <1>2 DEF PruneBegin, Begin, Polling
  <2>2. TypeOK'
    BY <1>1, <2>1 DEF TypeOK
  <2>3. P' = P /\ \A p \in Projects : lease'[p] = IF p = P THEN "prune" ELSE lease[p]
    BY <1>1, <2>1 DEF TypeOK, P
  <2>4. LeaseShape'
    BY <1>1, <2>1, <2>3 DEF Shape, LeaseShape, Active
  <2> QED BY <1>1, <2>1, <2>2, <2>4, DeletionKeeps
<1>3. CASE PruneFails
  <2>1. /\ pc = "recheck" /\ pc' = "release" /\ UNCHANGED <<cur, seen, answer, joined, lease>>
        /\ db' = db \/ db' = [db EXCEPT ![P] = NoDb]
        /\ Spend(FALSE)
    BY <1>3 DEF PruneFails, Polling
  <2>2. events' \in [Event -> Nat]
    BY <1>1, <2>1, CountTyped DEF Spend, Event
  <2>3. TypeOK'
    BY <1>1, <2>1, <2>2 DEF TypeOK
  <2>4. P' = P /\ lease[P] = "prune"
    BY <1>1, <2>1 DEF Shape, LeaseShape, P
  <2>5. LeaseShape'
    BY <1>1, <2>1, <2>4 DEF Shape, LeaseShape
  <2>6. \A p \in Projects : db'[p] = db[p] \/ (db'[p] = NoDb /\ lease[p] # "free")
    BY <1>1, <2>1, <2>4 DEF TypeOK
  <2> QED BY <1>1, <2>1, <2>3, <2>5, <2>6, DeletionKeeps
<1>4. CASE PruneSpares
  <2>1. /\ pc = "recheck" /\ pc' = "release"
        /\ UNCHANGED <<cur, seen, answer, joined, lease, db, events>>
    BY <1>4 DEF PruneSpares, Polling, Keep
  <2>2. TypeOK' /\ P' = P
    BY <1>1, <2>1 DEF TypeOK, P
  <2>3. LeaseShape'
    BY <1>1, <2>1, <2>2 DEF Shape, LeaseShape
  <2> QED BY <1>1, <2>1, <2>2, <2>3, DeletionKeeps
<1>5. CASE PruneEnd
  <2>1. /\ pc = "release" /\ Next1 /\ lease' = [lease EXCEPT ![P] = "free"]
        /\ UNCHANGED <<db, events>>
    BY <1>5 DEF PruneEnd, Polling
  <2>2. TypeOK'
    BY <1>1, <2>1 DEF TypeOK, Next1, Unseen
  <2>3. /\ \A p \in Projects : lease'[p] = IF p = P THEN "free" ELSE lease[p]
        /\ lease[P] = "prune"
    BY <1>1, <2>1 DEF TypeOK, Shape, LeaseShape
  <2>4. LeaseShape'
    BY <1>1, <2>1, <2>3 DEF Shape, LeaseShape, Next1
  <2> QED BY <1>1, <2>1, <2>2, <2>4, DeletionKeeps DEF Next1
<1> QED BY <1>2, <1>3, <1>4, <1>5

LEMMA DeleteKeeps ==
    ASSUME IInv, NEW p \in Projects,
           DeleteBegin(p) \/ DeleteFile(p) \/ DeleteFails(p) \/ DeleteEnd(p)
    PROVE  IInv'
<1>1. /\ TypeOK /\ Shape
      /\ UNCHANGED <<pc, cur, snap, seen, answer, joined, st, table, job, logical, watch, cut, mutex,
                     found, tree, rev, stopped>>
  BY DEF IInv, WatchesSound, DeleteBegin, DeleteFile, DeleteFails, DeleteEnd, Serving, poll, world, app
<1>2. P' = P /\ (pc \in {"recheck", "pruned", "release"} => P \in Projects /\ lease[P] = "prune")
  BY <1>1, CurIsState DEF P, Shape, LeaseShape, Idle
<1>3. del[p] # "none" => lease[p] \in {"ui", "tool"}
  BY <1>1 DEF Shape, LeaseShape
<1>4. CASE DeleteBegin(p)
  <2>1. PICK who \in {"ui", "tool"} : lease[p] = "free" /\ ~Active(p) /\ lease' = [lease EXCEPT ![p] = who]
    BY <1>4 DEF DeleteBegin, Begin
  <2>2. del' = [del EXCEPT ![p] = "held"] /\ db' = db /\ events' \in [Event -> Nat]
    BY <1>1, <1>4, CountTyped DEF DeleteBegin, Event
  <2>3. TypeOK'
    BY <1>1, <2>1, <2>2 DEF TypeOK
  <2>4. \A x \in Projects : /\ lease'[x] = IF x = p THEN who ELSE lease[x]
                           /\ del'[x] = IF x = p THEN "held" ELSE del[x]
    BY <1>1, <2>1, <2>2 DEF TypeOK
  <2>5. LeaseShape'
    BY <1>1, <1>2, <2>1, <2>4 DEF Shape, LeaseShape, Active
  <2> QED BY <1>1, <2>2, <2>3, <2>5, DeletionKeeps
<1>5. CASE DeleteFile(p)
  <2>1. PICK to \in {"unlinked", "end"} : del' = [del EXCEPT ![p] = to]
    BY <1>5 DEF DeleteFile
  <2>2. del[p] = "held" /\ db' = [db EXCEPT ![p] = NoDb] /\ lease' = lease /\ events' = events
    BY <1>5 DEF DeleteFile
  <2>3. TypeOK'
    BY <1>1, <2>1, <2>2 DEF TypeOK
  <2>4. LeaseShape'
    BY <1>1, <1>2, <1>3, <2>1, <2>2 DEF Shape, LeaseShape, TypeOK
  <2>5. \A x \in Projects : db'[x] = db[x] \/ (db'[x] = NoDb /\ lease[x] # "free")
    BY <1>1, <1>3, <2>2 DEF TypeOK
  <2> QED BY <1>1, <2>3, <2>4, <2>5, DeletionKeeps
<1>6. CASE DeleteFails(p)
  <2>1. /\ del[p] = "held" /\ del' = [del EXCEPT ![p] = "end"]
        /\ db' = db /\ lease' = lease /\ events' = events
    BY <1>6 DEF DeleteFails
  <2>2. TypeOK'
    BY <1>1, <2>1 DEF TypeOK
  <2>3. LeaseShape'
    BY <1>1, <1>2, <1>3, <2>1 DEF Shape, LeaseShape, TypeOK
  <2> QED BY <1>1, <2>1, <2>2, <2>3, DeletionKeeps
<1>7. CASE DeleteEnd(p)
  <2>1. /\ del[p] = "end" /\ del' = [del EXCEPT ![p] = "none"]
        /\ db' = db /\ lease' = [lease EXCEPT ![p] = "free"] /\ events' = events
    BY <1>7 DEF DeleteEnd
  <2>2. TypeOK'
    BY <1>1, <2>1 DEF TypeOK
  <2>3. \A x \in Projects : /\ lease'[x] = IF x = p THEN "free" ELSE lease[x]
                           /\ del'[x] = IF x = p THEN "none" ELSE del[x]
    BY <1>1, <2>1 DEF TypeOK
  <2>4. LeaseShape'
    BY <1>1, <1>2, <1>3, <2>1, <2>3 DEF Shape, LeaseShape
  <2> QED BY <1>1, <2>1, <2>2, <2>4, DeletionKeeps
<1> QED BY <1>4, <1>5, <1>6, <1>7
(* -------------------------- watches come and go --------------------------- *)

\* The watch of p goes: every state but its own stays as it is.
Cut(p) ==
    /\ st' \in [States -> State] /\ table' \in [Projects -> States \cup {NoState}]
    /\ table'[p] = NoState /\ \A x \in Projects \ {p} : table'[x] = table[x]
    /\ \A q \in States : st'[q].project = st[q].project
    /\ \A q \in States : q # table[p] => st'[q] = st[q]
    /\ \A q \in States : q = table[p] => st'[q].life = "deferred"

LEMMA UnwatchCuts ==
    ASSUME TypeOK, NEW p \in Projects,
           \/ Unwatch(p)
           \/ /\ Watched(p) /\ st' = Tombstone(table[p])
              /\ table' = [table EXCEPT ![p] = NoState]
    PROVE  Cut(p)
<1>1. /\ st \in [States -> State] /\ table \in [Projects -> States \cup {NoState}]
  BY DEF TypeOK
<1>2. CASE table[p] = NoState
  BY <1>1, <1>2 DEF Cut, Unwatch, Watched
<1>3. CASE table[p] # NoState
  <2> DEFINE q == table[p]
             r == [st[q] EXCEPT !.life = "deferred", !.registered = FALSE]
  <2>1. q \in States /\ st' = Tombstone(q) /\ table' = [table EXCEPT ![p] = NoState]
    BY <1>1, <1>3 DEF Unwatch
  <2>2. st[q] \in State
    BY <1>1, <2>1
  <2>3. st' = [st EXCEPT ![q] = r]
    BY <1>1, <2>1 DEF Tombstone
  <2>4. r \in State /\ r.life = "deferred" /\ r.project = st[q].project
    <3> HIDE DEF q
    <3> QED BY ONLY <2>2 DEF State
  <2> HIDE DEF r
  <2> QED BY <1>1, <2>1, <2>3, <2>4 DEF Cut
<1> QED BY <1>2, <1>3

\* What is left to be shown of a step that takes the watch of p away or leaves it.
LEMMA CutKeeps ==
    ASSUME IInv, TypeOK', NEW p \in Projects,
           Cut(p) \/ UNCHANGED <<st, table>>,
           UNCHANGED <<cur, snap, seen, answer, joined, job, rev>>,
           pc' = pc \/ (pc \in {"recheck", "pruned"} /\ pc' \in {"pruned", "release"}),
           LeaseShape', WatchesAgree', PruneShape',
           \A x \in Projects : db'[x] = db[x] \/ (db'[x] = NoDb /\ lease[x] # "free")
    PROVE  IInv'
<1>1. TypeOK /\ StatesAlive /\ Shape /\ st \in [States -> State] /\ cur \in States \cup {NoState}
  BY DEF IInv, WatchesSound, TypeOK
<1>2. \A q \in States :
         /\ st'[q].project = st[q].project
         /\ st'[q].life # st[q].life => st'[q].life = "deferred"
         /\ st'[q].life = "live" => st'[q] = st[q]
  BY DEF Cut
<1>3. \A x \in Projects : table'[x] # NoState =>
          /\ table'[x] = table[x] /\ table[x] \in States /\ st'[table[x]] = st[table[x]]
  <2>1. CASE UNCHANGED <<st, table>>
    BY <1>1, <2>1 DEF TypeOK
  <2>2. ASSUME Cut(p), NEW x \in Projects, table'[x] # NoState
        PROVE  /\ table'[x] = table[x] /\ table[x] \in States /\ st'[table[x]] = st[table[x]]
    <3>1. x # p /\ table'[x] = table[x] /\ table[x] \in States
      BY <1>1, <2>2 DEF Cut, TypeOK
    <3>2. table[x] # table[p]
      BY <1>1, <2>2, <3>1 DEF StatesAlive, Watched
    <3> QED BY <2>2, <3>1, <3>2 DEF Cut
  <2> QED BY <2>1, <2>2
<1>4. cur # NoState => P' = P
  <2>1. cur' = cur
    OBVIOUS
  <2> QED BY ONLY <1>1, <1>2, <2>1 DEF P
<1>5. StatesAlive'
  <2>1. \A x \in Projects : table'[x] # NoState =>
            /\ st'[table'[x]].life = "live" /\ st'[table'[x]].registered /\ st'[table'[x]].project = x
    BY <1>1, <1>3 DEF StatesAlive, Watched
  <2>2. ASSUME NEW q \in States, st'[q].life = "live" PROVE table'[st'[q].project] = q
    <3>1. st'[q] = st[q] /\ table[st[q].project] = q /\ st[q].project \in Projects
      <4>1. st'[q] = st[q]
        BY ONLY <1>2, <2>2
      <4>2. st[q].life = "live" /\ st[q] \in State
        BY ONLY <1>1, <2>2, <4>1
      <4> QED BY ONLY <1>1, <2>2, <4>1, <4>2 DEF StatesAlive, State
    <3>2. CASE UNCHANGED <<st, table>>
      BY <3>1, <3>2
    <3>3. CASE Cut(p)
      <4>1. st[q].project # p
        BY <2>2, <3>1, <3>3 DEF Cut
      <4> QED BY <3>1, <3>3, <4>1 DEF Cut
    <3> QED BY <3>2, <3>3
  <2>3. \A q \in snap \cup ({cur} \ {NoState}) : q \in States /\ st[q].life # "free"
    BY <1>1 DEF StatesAlive, TypeOK
  <2>4. snap' = snap /\ cur' = cur
    OBVIOUS
  <2>5. \A q \in snap' \cup ({cur'} \ {NoState}) : st'[q].life # "free"
    BY ONLY <1>2, <2>3, <2>4
  <2> QED BY ONLY <2>1, <2>2, <2>5 DEF StatesAlive, Watched
<1>6. PollShape'
  BY <1>1 DEF Shape, PollShape
<1>7. JobShape'
  <2>1. \A x \in Projects : job[x].phase = "written" => db'[x] = db[x]
    BY <1>1 DEF Shape, LeaseShape
  <2>2. \A x \in Projects : job[x].watcher => pc' = "wait" /\ answer = "none" /\ P = x /\ cur # NoState
    BY <1>1 DEF Shape, JobShape, PollShape
  <2> QED BY <1>1, <1>4, <2>1, <2>2 DEF Shape, JobShape
<1>8. SeenShape'
  <2>1. pc' \in {"admit", "call", "wait"} => pc' = pc /\ P' = P /\ P \in Projects
    BY <1>1, <1>4, CurIsState DEF Shape, PollShape, Idle
  <2> QED BY <1>1, <2>1 DEF Shape, SeenShape
<1>9. OwnShape'
  BY <1>1, <1>3 DEF Shape, OwnShape, Watched
<1> QED BY <1>5, <1>6, <1>7, <1>8, <1>9 DEF IInv, WatchesSound, Shape

LEMMA PruneDeleteKeeps == ASSUME IInv, PruneDelete PROVE IInv'
<1>1. /\ TypeOK /\ StatesAlive /\ WatchesAgree /\ Shape /\ cur \in States /\ P \in Projects
      /\ pc = "recheck" /\ pc' = "pruned" /\ table[P] = cur
      /\ db' = [db EXCEPT ![P] = NoDb] /\ st' = Tombstone(cur) /\ table' = [table EXCEPT ![P] = NoState]
      /\ UNCHANGED <<cur, snap, seen, answer, joined, job, lease, events>>
      /\ UNCHANGED <<tree, rev, logical, watch, mutex, found, cut, stopped, del>>
      /\ lease[P] = "prune"
  BY CurIsState DEF PruneDelete, Eligible, Polling, world, app, IInv, WatchesSound, Idle, Shape, LeaseShape
<1>2. Cut(P)
  BY <1>1, UnwatchCuts DEF Watched
<1>3. P' = P
  BY <1>1, <1>2 DEF Cut, P
<1>4. TypeOK'
  <2>1. db' \in [Projects -> Nat \cup {NoDb}]
    BY <1>1 DEF TypeOK
  <2> QED BY <1>1, <1>2, <2>1 DEF TypeOK, Cut
<1>5. LeaseShape'
  BY <1>1, <1>3 DEF Shape, LeaseShape
<1>6. P \in logical
  BY <1>1 DEF WatchesAgree, Watched
<1>7. /\ \A x \in Projects \ {P} : table'[x] = table[x] /\ db'[x] = db[x]
      /\ table'[P] = NoState /\ db'[P] = NoDb
  BY <1>1, <1>2 DEF Cut, TypeOK
<1>8. WatchesAgree'
  BY <1>1, <1>3, <1>6, <1>7 DEF WatchesAgree, Watched
<1>9. PruneShape'
  BY <1>1, <1>3, <1>6, <1>7 DEF PruneShape, Watched
<1>10. \A x \in Projects : db'[x] = db[x] \/ (db'[x] = NoDb /\ lease[x] # "free")
  BY <1>1, <1>7
<1> QED BY <1>1, <1>2, <1>4, <1>5, <1>8, <1>9, <1>10, CutKeeps

LEMMA PruneToldKeeps == ASSUME IInv, PruneTold PROVE IInv'
<1>1. /\ TypeOK /\ StatesAlive /\ WatchesAgree /\ Shape /\ P \in Projects
      /\ pc = "pruned" /\ pc' = "release"
      /\ logical' = logical \ {P} /\ watch' \subseteq watch /\ cut' = cut \ {P}
      /\ UNCHANGED <<cur, snap, seen, answer, joined, tree, rev, mutex, found, db, st, table,
                     stopped, job, lease, del, events>>
  BY CurIsState DEF PruneTold, Forgotten, world, IInv, WatchesSound, Idle
<1>2. P' = P /\ ~Watched(P)
  BY <1>1 DEF P, Shape, PruneShape
<1>3. TypeOK'
  BY <1>1 DEF TypeOK
<1>4. LeaseShape'
  BY <1>1, <1>2 DEF Shape, LeaseShape
<1>5. WatchesAgree'
  BY <1>1, <1>2 DEF WatchesAgree, Watched
<1>6. PruneShape'
  BY <1>1 DEF PruneShape
<1> QED BY <1>1, <1>3, <1>4, <1>5, <1>6, CutKeeps

\* Sessions leave or find no database, the UI server deletes: with the watch of p.
LEMMA UnwatchKeeps ==
    ASSUME IInv, NEW p \in Projects,
           Unwatch(p) \/ UNCHANGED <<st, table>>,
           UNCHANGED <<pc, cur, snap, seen, answer, joined, tree, rev, stopped, job, db, lease>>,
           events' \in [Event -> Nat],
           logical' \in SUBSET Projects, watch' \subseteq Sessions, cut' \subseteq Projects,
           mutex' \in Sessions \cup {NoOne}, found' \in BOOLEAN,
           \A x \in Projects \ {p} : /\ x \in logical' <=> x \in logical
                                     /\ x \in cut' <=> x \in cut
                                     /\ del'[x] = del[x],
           del' \in [Projects -> {"none", "held", "unlinked", "end"}],
           del'[p] # "none" => del[p] # "none",
           \/ p \notin logical' /\ Unwatch(p)
           \/ p \in logical' /\ p \in cut' /\ Unwatch(p)
           \/ (p \in logical' <=> p \in logical) /\ (p \in cut' <=> p \in cut) /\ UNCHANGED <<st, table>>,
           mutex' # NoOne /\ found' => db[Home[mutex']] # NoDb \/ (mutex' = mutex /\ found' = found),
           mutex # NoOne /\ mutex' = mutex => logical \subseteq logical'
    PROVE  IInv'
<1>1. TypeOK /\ StatesAlive /\ WatchesAgree /\ Shape
  BY DEF IInv, WatchesSound
<1>2. Cut(p) \/ UNCHANGED <<st, table>>
  BY <1>1, UnwatchCuts
<1>3. cur # NoState => P' = P
  BY <1>1, <1>2 DEF P, Cut, TypeOK
<1>4. TypeOK'
  BY <1>1, <1>2 DEF TypeOK, Cut
<1>5. LeaseShape'
  BY <1>1, <1>3 DEF Shape, LeaseShape, PollShape
<1>6. \A x \in Projects \ {p} : table'[x] = table[x]
  BY <1>2 DEF Cut
<1>7. Unwatch(p) => table'[p] = NoState
  BY <1>1, UnwatchCuts DEF Cut
<1>8. WatchesAgree'
  <2>1. pc = "pruned" => P' = P /\ P \in Projects
    BY <1>1, <1>3, CurIsState DEF Shape, PollShape, Idle
  <2>2. ASSUME NEW x \in Projects, x # p
        PROVE  \/ x \in logical' <=> table'[x] # NoState
               \/ x \in logical' /\ x \in cut'
               \/ x \in logical' /\ pc' = "pruned" /\ P' = x
    BY <1>1, <1>6, <2>1, <2>2 DEF WatchesAgree, Watched
  <2>3. \/ p \in logical' <=> table'[p] # NoState
        \/ p \in logical' /\ p \in cut'
        \/ p \in logical' /\ pc' = "pruned" /\ P' = p
    <3>1. CASE Unwatch(p) /\ p \notin logical'
      BY <1>7, <3>1
    <3>2. CASE p \in logical' /\ p \in cut'
      BY <3>2
    <3>3. CASE (p \in logical' <=> p \in logical) /\ (p \in cut' <=> p \in cut) /\ UNCHANGED <<st, table>>
      BY <1>1, <2>1, <3>3 DEF WatchesAgree, Watched
    <3> QED BY <3>1, <3>2, <3>3
  <2> QED BY <2>2, <2>3 DEF WatchesAgree, Watched
<1>9. PruneShape'
  <2> SUFFICES ASSUME pc' = "pruned"
               PROVE  /\ ~Watched(P)' /\ db'[P'] = NoDb
                      /\ mutex' # NoOne /\ found' /\ Home[mutex'] = P' => P' \in logical'
    BY DEF PruneShape
  <2>1. P' = P /\ P \in Projects /\ pc = "pruned" /\ ~Watched(P) /\ db[P] = NoDb
        /\ (mutex # NoOne /\ found /\ Home[mutex] = P => P \in logical)
    BY <1>1, <1>3, CurIsState DEF Shape, PollShape, Idle, PruneShape
  <2>2. table'[P] = NoState
    BY <1>6, <1>7, <2>1 DEF Watched
  <2> QED BY <2>1, <2>2 DEF Watched
<1> QED BY <1>1, <1>2, <1>4, <1>5, <1>8, <1>9, CutKeeps
LEMMA ServingKeeps ==
    ASSUME Serving
    PROVE  UNCHANGED <<pc, cur, snap, seen, answer, joined, tree, rev, stopped, job>>
BY DEF Serving, poll, world

LEMMA ForgottenTyped ==
    ASSUME TypeOK, NEW p \in Projects, Forgotten(p)
    PROVE  /\ logical' = logical \ {p} /\ cut' = cut \ {p}
           /\ logical' \in SUBSET Projects /\ watch' \subseteq Sessions /\ cut' \subseteq Projects
BY DEF Forgotten, TypeOK

LEMMA LeaveKeeps == ASSUME IInv, NEW s \in Sessions, Leave(s) PROVE IInv'
<1> DEFINE p == Home[s]
<1>1. /\ TypeOK /\ p \in Projects /\ mutex = NoOne /\ watch' = watch \ {s}
      /\ UNCHANGED <<mutex, found, db, lease, del, events>>
      /\ \/ logical' = logical \ {p} /\ cut' = cut \ {p} /\ Unwatch(p)
         \/ UNCHANGED <<logical, cut, st, table>>
  BY DEF Leave, IInv, WatchesSound
<1> HIDE DEF p
<1>2. /\ logical' \in SUBSET Projects /\ watch' \subseteq Sessions /\ cut' \subseteq Projects
      /\ mutex' \in Sessions \cup {NoOne} /\ found' \in BOOLEAN /\ events' \in [Event -> Nat]
      /\ del' \in [Projects -> {"none", "held", "unlinked", "end"}]
  BY <1>1 DEF TypeOK
<1>3. UNCHANGED <<pc, cur, snap, seen, answer, joined, tree, rev, stopped, job>>
  BY ServingKeeps DEF Leave
<1>4. CASE logical' = logical \ {p} /\ cut' = cut \ {p} /\ Unwatch(p)
  BY <1>1, <1>2, <1>3, <1>4, UnwatchKeeps
<1>5. CASE UNCHANGED <<logical, cut, st, table>>
  BY <1>1, <1>2, <1>3, <1>5, UnwatchKeeps
<1> QED BY <1>1, <1>4, <1>5

LEMMA LookKeeps == ASSUME IInv, NEW s \in Sessions, RefreshLook(s) PROVE IInv'
<1> DEFINE p == Home[s]
<1>1. /\ TypeOK /\ p \in Projects /\ mutex' = s /\ found' = (db[p] # NoDb)
      /\ UNCHANGED <<logical, watch, cut, db, st, table, lease, del, events>>
  BY DEF RefreshLook, IInv, WatchesSound
<1>2. /\ logical' \in SUBSET Projects /\ watch' \subseteq Sessions /\ cut' \subseteq Projects
      /\ mutex' \in Sessions \cup {NoOne} /\ found' \in BOOLEAN /\ events' \in [Event -> Nat]
      /\ del' \in [Projects -> {"none", "held", "unlinked", "end"}]
  BY <1>1 DEF TypeOK
<1>3. UNCHANGED <<pc, cur, snap, seen, answer, joined, tree, rev, stopped, job>>
  BY ServingKeeps DEF RefreshLook
<1>4. found' => db[Home[mutex']] # NoDb
  BY <1>1
<1> HIDE DEF p
<1> QED BY <1>1, <1>2, <1>3, <1>4, UnwatchKeeps

LEMMA DropsKeeps == ASSUME IInv, NEW s \in Sessions, RefreshDrops(s) PROVE IInv'
<1> DEFINE p == Home[s]
<1>1. /\ TypeOK /\ p \in Projects /\ mutex' = NoOne /\ found' = FALSE
      /\ UNCHANGED <<db, lease, del, events>>
      /\ \/ Forgotten(p) /\ Unwatch(p)
         \/ UNCHANGED <<logical, watch, cut, st, table>>
  BY DEF RefreshDrops, IInv, WatchesSound
<1> HIDE DEF p
<1>2. /\ mutex' \in Sessions \cup {NoOne} /\ found' \in BOOLEAN /\ events' \in [Event -> Nat]
      /\ del' \in [Projects -> {"none", "held", "unlinked", "end"}]
  BY <1>1 DEF TypeOK
<1>3. UNCHANGED <<pc, cur, snap, seen, answer, joined, tree, rev, stopped, job>>
  BY ServingKeeps DEF RefreshDrops
<1>4. CASE Forgotten(p) /\ Unwatch(p)
  <2>1. /\ logical' = logical \ {p} /\ cut' = cut \ {p}
        /\ logical' \in SUBSET Projects /\ watch' \subseteq Sessions /\ cut' \subseteq Projects
    BY <1>1, <1>4, ForgottenTyped
  <2> QED BY <1>1, <1>2, <1>3, <1>4, <2>1, UnwatchKeeps
<1>5. CASE UNCHANGED <<logical, watch, cut, st, table>>
  <2>1. logical' \in SUBSET Projects /\ watch' \subseteq Sessions /\ cut' \subseteq Projects
    BY <1>1, <1>5 DEF TypeOK
  <2> QED BY <1>1, <1>2, <1>3, <1>5, <2>1, UnwatchKeeps
<1> QED BY <1>1, <1>4, <1>5

LEMMA DeleteUnwatchesKeeps == ASSUME IInv, NEW p \in Projects, DeleteUnwatches(p) PROVE IInv'
<1>1. /\ TypeOK /\ del[p] = "unlinked" /\ Unwatch(p) /\ del' = [del EXCEPT ![p] = "end"]
      /\ cut' = cut \cup ({p} \cap logical)
      /\ UNCHANGED <<logical, watch, mutex, found, db, lease, events>>
  BY DEF DeleteUnwatches, IInv, WatchesSound
<1>2. /\ logical' \in SUBSET Projects /\ watch' \subseteq Sessions /\ cut' \subseteq Projects
      /\ mutex' \in Sessions \cup {NoOne} /\ found' \in BOOLEAN /\ events' \in [Event -> Nat]
      /\ del' \in [Projects -> {"none", "held", "unlinked", "end"}]
      /\ \A x \in Projects \ {p} : del'[x] = del[x]
  BY <1>1 DEF TypeOK
<1>3. UNCHANGED <<pc, cur, snap, seen, answer, joined, tree, rev, stopped, job>>
  BY ServingKeeps DEF DeleteUnwatches
<1>4. \/ p \notin logical' /\ Unwatch(p)
      \/ p \in logical' /\ p \in cut' /\ Unwatch(p)
  BY <1>1
<1> QED BY <1>1, <1>2, <1>3, <1>4, UnwatchKeeps

\* A new watch: its state was free, so nobody refers to it.
LEMMA RegisterKeeps ==
    ASSUME IInv, NEW s \in Sessions, mutex = s, found, Home[s] \notin logical, Watch(Home[s]),
           logical' = logical \cup {Home[s]}, watch' \subseteq Sessions,
           mutex' = NoOne, found' = FALSE,
           UNCHANGED <<pc, cur, snap, seen, answer, joined, tree, rev, stopped, job, db, lease, del, cut,
                      events>>
    PROVE  IInv'
<1> DEFINE p == Home[s]
           New == [Blank(p) EXCEPT !.life = "live", !.registered = TRUE]
<1>1. TypeOK /\ StatesAlive /\ WatchesAgree /\ Shape /\ p \in Projects /\ ~Watched(p)
  BY DEF IInv, WatchesSound, WatchesAgree
<1>2. /\ New \in State /\ New.life = "live" /\ New.registered /\ New.project = p
      /\ New.indexed = NoDb
  <2>1. Blank(p) \in State /\ Blank(p).project = p /\ Blank(p).indexed = NoDb
    BY <1>1, BlankTyped DEF Blank
  <2> HIDE DEF p
  <2> QED BY ONLY <2>1 DEF State
<1> HIDE DEF New
<1>3. PICK q \in States :
         /\ st[q].life = "free" /\ st' = [st EXCEPT ![q] = New] /\ table' = [table EXCEPT ![p] = q]
  BY <1>1 DEF Watch, Watched, New
<1> HIDE DEF p
<1>4. /\ st' \in [States -> State] /\ table' \in [Projects -> States \cup {NoState}]
      /\ \A x \in States : st'[x] = IF x = q THEN New ELSE st[x]
      /\ \A x \in Projects : table'[x] = IF x = p THEN q ELSE table[x]
  BY <1>1, <1>2, <1>3 DEF TypeOK
<1>5. TypeOK'
  <2>1. logical' \subseteq Projects
    BY <1>1 DEF TypeOK, p
  <2> QED BY <1>1, <1>4, <2>1 DEF TypeOK
<1>6. cur # q /\ q \notin snap /\ \A x \in Projects : table[x] # q
  BY <1>1, <1>3 DEF StatesAlive, Watched
<1>7. cur # NoState => P' = P /\ cur \in States
  BY <1>1, <1>4, <1>6 DEF P, TypeOK
<1>8. \A x \in Projects : table[x] # NoState => table[x] \in States /\ st'[table[x]] = st[table[x]]
  BY <1>1, <1>4, <1>6 DEF TypeOK
<1>9. StatesAlive'
  <2>1. \A x \in Projects : table'[x] # NoState =>
           /\ st'[table'[x]].life = "live" /\ st'[table'[x]].registered /\ st'[table'[x]].project = x
    BY <1>1, <1>2, <1>3, <1>4, <1>8 DEF StatesAlive, Watched
  <2>2. ASSUME NEW x \in States, st'[x].life = "live" PROVE table'[st'[x].project] = x
    <3>1. CASE x = q
      BY <1>1, <1>2, <1>4, <3>1
    <3>2. CASE x # q
      <4>1. st'[x] = st[x] /\ table[st[x].project] = x /\ st[x].project \in Projects
        BY <1>1, <1>4, <2>2, <3>2 DEF StatesAlive, TypeOK, State
      <4>2. st[x].project # p
        BY <1>1, <3>2, <4>1 DEF Watched
      <4> QED BY <1>4, <4>1, <4>2
    <3> QED BY <3>1, <3>2
  <2>3. \A x \in snap \cup ({cur} \ {NoState}) : st'[x].life # "free"
    <3>1. \A x \in snap \cup ({cur} \ {NoState}) : x \in States /\ x # q /\ st[x].life # "free"
      BY <1>1, <1>6 DEF StatesAlive, TypeOK
    <3> QED BY <1>4, <3>1
  <2> QED BY <2>1, <2>2, <2>3 DEF StatesAlive, Watched
<1>10. WatchesAgree'
  <2>1. pc = "pruned" => P' = P
    BY <1>1, <1>7 DEF Shape, PollShape
  <2>2. p \in logical' /\ table'[p] # NoState
    BY <1>1, <1>3, <1>4 DEF p
  <2>3. \A x \in Projects \ {p} : (x \in logical' <=> x \in logical) /\ table'[x] = table[x]
    BY <1>4 DEF p
  <2> QED BY <1>1, <2>1, <2>2, <2>3 DEF WatchesAgree, Watched
<1>11. PollShape' /\ LeaseShape'
  BY <1>1, <1>7 DEF Shape, PollShape, LeaseShape
<1>12. JobShape'
  <2>1. \A x \in Projects : job[x].watcher => pc = "wait" /\ answer = "none" /\ P = x /\ cur # NoState
    BY <1>1 DEF Shape, JobShape, PollShape
  <2> QED BY <1>1, <1>7, <2>1 DEF Shape, JobShape
<1>13. PruneShape'
  <2>1. pc = "pruned" => /\ P' = P /\ P \in Projects /\ ~Watched(P) /\ db[P] = NoDb
                         /\ (Home[s] = P => P \in logical)
    BY <1>1, <1>7, CurIsState DEF Shape, PollShape, PruneShape, Idle
  <2>2. pc = "pruned" => P # p /\ table'[P] = NoState
    BY <1>4, <2>1 DEF p, Watched
  <2> QED BY <2>1, <2>2 DEF PruneShape, Watched
<1>14. SeenShape'
  <2>1. pc \in {"admit", "call", "wait"} => P' = P
    BY <1>1, <1>7 DEF Shape, PollShape
  <2> QED BY <1>1, <2>1 DEF Shape, SeenShape
<1>15. OwnShape'
  <2>1. ASSUME NEW x \in Projects, table'[x] # NoState, st'[table'[x]].own
        PROVE  /\ st'[table'[x]].indexed <= rev[x]
               /\ db[x] = NoDb \/ st'[table'[x]].indexed <= db[x]
               /\ job[x].phase \in {"read", "written"} => st'[table'[x]].indexed <= job[x].read
    <3>1. CASE x = p
      <4>1. st'[table'[x]].indexed = -1
        BY <1>1, <1>2, <1>3, <1>4, <3>1 DEF NoDb
      <4>2. rev[x] \in Nat /\ db[x] \in Nat \cup {-1} /\ job[x].read \in Nat \cup {-1}
        BY <1>1 DEF TypeOK, NoDb
      <4> QED BY <4>1, <4>2
    <3>2. CASE x # p
      BY <1>1, <1>4, <1>8, <2>1, <3>2 DEF Shape, OwnShape, Watched
    <3> QED BY <3>1, <3>2
  <2> QED BY <2>1 DEF OwnShape, Watched
<1> QED BY <1>5, <1>9, <1>10, <1>11, <1>12, <1>13, <1>14, <1>15 DEF IInv, WatchesSound, Shape

LEMMA RefreshKeepsKeeps == ASSUME IInv, NEW s \in Sessions, RefreshKeeps(s) PROVE IInv'
<1> DEFINE p == Home[s]
<1>1. /\ TypeOK /\ p \in Projects /\ mutex = s /\ found /\ mutex' = NoOne /\ found' = FALSE
      /\ UNCHANGED <<cut, db, lease, del>>
  BY DEF RefreshKeeps, IInv, WatchesSound
<1>2. UNCHANGED <<pc, cur, snap, seen, answer, joined, tree, rev, stopped, job>>
  BY ServingKeeps DEF RefreshKeeps
<1>3. /\ cut' \subseteq Projects /\ mutex' \in Sessions \cup {NoOne} /\ found' \in BOOLEAN
      /\ del' \in [Projects -> {"none", "held", "unlinked", "end"}]
      /\ watch \cup {s} \subseteq Sessions /\ watch \subseteq Sessions /\ logical \subseteq Projects
      /\ events \in [Event -> Nat]
  BY <1>1 DEF TypeOK
<1>4. CASE watch' = watch \cup {s} /\ UNCHANGED <<logical, st, table, events>>
  <2> HIDE DEF p
  <2> QED BY <1>1, <1>2, <1>3, <1>4, UnwatchKeeps
<1>5. CASE /\ p \notin logical /\ Watch(p) /\ logical' = logical \cup {p} /\ watch' = watch \cup {s}
           /\ UNCHANGED events
  BY <1>1, <1>2, <1>3, <1>5, RegisterKeeps
<1>6. CASE Spend(stopped) /\ UNCHANGED <<logical, watch, st, table>>
  <2>1. events' \in [Event -> Nat]
    BY <1>1, <1>3, <1>6, CountTyped DEF Spend, Event
  <2> HIDE DEF p
  <2> QED BY <1>1, <1>2, <1>3, <1>6, <2>1, UnwatchKeeps
<1> QED BY <1>4, <1>5, <1>6 DEF RefreshKeeps

(* ------------------------------ theorems --------------------------------- *)

LEMMA InitInv == Init => IInv
<1> SUFFICES ASSUME Init PROVE IInv
  OBVIOUS
<1>1. PICK r \in Projects : st = [q \in States |-> Blank(r)]
  BY DEF Init
<1>2. TypeOK
  <2>1. st \in [States -> State]
    BY <1>1, BlankTyped
  <2>2. /\ tree \in [Projects -> [head : Nat, edit : Nat, root : {"present", "missing", "uncertain"}]]
    BY DEF Init
  <2> QED BY <2>1, <2>2 DEF Init, TypeOK, Unseen, NoJob, NoDb, Event
<1>3. StatesAlive
  BY <1>1, BlankFields DEF Init, StatesAlive, Watched
<1>4. WatchesAgree
  BY DEF Init, WatchesAgree, Watched
<1>5. \A p \in Projects : job[p].phase = "none" /\ ~job[p].watcher /\ lease[p] = "free" /\ del[p] = "none"
  BY DEF Init, NoJob
<1>6. Shape
  BY <1>5 DEF Init, Shape, PollShape, LeaseShape, JobShape, PruneShape, SeenShape, OwnShape, Watched
<1> QED BY <1>2, <1>3, <1>4, <1>6 DEF IInv, WatchesSound

LEMMA StepKeeps == IInv /\ [Next]_vars => IInv'
<1> SUFFICES ASSUME IInv, [Next]_vars PROVE IInv'
  OBVIOUS
<1>1. CASE PollStep
  BY <1>1, StartKeeps, EndKeeps, VisitKeeps, CheckKeeps, CallKeeps, CallRefusedKeeps, AnsweredKeeps,
     PruneKeeps, PruneDeleteKeeps, PruneToldKeeps DEF PollStep
<1>2. CASE Stop \/ UNCHANGED vars
  BY <1>2, StopKeeps
<1>3. CASE \E q \in States : Elapse(q) \/ Age(q)
  BY <1>3, TimeKeeps
<1>4. CASE \E s \in Sessions : Leave(s) \/ RefreshLook(s) \/ RefreshStep(s)
  BY <1>4, LeaveKeeps, LookKeeps, DropsKeeps, RefreshKeepsKeeps DEF RefreshStep
<1>5. CASE \E p \in Projects : \/ JobStep(p) \/ ClientIndex(p) \/ DeleteBegin(p) \/ DeleteStep(p)
                              \/ Change(p) \/ Move(p)
  BY <1>5, WorkKeeps, DeleteKeeps, DeleteUnwatchesKeeps, OutsideKeeps DEF JobStep, DeleteStep
<1> QED BY <1>1, <1>2, <1>3, <1>4, <1>5 DEF Next

\* The invariant holds in every behaviour, fair or not.
THEOREM Invariance == SafeSpec => []IInv
BY InitInv, StepKeeps, PTL DEF SafeSpec

\* No state is freed while the table, the snapshot or the poll refers to it, the table
\* holds exactly the live states, and a project has a logical watch exactly if it has a
\* physical one, but while a prune or a deletion has yet to say that it took it away.
THEOREM WatchesAreSound == Spec => []WatchesSound
<1>1. IInv => WatchesSound
  BY DEF IInv
<1> QED BY <1>1, Invariance, PTL DEF Spec

\* A baseline committed after an index that read the tree since the check is no newer
\* than the database: no change of a tree is lost that way, whoever else indexes,
\* prunes or deletes the project meanwhile.
THEOREM OwnIndexesAreCommitted == Spec => []OwnIndexIsCommitted
<1>1. IInv => OwnIndexIsCommitted
  BY DEF IInv, Shape, OwnShape, OwnIndexIsCommitted
<1> QED BY <1>1, Invariance, PTL DEF Spec
=============================================================================
