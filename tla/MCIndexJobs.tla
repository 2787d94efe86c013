---------------------------- MODULE MCIndexJobs ----------------------------
(***************************************************************************)
(* Small instances of IndexJobs: projects p and q, sessions s, t, u whose  *)
(* context is one of them, the watcher's thread and one of the UI server.  *)
(***************************************************************************)
EXTENDS IndexJobs, TLC

CONSTANTS s, t, u, p, q, watcher, ui

OneHome == [x \in Sessions |-> p]
TwoHomes == [x \in Sessions |-> IF x = t THEN q ELSE p]

OnePlan == {<<p>>}
Matches == {<<p, q>>, <<q, p>>, <<q>>, <<Wild>>}
ByName == [k \in Keys |-> IF k = p THEN 1 ELSE IF k = q THEN 2 ELSE 0]

Plain == [clients |-> Sessions, callers |-> Callers, projects |-> {p}, kinds |-> {},
          requests |-> 1, calls |-> 0, interrupts |-> 0, startFailures |-> 0,
          crashes |-> FALSE, hangs |-> FALSE]

\* Both sessions share a project with the watcher, one of them interrupted once, or
\* twice, or with the watcher and the UI.
Initializing == [Plain EXCEPT !.kinds = {"initialize"}]
Sharing == {[Plain EXCEPT !.kinds = {"index", "initialize"}, !.callers = {watcher}, !.calls = 1,
                          !.interrupts = 1],
            [Initializing EXCEPT !.callers = {watcher}, !.calls = 1, !.interrupts = 2],
            [Initializing EXCEPT !.calls = 2]}
\* Both queue for two projects, or one of them comes and goes, with two requests or
\* beside the UI.
Queueing == [Plain EXCEPT !.projects = {p, q}, !.startFailures = 1,
                          !.kinds = {"index", "mutate", "initialize"}]
Leaving  == [Plain EXCEPT !.clients = {s}, !.kinds = {"initialize"}, !.interrupts = 2,
                          !.crashes = TRUE, !.hangs = TRUE]
QueueingOrLeaving ==
    {Queueing, [Leaving EXCEPT !.requests = 2], [Leaving EXCEPT !.calls = 1]}

Alike == Permutations(Sessions)
=============================================================================
