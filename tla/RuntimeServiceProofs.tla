----------------------- MODULE RuntimeServiceProofs -----------------------
(***************************************************************************)
(* The service of one generation of the daemon is sound, for every number  *)
(* of worker slots and clients and every bound on what arrives: its        *)
(* counters and its coordinator's clients are those of its workers, every  *)
(* session is closed once by the worker that opened it, nothing outlives   *)
(* the exit, answers reach who waits for them (ConnectionsSound); an       *)
(* acknowledged stop is followed by silence (AckMeansDraining); and the    *)
(* service is a generation as Generation describes it.                     *)
(*                                                                         *)
(* IInv has five parts.  TypeOK.  Books: Station says of each worker, by   *)
(* its place in runtime_worker_main, which flags may be set and what its   *)
(* session is; Counted ties the counters and the coordinator to these      *)
(* flags; Distinct and Kept tie clients and sessions to workers one to     *)
(* one; Budgeted keeps identities below the bound.  Peer: a client's       *)
(* request is in the connection, in the thread's hands or answered, in     *)
(* exactly one of these, so none is ever met while a thread is at work.    *)
(* Silence: who owns an accepted stop is alone once it has interrupted the *)
(* others.  Ends: who has exited has nobody active.                        *)
(*                                                                         *)
(* A step of a worker that only moves it on is reduced to its effect       *)
(* (MoveEffect, Hop): most handlers are such steps.  The ten others are    *)
(* each shown to keep Books, and every step to keep the rest and to be a   *)
(* step of Generation or to change nothing that it sees (StepKeeps).       *)
(***************************************************************************)
EXTENDS RuntimeService, FiniteSetTheorems, SequenceTheorems, TLAPS

----------------------------------------------------------------------------
(* The inductive invariant.                                                *)

Conn == [open : BOOLEAN, up : BOOLEAN, eof : BOOLEAN, in : Seq(Frame), out : Seq(Reply)]
SessionState == {"none", "open", "cancelled", "closed"}
Coordinator ==
    [state : {"running", "stopping"}, clients : SUBSET ClientId, last : ClientId \cup {0}]

Early == {"free", "first", "admit", "verdict", "drain", "ack"}
Serving == {"open", "commit", "welcome", "loop", "receive", "disconnect"}
Ending == {"account", "tail", "returned"}

\* What a worker's place says of its flags, its connection and its client's session.
Station(w) ==
    LET r == worker[w] IN
    /\ r.done <=> r.pc \in {"tail", "returned"}
    /\ conn[w].open <=> r.pc \notin {"free", "tail", "returned"}
    /\ conn[w].up => conn[w].open
    /\ r.client <= coordinator.last
    /\ r.pc \in Early => r.client = 0
    /\ r.client = 0 => /\ ~r.admitted /\ ~r.opened
                       /\ r.pc \in Early \cup Ending \cup {"disconnect", "join"}
    /\ r.admitted => r.pc \in Serving
    /\ r.committed => r.admitted /\ r.opened
    /\ r.pc = "open" => r.admitted /\ ~r.opened
    /\ r.pc = "commit" => r.admitted /\ r.opened /\ ~r.committed
    /\ r.pc = "welcome" => r.committed
    /\ r.pc \in {"loop", "receive"} => r.opened
    /\ r.pc \in {"disconnect", "release", "cancel"} /\ r.after = "loop" => r.opened
    /\ r.pc = "disconnect" /\ r.client = 0 => r.after = "join"
    /\ r.pc \in Ending => ~r.opened
    /\ r.app # "none" => r.opened
    /\ r.cancelled => \/ r.opened /\ ~r.admitted /\ r.pc \notin {"release", "cancel"}
                      \/ r.pc \in Ending
    /\ r.opened => session[r.client] =
            IF r.admitted \/ r.pc \in {"release", "cancel"} THEN "open" ELSE "cancelled"
    /\ r.pc = "admit" => client[w].kind = "session"
    /\ r.pc = "verdict" => client[w].kind # "session"

\* Sessions that may still be admitted fit the bound on clients.
Pending == {w \in Workers : client[w].kind = "session" /\ worker[w].pc \in {"first", "admit"}}
Budgeted == coordinator.last + Cardinality(Pending) + budget.session <= MaxClients

Distinct ==
    \A v, w \in Workers : worker[v].client = worker[w].client /\ v # w => worker[v].client = 0
\* An open or cancelled session has the worker that will close it.
Kept ==
    \A c \in DOMAIN session : session[c] \in {"open", "cancelled"} =>
        \E w \in Workers : worker[w].client = c /\ worker[w].opened

Active == {w \in Workers : InUse(w) /\ ~worker[w].done}
Members == {w \in Workers : worker[w].committed}
Counted ==
    /\ service.active = Cardinality(Active) /\ service.committed = Cardinality(Members)
    /\ coordinator.clients = {worker[w].client : w \in Holders}
Books == (\A w \in Workers : Station(w)) /\ Budgeted /\ Distinct /\ Kept /\ Counted

\* At most one message of s says op, and it is about t; none does.
Fits(s, op, t) ==
    \A i \in DOMAIN s : s[i].op = op =>
        s[i].token = t /\ \A j \in DOMAIN s : s[j].op = op => i = j
Lacks(s, op) == \A i \in DOMAIN s : s[i].op # op
\* A client is past its last answer, and its worker's thread is at work for it.
Quiet == {"none", "hello", "idle", "leaving"}
Busy(w) == worker[w].app \in {"calling", "sending"}
\* A client's request is on its way, in its worker's hands, or answered: one of the three.
Peer(w) ==
    LET r == worker[w]
        in == conn[w].in
        out == conn[w].out
        c == client[w]
    IN /\ r.appDone <=> r.app \in {"sending", "sent", "returned"}
       /\ Fits(in, "request", c.token) /\ Fits(out, "answer", c.token) /\ Lacks(out, "busy")
       /\ Busy(w) => r.token = c.token
       /\ Lacks(in, "request") \/ (Lacks(out, "answer") /\ ~Busy(w))
       /\ Lacks(out, "answer") \/ ~Busy(w)
       /\ c.pc \in Quiet => Lacks(in, "request") /\ Lacks(out, "answer") /\ ~Busy(w)

Parting == {"disconnect", "join", "account", "tail", "returned"}
Owning == {"drain", "ack"} \cup Parting
\* Whoever has an accepted stop is alone, and after the acknowledgement nobody is connected.
Silence ==
    /\ \A w \in Workers : worker[w].owner =>
          /\ worker[w].client = 0 /\ worker[w].pc \in Owning /\ ~Running
          /\ \A v \in Workers \ {w} : ~worker[v].owner /\ (worker[w].pc # "drain" => ~conn[v].up)
    /\ \A w \in Workers : worker[w].pc \in {"drain", "ack"} => worker[w].owner
    /\ acked => ~Running /\ \A w \in Workers :
          conn[w].up => worker[w].owner /\ worker[w].pc \notin {"drain", "ack"}
Ends ==
    /\ service.state = "exited" => service.active = 0
    /\ accept = "done" => service.state = "exited"
    /\ host = "freed" => accept = "done" /\ \A w \in Workers : ~InUse(w)
    /\ host # "terminated"
    /\ coordinator.state = "stopping" => coordinator.clients = {} /\ ~service.permanent
IInv == TypeOK /\ Books /\ (\A w \in Workers : Peer(w)) /\ Silence /\ Ends

----------------------------------------------------------------------------
(* What each action does to the worker it is about.                        *)

\* Only w's slot changes.
Alone(w) ==
    /\ worker' \in [Workers -> Worker]
    /\ \A v \in Workers \ {w} : worker'[v] = worker[v]
\* w's flags stay as they are.
Core(w) ==
    LET r == worker[w]
        s == worker'[w]
    IN /\ s.client = r.client /\ s.admitted = r.admitted /\ s.committed = r.committed
       /\ s.opened = r.opened /\ s.cancelled = r.cancelled
       /\ s.owner = r.owner /\ s.done = r.done
\* w's call stays as it is.
CallKept(w) ==
    LET r == worker[w]
        s == worker'[w]
    IN s.app = r.app /\ s.appDone = r.appDone /\ s.token = r.token

\* One slot is written.
LEMMA PutAlone ==
    ASSUME worker \in [Workers -> Worker], NEW w \in Workers, NEW r \in Worker,
           worker' = [worker EXCEPT ![w] = r]
    PROVE  Alone(w) /\ worker'[w] = r
BY DEF Alone

\* A joined thread leaves every other field alone.
LEMMA JoinedFields ==
    ASSUME NEW r \in Worker
    PROVE  /\ Joined(r) \in Worker
           /\ Joined(r).client = r.client /\ Joined(r).admitted = r.admitted
           /\ Joined(r).committed = r.committed /\ Joined(r).opened = r.opened
           /\ Joined(r).cancelled = r.cancelled /\ Joined(r).owner = r.owner
           /\ Joined(r).done = r.done /\ Joined(r).pc = r.pc /\ Joined(r).after = r.after
           /\ Joined(r).app = "none" /\ Joined(r).appDone = FALSE /\ Joined(r).token = 0
<1> DEFINE half == [r EXCEPT !.app = "none", !.appDone = FALSE]
<1>1. Joined(r) = [half EXCEPT !.token = 0, !.hit = FALSE]
  BY DEF Joined
<1>2. half \in Worker
  BY DEF Worker
<1>3. half.client = r.client
  BY DEF Worker
<1>4. /\ half.admitted = r.admitted /\ half.committed = r.committed
      /\ half.opened = r.opened /\ half.cancelled = r.cancelled
      /\ half.owner = r.owner /\ half.done = r.done /\ half.pc = r.pc /\ half.after = r.after
      /\ half.app = "none" /\ half.appDone = FALSE
  BY DEF Worker
<1> HIDE DEF half
<1> DEFINE j == [half EXCEPT !.token = 0, !.hit = FALSE]
<1>5. j \in Worker
  BY <1>2 DEF Worker, Token
<1>6. j.client = half.client
  BY <1>2 DEF Worker
<1>7. /\ j.admitted = half.admitted /\ j.committed = half.committed
      /\ j.opened = half.opened /\ j.cancelled = half.cancelled
      /\ j.owner = half.owner /\ j.done = half.done /\ j.pc = half.pc /\ j.after = half.after
      /\ j.app = half.app /\ j.appDone = half.appDone /\ j.token = 0
  BY <1>2 DEF Worker
<1> HIDE DEF j
<1>8. QED
  BY <1>1, <1>3, <1>4, <1>5, <1>6, <1>7 DEF j

\* The worker goes to pc. (Each lemma on a turn: what the action sets and what it keeps.)
LEMMA GotoTurn ==
    ASSUME worker \in [Workers -> Worker], NEW w \in Workers, NEW pc \in Place, Goto(w, pc)
    PROVE  /\ Alone(w) /\ Core(w) /\ CallKept(w)
           /\ worker'[w].pc = pc /\ worker'[w].after = worker[w].after
<1> DEFINE r == worker[w]
           s == [r EXCEPT !.pc = pc]
<1>1. r \in Worker
  OBVIOUS
<1>2. worker' = [worker EXCEPT ![w] = s]
  BY DEF Goto
<1>3. s \in Worker
  <2> HIDE DEF r
  <2>1. QED
    BY <1>1 DEF Worker, Place
<1>4.  /\ s.pc = pc /\ s.after = r.after /\ s.client = r.client /\ s.admitted = r.admitted
       /\ s.committed = r.committed /\ s.owner = r.owner /\ s.opened = r.opened
       /\ s.cancelled = r.cancelled /\ s.done = r.done /\ s.app = r.app /\ s.appDone = r.appDone
       /\ s.token = r.token
  <2> HIDE DEF r
  <2>1. QED
    BY <1>1 DEF Worker, Place
<1> HIDE DEF s
<1>5. QED
  BY <1>2, <1>3, <1>4, PutAlone DEF Core, CallKept

\* It takes its leave.
LEMMA DisconnectTurn ==
    ASSUME worker \in [Workers -> Worker], NEW w \in Workers, NEW after \in {"reject", "loop",
           "bye", "join"}, ToDisconnect(w, after)
    PROVE  /\ Alone(w) /\ Core(w) /\ CallKept(w)
           /\ worker'[w].pc = "disconnect" /\ worker'[w].after = after
<1> DEFINE r == worker[w]
           s == [r EXCEPT !.pc = "disconnect", !.after = after, !.disconnecting = TRUE]
<1>1. r \in Worker
  OBVIOUS
<1>2. worker' = [worker EXCEPT ![w] = s]
  BY DEF ToDisconnect
<1>3. s \in Worker
  <2> HIDE DEF r
  <2>1. QED
    BY <1>1 DEF Worker, Place
<1>4.  /\ s.pc = "disconnect" /\ s.after = after /\ s.client = r.client /\ s.admitted = r.admitted
       /\ s.committed = r.committed /\ s.owner = r.owner /\ s.opened = r.opened
       /\ s.cancelled = r.cancelled /\ s.done = r.done /\ s.app = r.app /\ s.appDone = r.appDone
       /\ s.token = r.token
  <2> HIDE DEF r
  <2>1. QED
    BY <1>1 DEF Worker, Place
<1> HIDE DEF s
<1>5. QED
  BY <1>2, <1>3, <1>4, PutAlone DEF Core, CallKept

\* It takes the admission back.
LEMMA UndoTurn ==
    ASSUME worker \in [Workers -> Worker], NEW w \in Workers, Undo(w)
    PROVE  /\ Alone(w) /\ Core(w) /\ CallKept(w)
           /\ worker'[w].pc = "disconnect" /\ worker'[w].after = "reject"
<1> DEFINE r == worker[w]
           s == [r EXCEPT !.pc = "disconnect", !.after = "reject", !.final = TRUE,
                       !.disconnecting = TRUE]
<1>1. r \in Worker
  OBVIOUS
<1>2. worker' = [worker EXCEPT ![w] = s]
  BY DEF Undo
<1>3. s \in Worker
  <2> HIDE DEF r
  <2>1. QED
    BY <1>1 DEF Worker, Place
<1>4.  /\ s.pc = "disconnect" /\ s.after = "reject" /\ s.client = r.client
       /\ s.admitted = r.admitted /\ s.committed = r.committed /\ s.owner = r.owner
       /\ s.opened = r.opened /\ s.cancelled = r.cancelled /\ s.done = r.done /\ s.app = r.app
       /\ s.appDone = r.appDone /\ s.token = r.token
  <2> HIDE DEF r
  <2>1. QED
    BY <1>1 DEF Worker, Place
<1> HIDE DEF s
<1>5. QED
  BY <1>2, <1>3, <1>4, PutAlone DEF Core, CallKept

\* It owns an accepted stop.
LEMMA VerdictTurn ==
    ASSUME worker \in [Workers -> Worker], NEW w \in Workers, Verdict(w), Accepts(w)
    PROVE  /\ Alone(w) /\ CallKept(w)
           /\ worker'[w].pc = "drain" /\ worker'[w].owner = TRUE
           /\ worker'[w].client = worker[w].client /\ worker'[w].admitted = worker[w].admitted
           /\ worker'[w].committed = worker[w].committed /\ worker'[w].opened = worker[w].opened
           /\ worker'[w].cancelled = worker[w].cancelled /\ worker'[w].done = worker[w].done
           /\ worker'[w].after = worker[w].after
<1> DEFINE r == worker[w]
           s == [r EXCEPT !.pc = "drain", !.final = TRUE, !.owner = TRUE]
<1>1. r \in Worker
  OBVIOUS
<1>2. worker' = [worker EXCEPT ![w] = s]
  BY DEF Verdict
<1>3. s \in Worker
  <2> HIDE DEF r
  <2>1. QED
    BY <1>1 DEF Worker, Place
<1>4.  /\ s.pc = "drain" /\ s.owner = TRUE /\ s.after = r.after /\ s.client = r.client
       /\ s.admitted = r.admitted /\ s.committed = r.committed /\ s.opened = r.opened
       /\ s.cancelled = r.cancelled /\ s.done = r.done /\ s.app = r.app /\ s.appDone = r.appDone
       /\ s.token = r.token
  <2> HIDE DEF r
  <2>1. QED
    BY <1>1 DEF Worker, Place
<1> HIDE DEF s
<1>5. QED
  BY <1>2, <1>3, <1>4, PutAlone DEF Core, CallKept

\* Its client is admitted.
LEMMA AdmitTurn ==
    ASSUME worker \in [Workers -> Worker], NEW w \in Workers,
           coordinator.last + 1 \in ClientId, Admit(w), Running,
           coordinator.state = "running"
    PROVE  /\ Alone(w) /\ CallKept(w)
           /\ worker'[w].pc = "open" /\ worker'[w].client = coordinator.last + 1
           /\ worker'[w].admitted = TRUE /\ worker'[w].committed = FALSE
           /\ worker'[w].opened = worker[w].opened /\ worker'[w].cancelled = worker[w].cancelled
           /\ worker'[w].owner = worker[w].owner /\ worker'[w].done = worker[w].done
           /\ worker'[w].after = worker[w].after
<1> DEFINE r == worker[w]
           s == [r EXCEPT !.pc = "open", !.client = coordinator.last + 1, !.admitted = TRUE,
                       !.committed = FALSE]
<1>1. r \in Worker
  OBVIOUS
<1>2. worker' = [worker EXCEPT ![w] = s]
  BY DEF Admit
<1>3. s \in Worker
  <2> HIDE DEF r
  <2>1. QED
    BY <1>1 DEF Worker, Place
<1>4.  /\ s.pc = "open" /\ s.client = coordinator.last + 1 /\ s.admitted = TRUE
       /\ s.committed = FALSE /\ s.after = r.after /\ s.owner = r.owner /\ s.opened = r.opened
       /\ s.cancelled = r.cancelled /\ s.done = r.done /\ s.app = r.app /\ s.appDone = r.appDone
       /\ s.token = r.token
  <2> HIDE DEF r
  <2>1. QED
    BY <1>1 DEF Worker, Place
<1> HIDE DEF s
<1>5. QED
  BY <1>2, <1>3, <1>4, PutAlone DEF Core, CallKept

\* Its client's session is open.
LEMMA OpenTurn ==
    ASSUME worker \in [Workers -> Worker], NEW w \in Workers, worker[w].pc = "open",
           worker' = [worker EXCEPT ![w].pc = "commit", ![w].opened = TRUE]
    PROVE  /\ Alone(w) /\ CallKept(w)
           /\ worker'[w].pc = "commit" /\ worker'[w].opened = TRUE
           /\ worker'[w].client = worker[w].client /\ worker'[w].admitted = worker[w].admitted
           /\ worker'[w].committed = worker[w].committed
           /\ worker'[w].cancelled = worker[w].cancelled /\ worker'[w].owner = worker[w].owner
           /\ worker'[w].done = worker[w].done /\ worker'[w].after = worker[w].after
<1> DEFINE r == worker[w]
           s == [r EXCEPT !.pc = "commit", !.opened = TRUE]
<1>1. r \in Worker
  OBVIOUS
<1>2. worker' = [worker EXCEPT ![w] = s]
  BY DEF Open
<1>3. s \in Worker
  <2> HIDE DEF r
  <2>1. QED
    BY <1>1 DEF Worker, Place
<1>4.  /\ s.pc = "commit" /\ s.opened = TRUE /\ s.after = r.after /\ s.client = r.client
       /\ s.admitted = r.admitted /\ s.committed = r.committed /\ s.owner = r.owner
       /\ s.cancelled = r.cancelled /\ s.done = r.done /\ s.app = r.app /\ s.appDone = r.appDone
       /\ s.token = r.token
  <2> HIDE DEF r
  <2>1. QED
    BY <1>1 DEF Worker, Place
<1> HIDE DEF s
<1>5. QED
  BY <1>2, <1>3, <1>4, PutAlone DEF Core, CallKept

\* Its client is committed.
LEMMA CommitTurn ==
    ASSUME worker \in [Workers -> Worker], NEW w \in Workers, Commit(w), Committable(w)
    PROVE  /\ Alone(w) /\ CallKept(w)
           /\ worker'[w].pc = "welcome" /\ worker'[w].committed = TRUE
           /\ worker'[w].client = worker[w].client /\ worker'[w].admitted = worker[w].admitted
           /\ worker'[w].opened = worker[w].opened /\ worker'[w].cancelled = worker[w].cancelled
           /\ worker'[w].owner = worker[w].owner /\ worker'[w].done = worker[w].done
           /\ worker'[w].after = worker[w].after
<1> DEFINE r == worker[w]
           s == [r EXCEPT !.pc = "welcome", !.committed = TRUE]
<1>1. r \in Worker
  OBVIOUS
<1>2. worker' = [worker EXCEPT ![w] = s]
  BY DEF Commit
<1>3. s \in Worker
  <2> HIDE DEF r
  <2>1. QED
    BY <1>1 DEF Worker, Place
<1>4.  /\ s.pc = "welcome" /\ s.committed = TRUE /\ s.after = r.after /\ s.client = r.client
       /\ s.admitted = r.admitted /\ s.owner = r.owner /\ s.opened = r.opened
       /\ s.cancelled = r.cancelled /\ s.done = r.done /\ s.app = r.app /\ s.appDone = r.appDone
       /\ s.token = r.token
  <2> HIDE DEF r
  <2>1. QED
    BY <1>1 DEF Worker, Place
<1> HIDE DEF s
<1>5. QED
  BY <1>2, <1>3, <1>4, PutAlone DEF Core, CallKept

\* It has told the thread to cancel.
LEMMA CancelTurn ==
    ASSUME worker \in [Workers -> Worker], NEW w \in Workers, HandleCancel(w)
    PROVE  /\ Alone(w) /\ Core(w) /\ CallKept(w)
           /\ worker'[w].pc = "loop" /\ worker'[w].after = worker[w].after
<1> DEFINE r == worker[w]
           s == [r EXCEPT !.pc = "loop",
                       !.hit = @ \/ (/\ r.app # "none" /\ ~r.appDone
                                   /\ r.token = Head(conn[w].in).token)]
<1>1. r \in Worker
  OBVIOUS
<1>2. worker' = [worker EXCEPT ![w] = s]
  BY DEF HandleCancel
<1>3. s \in Worker
  <2> HIDE DEF r
  <2>1. QED
    BY <1>1 DEF Worker, Place
<1>4.  /\ s.pc = "loop" /\ s.after = r.after /\ s.client = r.client /\ s.admitted = r.admitted
       /\ s.committed = r.committed /\ s.owner = r.owner /\ s.opened = r.opened
       /\ s.cancelled = r.cancelled /\ s.done = r.done /\ s.app = r.app /\ s.appDone = r.appDone
       /\ s.token = r.token
  <2> HIDE DEF r
  <2>1. QED
    BY <1>1 DEF Worker, Place
<1> HIDE DEF s
<1>5. QED
  BY <1>2, <1>3, <1>4, PutAlone DEF Core, CallKept

\* It takes its leave with a word to say.
LEMMA ByeTurn ==
    ASSUME worker \in [Workers -> Worker], NEW w \in Workers, HandleDisconnect(w)
    PROVE  /\ Alone(w) /\ Core(w) /\ CallKept(w)
           /\ worker'[w].pc = "disconnect" /\ worker'[w].after = "bye"
<1> DEFINE r == worker[w]
           s == [r EXCEPT !.pc = "disconnect", !.after = "bye", !.final = TRUE,
                       !.disconnecting = TRUE]
<1>1. r \in Worker
  OBVIOUS
<1>2. worker' = [worker EXCEPT ![w] = s]
  BY DEF HandleDisconnect
<1>3. s \in Worker
  <2> HIDE DEF r
  <2>1. QED
    BY <1>1 DEF Worker, Place
<1>4.  /\ s.pc = "disconnect" /\ s.after = "bye" /\ s.client = r.client /\ s.admitted = r.admitted
       /\ s.committed = r.committed /\ s.owner = r.owner /\ s.opened = r.opened
       /\ s.cancelled = r.cancelled /\ s.done = r.done /\ s.app = r.app /\ s.appDone = r.appDone
       /\ s.token = r.token
  <2> HIDE DEF r
  <2>1. QED
    BY <1>1 DEF Worker, Place
<1> HIDE DEF s
<1>5. QED
  BY <1>2, <1>3, <1>4, PutAlone DEF Core, CallKept

\* The application returns.
LEMMA ReturnsTurn ==
    ASSUME worker \in [Workers -> Worker], NEW w \in Workers, Returns(w)
    PROVE  /\ Alone(w) /\ Core(w)
           /\ worker'[w].app = "sending" /\ worker'[w].appDone = TRUE
           /\ worker'[w].token = worker[w].token /\ worker'[w].pc = worker[w].pc
           /\ worker'[w].after = worker[w].after
<1> DEFINE r == worker[w]
           s == [r EXCEPT !.app = "sending", !.appDone = TRUE]
<1>1. r \in Worker
  OBVIOUS
<1>2. worker' = [worker EXCEPT ![w] = s]
  BY DEF Returns
<1>3. s \in Worker
  <2> HIDE DEF r
  <2>1. QED
    BY <1>1 DEF Worker, Place
<1>4.  /\ s.app = "sending" /\ s.appDone = TRUE /\ s.pc = r.pc /\ s.after = r.after
       /\ s.client = r.client /\ s.admitted = r.admitted /\ s.committed = r.committed
       /\ s.owner = r.owner /\ s.opened = r.opened /\ s.cancelled = r.cancelled /\ s.done = r.done
       /\ s.token = r.token
  <2> HIDE DEF r
  <2>1. QED
    BY <1>1 DEF Worker, Place
<1> HIDE DEF s
<1>5. QED
  BY <1>2, <1>3, <1>4, PutAlone DEF Core, CallKept

\* The thread has sent the answer.
LEMMA SendTurn ==
    ASSUME worker \in [Workers -> Worker], NEW w \in Workers, SendAnswer(w)
    PROVE  /\ Alone(w) /\ Core(w)
           /\ worker'[w].app = "sent" /\ worker'[w].appDone = worker[w].appDone
           /\ worker'[w].token = worker[w].token /\ worker'[w].pc = worker[w].pc
           /\ worker'[w].after = worker[w].after
<1> DEFINE r == worker[w]
           s == [r EXCEPT !.app = "sent"]
<1>1. r \in Worker
  OBVIOUS
<1>2. worker' = [worker EXCEPT ![w] = s]
  BY DEF SendAnswer
<1>3. s \in Worker
  <2> HIDE DEF r
  <2>1. QED
    BY <1>1 DEF Worker, Place
<1>4.  /\ s.app = "sent" /\ s.pc = r.pc /\ s.after = r.after /\ s.client = r.client
       /\ s.admitted = r.admitted /\ s.committed = r.committed /\ s.owner = r.owner
       /\ s.opened = r.opened /\ s.cancelled = r.cancelled /\ s.done = r.done
       /\ s.appDone = r.appDone /\ s.token = r.token
  <2> HIDE DEF r
  <2>1. QED
    BY <1>1 DEF Worker, Place
<1> HIDE DEF s
<1>5. QED
  BY <1>2, <1>3, <1>4, PutAlone DEF Core, CallKept

\* The thread ends.
LEMMA EndsTurn ==
    ASSUME worker \in [Workers -> Worker], NEW w \in Workers, ThreadEnds(w)
    PROVE  /\ Alone(w) /\ Core(w)
           /\ worker'[w].app = "returned" /\ worker'[w].appDone = worker[w].appDone
           /\ worker'[w].token = worker[w].token /\ worker'[w].pc = worker[w].pc
           /\ worker'[w].after = worker[w].after
<1> DEFINE r == worker[w]
           s == [r EXCEPT !.app = "returned"]
<1>1. r \in Worker
  OBVIOUS
<1>2. worker' = [worker EXCEPT ![w] = s]
  BY DEF ThreadEnds
<1>3. s \in Worker
  <2> HIDE DEF r
  <2>1. QED
    BY <1>1 DEF Worker, Place
<1>4.  /\ s.app = "returned" /\ s.pc = r.pc /\ s.after = r.after /\ s.client = r.client
       /\ s.admitted = r.admitted /\ s.committed = r.committed /\ s.owner = r.owner
       /\ s.opened = r.opened /\ s.cancelled = r.cancelled /\ s.done = r.done
       /\ s.appDone = r.appDone /\ s.token = r.token
  <2> HIDE DEF r
  <2>1. QED
    BY <1>1 DEF Worker, Place
<1> HIDE DEF s
<1>5. QED
  BY <1>2, <1>3, <1>4, PutAlone DEF Core, CallKept

\* It has left the service.
LEMMA LeaveTurn ==
    ASSUME worker \in [Workers -> Worker], NEW w \in Workers, Disconnect(w)
    PROVE  /\ Alone(w) /\ CallKept(w)
           /\ worker'[w].pc = IF worker[w].admitted THEN "release" ELSE worker[w].after
           /\ worker'[w].admitted = FALSE /\ worker'[w].committed = FALSE
           /\ worker'[w].client = worker[w].client /\ worker'[w].opened = worker[w].opened
           /\ worker'[w].cancelled = worker[w].cancelled /\ worker'[w].owner = worker[w].owner
           /\ worker'[w].done = worker[w].done /\ worker'[w].after = worker[w].after
<1> DEFINE r == worker[w]
           p == IF r.admitted THEN "release" ELSE r.after
           s == [r EXCEPT !.admitted = FALSE, !.committed = FALSE, !.pc = p]
<1>1. r \in Worker
  OBVIOUS
<1>2. worker' = [worker EXCEPT ![w] = s]
  BY DEF Disconnect
<1>3. p \in Place
  BY <1>1 DEF Worker, Place
<1>4. s \in Worker
  <2> HIDE DEF r, p
  <2>1. QED
    BY <1>1, <1>3 DEF Worker, Place
<1>5.  /\ s.pc = p /\ s.admitted = FALSE
       /\ s.committed = FALSE /\ s.after = r.after /\ s.client = r.client /\ s.owner = r.owner
       /\ s.opened = r.opened /\ s.cancelled = r.cancelled /\ s.done = r.done /\ s.app = r.app
       /\ s.appDone = r.appDone /\ s.token = r.token
  <2> HIDE DEF r, p
  <2>1. QED
    BY <1>1, <1>3 DEF Worker, Place
<1> HIDE DEF s
<1>6. QED
  BY <1>2, <1>4, <1>5, PutAlone DEF Core, CallKept

\* It has told the application.
LEMMA ToldTurn ==
    ASSUME worker \in [Workers -> Worker], NEW w \in Workers, CancelSession(w)
    PROVE  /\ Alone(w) /\ CallKept(w)
           /\ worker'[w].pc = worker[w].after
           /\ worker'[w].cancelled = (worker[w].cancelled \/ worker[w].opened)
           /\ worker'[w].client = worker[w].client /\ worker'[w].admitted = worker[w].admitted
           /\ worker'[w].committed = worker[w].committed /\ worker'[w].opened = worker[w].opened
           /\ worker'[w].owner = worker[w].owner /\ worker'[w].done = worker[w].done
           /\ worker'[w].after = worker[w].after
<1> DEFINE r == worker[w]
           h == (r.cancelled \/ r.opened)
           s == [r EXCEPT !.pc = r.after, !.cancelled = h]
<1>1. r \in Worker
  OBVIOUS
<1>2. worker' = [worker EXCEPT ![w] = s]
  BY DEF CancelSession
<1>3. h \in BOOLEAN
  BY <1>1 DEF Worker, Place
<1>4. s \in Worker
  <2> HIDE DEF r, h
  <2>1. QED
    BY <1>1, <1>3 DEF Worker, Place
<1>5.  /\ s.pc = r.after /\ s.cancelled = h /\ s.after = r.after
       /\ s.client = r.client /\ s.admitted = r.admitted /\ s.committed = r.committed
       /\ s.owner = r.owner /\ s.opened = r.opened /\ s.done = r.done /\ s.app = r.app
       /\ s.appDone = r.appDone /\ s.token = r.token
  <2> HIDE DEF r, h
  <2>1. QED
    BY <1>1, <1>3 DEF Worker, Place
<1> HIDE DEF s
<1>6. QED
  BY <1>2, <1>4, <1>5, PutAlone DEF Core, CallKept

\* It has had its last word.
LEMMA LastTurn ==
    ASSUME worker \in [Workers -> Worker], NEW w \in Workers, LastWord(w)
    PROVE  /\ Alone(w) /\ Core(w) /\ CallKept(w)
           /\ worker'[w].pc = "disconnect" /\ worker'[w].after = "join"
<1> DEFINE r == worker[w]
           s == [r EXCEPT !.pc = "disconnect", !.after = "join", !.final = FALSE]
<1>1. r \in Worker
  OBVIOUS
<1>2. worker' = [worker EXCEPT ![w] = s]
  BY DEF LastWord
<1>3. s \in Worker
  <2> HIDE DEF r
  <2>1. QED
    BY <1>1 DEF Worker, Place
<1>4.  /\ s.pc = "disconnect" /\ s.after = "join" /\ s.client = r.client
       /\ s.admitted = r.admitted /\ s.committed = r.committed /\ s.owner = r.owner
       /\ s.opened = r.opened /\ s.cancelled = r.cancelled /\ s.done = r.done /\ s.app = r.app
       /\ s.appDone = r.appDone /\ s.token = r.token
  <2> HIDE DEF r
  <2>1. QED
    BY <1>1 DEF Worker, Place
<1> HIDE DEF s
<1>5. QED
  BY <1>2, <1>3, <1>4, PutAlone DEF Core, CallKept

\* It has closed the session.
LEMMA CloseTurn ==
    ASSUME worker \in [Workers -> Worker], NEW w \in Workers, CloseSession(w)
    PROVE  /\ Alone(w)
           /\ worker'[w].pc = "account" /\ worker'[w].opened = FALSE /\ worker'[w].app = "none"
           /\ worker'[w].appDone = FALSE /\ worker'[w].token = 0
           /\ worker'[w].client = worker[w].client /\ worker'[w].admitted = worker[w].admitted
           /\ worker'[w].committed = worker[w].committed
           /\ worker'[w].cancelled = worker[w].cancelled /\ worker'[w].owner = worker[w].owner
           /\ worker'[w].done = worker[w].done /\ worker'[w].after = worker[w].after
<1> DEFINE r == worker[w]
           j == Joined(r)
           s == [j EXCEPT !.pc = "account", !.opened = FALSE]
<1>1. r \in Worker
  OBVIOUS
<1>2. worker' = [worker EXCEPT ![w] = s]
  BY DEF CloseSession
<1>3. j \in Worker /\ j.client = r.client /\ j.admitted = r.admitted /\ j.committed = r.committed /\ j.opened = r.opened
             /\ j.cancelled = r.cancelled /\ j.owner = r.owner /\ j.done = r.done /\ j.app = "none"
             /\ j.appDone = FALSE /\ j.token = 0 /\ j.pc = r.pc /\ j.after = r.after
  BY <1>1, JoinedFields
<1>4. s \in Worker
  <2> HIDE DEF r, j
  <2>1. QED
    BY ONLY <1>3 DEF Worker, Place
<1>5.  /\ s.pc = "account" /\ s.opened = FALSE /\ s.app = "none" /\ s.appDone = FALSE
       /\ s.token = 0 /\ s.after = r.after /\ s.client = r.client /\ s.admitted = r.admitted
       /\ s.committed = r.committed /\ s.owner = r.owner /\ s.cancelled = r.cancelled
       /\ s.done = r.done
  <2> HIDE DEF r, j
  <2>1. QED
    BY <1>1, <1>3 DEF Worker, Place
<1> HIDE DEF s
<1>6. QED
  BY <1>2, <1>3, <1>4, <1>5, PutAlone DEF Core, CallKept

\* It is counted out.
LEMMA AccountTurn ==
    ASSUME worker \in [Workers -> Worker], NEW w \in Workers, Account(w)
    PROVE  /\ Alone(w) /\ CallKept(w)
           /\ worker'[w].pc = IF worker[w].owner THEN "tail" ELSE "returned"
           /\ worker'[w].done = TRUE /\ worker'[w].client = worker[w].client
           /\ worker'[w].admitted = worker[w].admitted
           /\ worker'[w].committed = worker[w].committed /\ worker'[w].opened = worker[w].opened
           /\ worker'[w].cancelled = worker[w].cancelled /\ worker'[w].owner = worker[w].owner
           /\ worker'[w].after = worker[w].after
<1> DEFINE r == worker[w]
           p == IF r.owner THEN "tail" ELSE "returned"
           s == [r EXCEPT !.done = TRUE, !.pc = p]
<1>1. r \in Worker
  OBVIOUS
<1>2. worker' = [worker EXCEPT ![w] = s]
  BY DEF Account
<1>3. p \in Place
  BY <1>1 DEF Worker, Place
<1>4. s \in Worker
  <2> HIDE DEF r, p
  <2>1. QED
    BY <1>1, <1>3 DEF Worker, Place
<1>5.  /\ s.pc = p /\ s.done = TRUE /\ s.after = r.after
       /\ s.client = r.client /\ s.admitted = r.admitted /\ s.committed = r.committed
       /\ s.owner = r.owner /\ s.opened = r.opened /\ s.cancelled = r.cancelled /\ s.app = r.app
       /\ s.appDone = r.appDone /\ s.token = r.token
  <2> HIDE DEF r, p
  <2>1. QED
    BY <1>1, <1>3 DEF Worker, Place
<1> HIDE DEF s
<1>6. QED
  BY <1>2, <1>4, <1>5, PutAlone DEF Core, CallKept

\* It has opened the gate.
LEMMA GateTurn ==
    ASSUME worker \in [Workers -> Worker], NEW w \in Workers, ReleaseGate(w)
    PROVE  /\ Alone(w) /\ Core(w) /\ CallKept(w)
           /\ worker'[w].pc = "returned" /\ worker'[w].after = worker[w].after
<1> DEFINE r == worker[w]
           s == [r EXCEPT !.pc = "returned", !.final = FALSE]
<1>1. r \in Worker
  OBVIOUS
<1>2. worker' = [worker EXCEPT ![w] = s]
  BY DEF ReleaseGate
<1>3. s \in Worker
  <2> HIDE DEF r
  <2>1. QED
    BY <1>1 DEF Worker, Place
<1>4.  /\ s.pc = "returned" /\ s.after = r.after /\ s.client = r.client /\ s.admitted = r.admitted
       /\ s.committed = r.committed /\ s.owner = r.owner /\ s.opened = r.opened
       /\ s.cancelled = r.cancelled /\ s.done = r.done /\ s.app = r.app /\ s.appDone = r.appDone
       /\ s.token = r.token
  <2> HIDE DEF r
  <2>1. QED
    BY <1>1 DEF Worker, Place
<1> HIDE DEF s
<1>5. QED
  BY <1>2, <1>3, <1>4, PutAlone DEF Core, CallKept

\* It has a thread at a request.
LEMMA CallTurn ==
    ASSUME worker \in [Workers -> Worker], NEW w \in Workers, NEW t \in Token,
           HandleApplication(w), Reusable(w),
           t = Head(conn[w].in).token
    PROVE  /\ Alone(w) /\ Core(w)
           /\ worker'[w].pc = "loop" /\ worker'[w].app = "calling" /\ worker'[w].token = t
           /\ worker'[w].appDone = FALSE /\ worker'[w].after = worker[w].after
<1> DEFINE r == worker[w]
           j == Joined(r)
           s == [j EXCEPT !.app = "calling", !.token = t, !.last = t, !.pc = "loop"]
<1>1. r \in Worker
  OBVIOUS
<1>2. worker' = [worker EXCEPT ![w] = s]
  BY DEF HandleApplication
<1>3. j \in Worker /\ j.client = r.client /\ j.admitted = r.admitted /\ j.committed = r.committed /\ j.opened = r.opened
             /\ j.cancelled = r.cancelled /\ j.owner = r.owner /\ j.done = r.done /\ j.app = "none"
             /\ j.appDone = FALSE /\ j.token = 0 /\ j.pc = r.pc /\ j.after = r.after
  BY <1>1, JoinedFields
<1>4. s \in Worker
  <2> HIDE DEF r, j
  <2> DEFINE a == [j EXCEPT !.app = "calling"]
             b == [a EXCEPT !.token = t]
             d == [b EXCEPT !.last = t]
  <2>1. a \in Worker
    BY ONLY <1>3 DEF Worker
  <2>2. b \in Worker
    <3> HIDE DEF a
    <3>1. QED
      BY <2>1 DEF Worker
  <2>3. d \in Worker
    <3> HIDE DEF b
    <3>1. QED
      BY <2>2 DEF Worker
  <2>4. [d EXCEPT !.pc = "loop"] \in Worker
    <3> HIDE DEF d
    <3>1. QED
      BY <2>3 DEF Worker, Place
  <2>5. s = [d EXCEPT !.pc = "loop"]
    OBVIOUS
  <2>6. QED
    BY <2>4, <2>5
<1>5.  /\ s.pc = "loop" /\ s.app = "calling" /\ s.token = t /\ s.appDone = FALSE
       /\ s.after = r.after /\ s.client = r.client /\ s.admitted = r.admitted
       /\ s.committed = r.committed /\ s.owner = r.owner /\ s.opened = r.opened
       /\ s.cancelled = r.cancelled /\ s.done = r.done
  <2> HIDE DEF r, j
  <2>1. QED
    BY <1>1, <1>3 DEF Worker, Place
<1> HIDE DEF s
<1>6. QED
  BY <1>2, <1>3, <1>4, <1>5, PutAlone DEF Core, CallKept

\* Whatever it was told, a slot stays a slot.
LEMMA ToldType ==
    ASSUME NEW j \in Worker, NEW t \in Token, NEW p \in Place, NEW d \in BOOLEAN
    PROVE  [j EXCEPT !.last = t, !.pc = p, !.after = "join", !.disconnecting = d] \in Worker
BY DEF Worker

\* It has no thread for a request.
LEMMA FailTurn ==
    ASSUME worker \in [Workers -> Worker], NEW w \in Workers, NEW t \in Token,
           ApplicationFails(w), t = Head(conn[w].in).token
    PROVE  /\ Alone(w) /\ Core(w)
           /\ worker'[w].pc = IF CanSend(w) THEN "loop" ELSE "disconnect"
           /\ worker'[w].after = "join" /\ worker'[w].app = "none" /\ worker'[w].token = 0
           /\ worker'[w].appDone = FALSE
<1> DEFINE r == worker[w]
           j == Joined(r)
           p == IF CanSend(w) THEN "loop" ELSE "disconnect"
           d == (j.disconnecting \/ ~CanSend(w))
           s == [j EXCEPT !.last = t, !.pc = p, !.after = "join", !.disconnecting = d]
<1>1. r \in Worker
  OBVIOUS
<1>2. worker' = [worker EXCEPT ![w] = s]
  BY DEF ApplicationFails, Told
<1>3. j \in Worker /\ j.client = r.client /\ j.admitted = r.admitted /\ j.committed = r.committed /\ j.opened = r.opened
             /\ j.cancelled = r.cancelled /\ j.owner = r.owner /\ j.done = r.done /\ j.app = "none"
             /\ j.appDone = FALSE /\ j.token = 0 /\ j.pc = r.pc /\ j.after = r.after
  BY <1>1, JoinedFields
<1>4. p \in Place
  BY <1>1 DEF Worker, Place
<1>5. d \in BOOLEAN
  BY <1>1 DEF Worker, Place
<1>6. s \in Worker
  <2> HIDE DEF r, j, p, d
  <2>1. QED
    BY <1>1, <1>3, <1>4, <1>5, ToldType
<1>7.  /\ s.pc = p /\ s.after = "join" /\ s.app = "none"
       /\ s.token = 0 /\ s.appDone = FALSE /\ s.client = r.client /\ s.admitted = r.admitted
       /\ s.committed = r.committed /\ s.owner = r.owner /\ s.opened = r.opened
       /\ s.cancelled = r.cancelled /\ s.done = r.done
  <2> HIDE DEF r, j, p, d
  <2>1. QED
    BY <1>1, <1>3, <1>4, <1>5 DEF Worker, Place
<1> HIDE DEF s
<1>8. QED
  BY <1>2, <1>3, <1>6, <1>7, PutAlone DEF Core, CallKept

----------------------------------------------------------------------------
(* What may happen to the connections.                                     *)

Straight ==
    {<<"first", "admit">>, <<"first", "verdict">>, <<"drain", "ack">>, <<"welcome", "loop">>,
     <<"loop", "receive">>, <<"receive", "loop">>, <<"tail", "returned">>}
\* Where a worker may go when nothing but its place changes.
Hop(w) ==
    LET r == worker[w]
        s == worker'[w]
    IN \/ s.pc = r.pc /\ s.after = r.after
       \/ <<r.pc, s.pc>> \in Straight
       \/ /\ r.pc \in {"first", "verdict", "ack", "admit", "welcome", "loop", "receive", "reject", "bye"}
          /\ s.pc = "disconnect" /\ s.after = "join"
       \/ r.pc \in {"open", "commit"} /\ s.pc = "disconnect" /\ s.after = "reject"
       \/ r.pc = "receive" /\ s.pc = "disconnect" /\ s.after \in {"loop", "bye"}

Steady == UNCHANGED <<coordinator, client, session, accept, host>>
ServiceKept ==
    /\ service' \in Service /\ service'.state = service.state
    /\ service'.active = service.active /\ service'.committed = service.committed
    /\ service'.permanent = service.permanent
BudgetKept == budget' \in Allowed /\ budget'.session = budget.session

\* What may happen to the wires: nothing opens, nothing comes up again.
Wires ==
    /\ conn' \in [Workers -> Conn]
    /\ \A v \in Workers : conn'[v].open = conn[v].open /\ (conn'[v].up => conn[v].up)
\* The head of v's queue may be taken, and other words than answers may be said.
Hears(v) ==
    \/ conn'[v].in = conn[v].in
    \/ conn[v].in # <<>> /\ conn'[v].in = Tail(conn[v].in)
Mute(v) == conn'[v].out = conn[v].out
Dully(v) ==
    \/ Mute(v)
    \/ /\ conn[v].up
       /\ \E m \in Reply : m.op \notin {"answer", "busy"} /\ conn'[v].out = Append(conn[v].out, m)
Quietly(w) ==
    /\ Hears(w) /\ Dully(w)
    /\ \A v \in Workers \ {w} : conn'[v].in = conn[v].in /\ Mute(v)

\* A word is appended to w's connection if that is up, and nothing else changes.
LEMMA SendIfUpEffect ==
    ASSUME conn \in [Workers -> Conn], NEW w \in Workers,
           NEW op \in {"accepted", "rejected", "answer", "busy", "bye", "ack", "refused"},
           NEW t \in Token, NEW c, c = SendIfUp(w, op, t)
    PROVE  /\ c \in [Workers -> Conn]
           /\ \A v \in Workers : /\ c[v].open = conn[v].open /\ c[v].up = conn[v].up
                                 /\ c[v].eof = conn[v].eof /\ c[v].in = conn[v].in
           /\ \A v \in Workers \ {w} : c[v].out = conn[v].out
           /\ \/ c[w].out = conn[w].out
              \/ conn[w].up /\ c[w].out = Append(conn[w].out, [op |-> op, token |-> t])
           /\ [op |-> op, token |-> t] \in Reply
<1> DEFINE m == [op |-> op, token |-> t]
<1>1. m \in Reply
  BY DEF Reply
<1>2. conn[w].out \in Seq(Reply) /\ Append(conn[w].out, m) \in Seq(Reply)
  BY <1>1 DEF Conn
<1>3. c = IF CanSend(w) THEN [conn EXCEPT ![w].out = Append(@, m)] ELSE conn
  BY DEF SendIfUp, Sent
<1> HIDE DEF m
<1>4. c \in [Workers -> Conn]
  BY <1>2, <1>3 DEF Conn
<1>5. /\ \A v \in Workers : /\ c[v].open = conn[v].open /\ c[v].up = conn[v].up
                            /\ c[v].eof = conn[v].eof /\ c[v].in = conn[v].in
      /\ \A v \in Workers \ {w} : c[v].out = conn[v].out
  BY <1>2, <1>3 DEF Conn
<1>6. \/ c[w].out = conn[w].out
      \/ conn[w].up /\ c[w].out = Append(conn[w].out, m)
  BY <1>2, <1>3 DEF Conn, CanSend
<1>7. QED
  BY <1>1, <1>4, <1>5, <1>6 DEF m

\* A word that is no answer is said.
LEMMA Says ==
    ASSUME conn \in [Workers -> Conn], NEW w \in Workers,
           NEW op \in {"accepted", "rejected", "bye", "ack", "refused"},
           conn' = SendIfUp(w, op, 0)
    PROVE  Wires /\ Quietly(w) /\ \A v \in Workers : conn'[v].up = conn[v].up
<1> DEFINE m == [op |-> op, token |-> 0]
<1>1. 0 \in Token
  BY DEF Token
<1>2. m.op \notin {"answer", "busy"}
  OBVIOUS
<1> HIDE DEF m
<1>3. /\ conn' \in [Workers -> Conn]
      /\ \A v \in Workers : /\ conn'[v].open = conn[v].open /\ conn'[v].up = conn[v].up
                            /\ conn'[v].eof = conn[v].eof /\ conn'[v].in = conn[v].in
      /\ \A v \in Workers \ {w} : conn'[v].out = conn[v].out
      /\ \/ conn'[w].out = conn[w].out
         \/ conn[w].up /\ conn'[w].out = Append(conn[w].out, m)
      /\ m \in Reply
  BY <1>1, SendIfUpEffect DEF m
<1>4. QED
  BY <1>2, <1>3 DEF Wires, Quietly, Hears, Dully, Mute

\* The head of w's queue is taken.
LEMMA Takes ==
    ASSUME conn \in [Workers -> Conn], NEW w \in Workers, conn[w].in # <<>>,
           conn' = [conn EXCEPT ![w].in = Tail(@)]
    PROVE  /\ Wires /\ Quietly(w) /\ \A v \in Workers : conn'[v].up = conn[v].up
           /\ Mute(w) /\ conn'[w].in = Tail(conn[w].in)
<1>1. conn[w].in \in Seq(Frame) /\ Tail(conn[w].in) \in Seq(Frame)
  BY DEF Conn
<1>2. conn' \in [Workers -> Conn]
  BY <1>1 DEF Conn
<1>3. /\ \A v \in Workers : /\ conn'[v].open = conn[v].open /\ conn'[v].up = conn[v].up
                            /\ conn'[v].eof = conn[v].eof /\ conn'[v].out = conn[v].out
      /\ \A v \in Workers \ {w} : conn'[v].in = conn[v].in
      /\ conn'[w].in = Tail(conn[w].in)
  BY <1>1 DEF Conn
<1>4. QED
  BY <1>2, <1>3 DEF Wires, Quietly, Hears, Dully, Mute

\* No connection changes.
LEMMA Still ==
    ASSUME conn \in [Workers -> Conn], NEW w \in Workers, conn' = conn
    PROVE  Wires /\ Quietly(w) /\ \A v \in Workers : conn'[v].up = conn[v].up
BY DEF Wires, Quietly, Hears, Dully, Mute

\* An interruption shuts connections and says nothing.
LEMMA Interrupts ==
    ASSUME conn \in [Workers -> Conn], NEW except, NEW activation \in BOOLEAN,
           conn' = Interrupted(except, activation)
    PROVE  /\ Wires
           /\ \A v \in Workers : Mute(v) /\ conn'[v].in = conn[v].in /\ conn'[v].eof = conn[v].eof
           /\ activation =>
                \A v \in Workers : v \notin except /\ conn[v].open => ~conn'[v].up
<1>1. CASE service.inflight /\ ~activation
  BY <1>1 DEF Interrupted, Wires, Mute
<1>2. CASE ~(service.inflight /\ ~activation)
  <2> DEFINE cut(v) == v \notin except /\ conn[v].open /\ ~Protected(v, activation)
  <2>1. conn' = [v \in Workers |-> IF cut(v) THEN [conn[v] EXCEPT !.up = FALSE] ELSE conn[v]]
    BY <1>2 DEF Interrupted
  <2>2. activation => \A v \in Workers : v \notin except /\ conn[v].open => cut(v)
    BY DEF Protected
  <2> HIDE DEF cut
  <2>3. \A v \in Workers :
           /\ conn'[v] \in Conn /\ conn'[v].open = conn[v].open /\ (conn'[v].up => conn[v].up)
           /\ conn'[v].in = conn[v].in /\ conn'[v].out = conn[v].out
           /\ conn'[v].eof = conn[v].eof /\ (cut(v) => ~conn'[v].up)
    BY <2>1 DEF Conn
  <2>4. QED
    BY <2>1, <2>2, <2>3 DEF Wires, Mute
<1>3. QED
  BY <1>1, <1>2

----------------------------------------------------------------------------
(* Steps that only move a worker on.                                       *)

\* The steps of w's worker that only move it on, with what they say and hear.
Plain(w) ==
    \/ FirstFrame(w) \/ NoFirstFrame(w) \/ (Verdict(w) /\ ~Accepts(w)) \/ Drain(w) \/ Ack(w)
    \/ Admit(w) /\ ~(Running /\ coordinator.state = "running")
    \/ Open(w) /\ Undo(w) /\ Fault /\ UNCHANGED session
    \/ Commit(w) /\ ~Committable(w)
    \/ Welcome(w) \/ Loop(w) \/ EndOfStream(w)
    \/ HandleCancel(w) \/ HandleCloseIntent(w) \/ HandleDisconnect(w)
    \/ LastWord(w) \/ ReleaseGate(w)

MoveEffect(w) ==
    /\ Alone(w) /\ Core(w) /\ Hop(w)
    /\ Steady /\ ServiceKept /\ BudgetKept /\ Wires
    /\ acked' \in BOOLEAN
    /\ acked' = acked \/ (worker[w].pc = "ack" /\ worker'[w].pc = "disconnect")
PlainEffect(w) ==
    /\ MoveEffect(w) /\ CallKept(w) /\ Quietly(w)
    /\ worker[w].pc = "drain" => \A v \in Workers \ {w} : conn[v].open => ~conn'[v].up
    /\ worker[w].pc \in Parting => Mute(w)
    /\ worker'[w].pc = "admit" /\ worker[w].pc # "admit" => client[w].kind = "session"
    /\ worker'[w].pc = "verdict" /\ worker[w].pc # "verdict" => client[w].kind # "session"

\* A fault spends no session.
LEMMA FaultKeeps ==
    ASSUME budget \in Allowed, Fault
    PROVE  BudgetKept
<1>1. budget.faults - 1 \in Nat
  BY DEF Fault, Allowed
<1>2. QED
  BY <1>1 DEF Fault, BudgetKept, Allowed

\* What the lemmas below need of TypeOK.
LEMMA Standing ==
    ASSUME TypeOK
    PROVE  /\ service \in Service /\ worker \in [Workers -> Worker] /\ conn \in [Workers -> Conn]
           /\ client \in [Workers -> Client] /\ budget \in Allowed /\ acked \in BOOLEAN
BY DEF TypeOK, Conn

\* A service that does not change is kept.
LEMMA SameService ==
    ASSUME service \in Service, service' = service
    PROVE  ServiceKept
BY DEF ServiceKept

\* A budget that does not change is kept.
LEMMA SameBudget ==
    ASSUME budget \in Allowed, budget' = budget
    PROVE  BudgetKept
BY DEF BudgetKept

\* Opening the gate changes nothing that is counted.
LEMMA GateKeeps ==
    ASSUME service \in Service, service' = [service EXCEPT !.inflight = FALSE]
    PROVE  ServiceKept
BY DEF ServiceKept, Service

\* Every plain step has that effect.
LEMMA PlainEffects ==
    ASSUME TypeOK, NEW w \in Workers, Plain(w)
    PROVE  PlainEffect(w)
<1> USE Standing, SameService, SameBudget
<1>1. CASE FirstFrame(w)
  <2> DEFINE to == IF client[w].kind = "session" THEN "admit" ELSE "verdict"
  <2>1. to \in Place
    BY DEF Place
  <2>2. worker[w].pc = "first" /\ conn[w].in # <<>> /\ Goto(w, to)
        /\ conn' = [conn EXCEPT ![w].in = Tail(@)]
        /\ UNCHANGED <<service, coordinator, client, session, accept, host, budget, acked>>
    BY <1>1 DEF FirstFrame, At
  <2>3. /\ Alone(w) /\ Core(w) /\ CallKept(w)
        /\ worker'[w].pc = to /\ worker'[w].after = worker[w].after
    <3> HIDE DEF to
    <3>1. QED
      BY <2>1, <2>2, GotoTurn
  <2>4. Wires /\ Quietly(w)
    BY <2>2, Takes
  <2>5. QED
    BY <2>2, <2>3, <2>4 DEF PlainEffect, Parting, MoveEffect, Hop, Straight, Steady
<1>2. CASE NoFirstFrame(w)
  <2>1. /\ worker[w].pc = "first" /\ TurnAway(w, "rejected")
        /\ UNCHANGED <<service, coordinator, client, session, accept, host, acked>>
    BY <1>2 DEF NoFirstFrame, At
  <2>2. BudgetKept
    BY <1>2, FaultKeeps DEF NoFirstFrame
  <2>3. Alone(w) /\ Core(w) /\ CallKept(w) /\ worker'[w].pc = "disconnect" /\ worker'[w].after = "join"
    BY <2>1, DisconnectTurn DEF TurnAway
  <2>4. Wires /\ Quietly(w)
    BY <2>1, Says DEF TurnAway
  <2>5. QED
    BY <2>1, <2>2, <2>3, <2>4 DEF PlainEffect, Parting, MoveEffect, Hop, Steady
<1>3. CASE Verdict(w) /\ ~Accepts(w)
  <2>1. /\ worker[w].pc = "verdict" /\ TurnAway(w, "refused")
        /\ UNCHANGED <<service, coordinator, client, session, accept, host, budget, acked>>
    BY <1>3 DEF Verdict, At
  <2>3. Alone(w) /\ Core(w) /\ CallKept(w) /\ worker'[w].pc = "disconnect" /\ worker'[w].after = "join"
    BY <2>1, DisconnectTurn DEF TurnAway
  <2>4. Wires /\ Quietly(w)
    BY <2>1, Says DEF TurnAway
  <2>5. QED
    BY <2>1, <2>3, <2>4 DEF PlainEffect, Parting, MoveEffect, Hop, Steady
<1>4. CASE Drain(w)
  <2>1. /\ worker[w].pc = "drain" /\ Goto(w, "ack") /\ conn' = Interrupted({w}, TRUE)
        /\ UNCHANGED <<service, coordinator, client, session, accept, host, budget, acked>>
    BY <1>4 DEF Drain, At
  <2>2. "ack" \in Place
    BY DEF Place
  <2>3. /\ Alone(w) /\ Core(w) /\ CallKept(w)
        /\ worker'[w].pc = "ack" /\ worker'[w].after = worker[w].after
    BY <2>1, <2>2, GotoTurn
  <2>4. /\ Wires /\ \A v \in Workers : Mute(v) /\ conn'[v].in = conn[v].in
        /\ \A v \in Workers \ {w} : conn[v].open => ~conn'[v].up
    BY <2>1, Interrupts
  <2>5. Quietly(w)
    BY <2>4 DEF Quietly, Hears, Dully
  <2>6. QED
    BY <2>1, <2>3, <2>4, <2>5 DEF PlainEffect, Parting, MoveEffect, Hop, Straight, Steady
<1>5. CASE Ack(w)
  <2>1. /\ worker[w].pc = "ack" /\ ToDisconnect(w, "join") /\ conn' = SendIfUp(w, "ack", 0)
        /\ acked' = (acked \/ CanSend(w))
        /\ UNCHANGED <<service, coordinator, client, session, accept, host, budget>>
    BY <1>5 DEF Ack, At
  <2>2. CanSend(w) \in BOOLEAN
    BY DEF CanSend, Conn
  <2>3. Alone(w) /\ Core(w) /\ CallKept(w) /\ worker'[w].pc = "disconnect" /\ worker'[w].after = "join"
    BY <2>1, DisconnectTurn
  <2>4. Wires /\ Quietly(w)
    BY <2>1, Says
  <2>5. acked' \in BOOLEAN
    BY <2>1, <2>2
  <2>6. QED
    BY <2>1, <2>3, <2>4, <2>5 DEF PlainEffect, Parting, MoveEffect, Hop, Steady, At
<1>6. CASE Admit(w) /\ ~(Running /\ coordinator.state = "running")
  <2>1. /\ worker[w].pc = "admit" /\ TurnAway(w, "rejected")
        /\ UNCHANGED <<service, coordinator, client, session, accept, host, budget, acked>>
    BY <1>6 DEF Admit, At
  <2>3. Alone(w) /\ Core(w) /\ CallKept(w) /\ worker'[w].pc = "disconnect" /\ worker'[w].after = "join"
    BY <2>1, DisconnectTurn DEF TurnAway
  <2>4. Wires /\ Quietly(w)
    BY <2>1, Says DEF TurnAway
  <2>5. QED
    BY <2>1, <2>3, <2>4 DEF PlainEffect, Parting, MoveEffect, Hop, Steady
<1>7. CASE Open(w) /\ Undo(w) /\ Fault /\ UNCHANGED session
  <2>1. /\ worker[w].pc = "open"
        /\ UNCHANGED <<service, coordinator, conn, client, session, accept, host, acked>>
    BY <1>7 DEF Open, At
  <2>2. BudgetKept
    BY <1>7, FaultKeeps
  <2>3. Alone(w) /\ Core(w) /\ CallKept(w) /\ worker'[w].pc = "disconnect" /\ worker'[w].after = "reject"
    BY <1>7, UndoTurn
  <2>4. Wires /\ Quietly(w)
    BY <2>1, Still
  <2>5. QED
    BY <2>1, <2>2, <2>3, <2>4 DEF PlainEffect, Parting, MoveEffect, Hop, Steady
<1>8. CASE Commit(w) /\ ~Committable(w)
  <2>1. /\ worker[w].pc = "commit" /\ Undo(w)
        /\ UNCHANGED <<service, coordinator, conn, client, session, accept, host, budget, acked>>
    BY <1>8 DEF Commit, At
  <2>3. Alone(w) /\ Core(w) /\ CallKept(w) /\ worker'[w].pc = "disconnect" /\ worker'[w].after = "reject"
    BY <2>1, UndoTurn
  <2>4. Wires /\ Quietly(w)
    BY <2>1, Still
  <2>5. QED
    BY <2>1, <2>3, <2>4 DEF PlainEffect, Parting, MoveEffect, Hop, Steady
<1>9. CASE Welcome(w)
  <2>1. /\ worker[w].pc = "welcome" /\ conn' = SendIfUp(w, "accepted", 0)
        /\ Goto(w, "loop") \/ ToDisconnect(w, "join")
        /\ UNCHANGED <<service, coordinator, client, session, accept, host, budget, acked>>
    BY <1>9 DEF Welcome, At
  <2>2. "loop" \in Place
    BY DEF Place
  <2>3. /\ Alone(w) /\ Core(w) /\ CallKept(w)
        /\ \/ worker'[w].pc = "loop" /\ worker'[w].after = worker[w].after
           \/ worker'[w].pc = "disconnect" /\ worker'[w].after = "join"
    BY <2>1, <2>2, DisconnectTurn, GotoTurn
  <2>4. Wires /\ Quietly(w)
    BY <2>1, Says
  <2>5. QED
    BY <2>1, <2>3, <2>4 DEF PlainEffect, Parting, MoveEffect, Hop, Straight, Steady
<1>10. CASE Loop(w) \/ EndOfStream(w)
  <2>1. /\ worker[w].pc \in {"loop", "receive"}
        /\ (worker[w].pc = "loop" /\ Goto(w, "receive")) \/ ToDisconnect(w, "join")
        /\ UNCHANGED <<service, coordinator, conn, client, session, accept, host, budget, acked>>
    BY <1>10 DEF Loop, EndOfStream, At
  <2>2. "receive" \in Place
    BY DEF Place
  <2>3. /\ Alone(w) /\ Core(w) /\ CallKept(w)
        /\ \/ worker[w].pc = "loop" /\ worker'[w].pc = "receive" /\ worker'[w].after = worker[w].after
           \/ worker'[w].pc = "disconnect" /\ worker'[w].after = "join"
    BY <2>1, <2>2, DisconnectTurn, GotoTurn
  <2>4. Wires /\ Quietly(w)
    BY <2>1, Still
  <2>5. QED
    BY <2>1, <2>3, <2>4 DEF PlainEffect, Parting, MoveEffect, Hop, Straight, Steady
<1>11. CASE HandleCancel(w)
  <2>1. /\ worker[w].pc = "receive" /\ conn[w].in # <<>> /\ conn' = [conn EXCEPT ![w].in = Tail(@)]
        /\ UNCHANGED <<service, coordinator, client, session, accept, host, budget, acked>>
    BY <1>11 DEF HandleCancel, At, Head1, Took
  <2>3. /\ Alone(w) /\ Core(w) /\ CallKept(w)
        /\ worker'[w].pc = "loop" /\ worker'[w].after = worker[w].after
    BY <1>11, CancelTurn
  <2>4. Wires /\ Quietly(w)
    BY <2>1, Takes
  <2>5. QED
    BY <2>1, <2>3, <2>4 DEF PlainEffect, Parting, MoveEffect, Hop, Straight, Steady
<1>12. CASE HandleCloseIntent(w) \/ HandleDisconnect(w)
  <2>1. /\ worker[w].pc = "receive" /\ conn[w].in # <<>> /\ conn' = [conn EXCEPT ![w].in = Tail(@)]
        /\ UNCHANGED <<service, coordinator, client, session, accept, host, budget, acked>>
    BY <1>12 DEF HandleCloseIntent, HandleDisconnect, At, Head1, Took
  <2>3. /\ Alone(w) /\ Core(w) /\ CallKept(w)
        /\ worker'[w].pc = "disconnect" /\ worker'[w].after \in {"loop", "bye"}
    BY <1>12, DisconnectTurn, ByeTurn DEF HandleCloseIntent
  <2>4. Wires /\ Quietly(w)
    BY <2>1, Takes
  <2>5. QED
    BY <2>1, <2>3, <2>4 DEF PlainEffect, Parting, MoveEffect, Hop, Steady
<1>13. CASE LastWord(w)
  <2>1. /\ worker[w].pc \in {"reject", "bye"}
        /\ \E op \in {"bye", "rejected"} : conn' = SendIfUp(w, op, 0)
        /\ UNCHANGED <<service, coordinator, client, session, accept, host, budget, acked>>
    BY <1>13 DEF LastWord, At
  <2>3. Alone(w) /\ Core(w) /\ CallKept(w) /\ worker'[w].pc = "disconnect" /\ worker'[w].after = "join"
    BY <1>13, LastTurn
  <2>4. Wires /\ Quietly(w)
    BY <2>1, Says
  <2>5. QED
    BY <2>1, <2>3, <2>4 DEF PlainEffect, Parting, MoveEffect, Hop, Steady
<1>14. CASE ReleaseGate(w)
  <2>1. /\ worker[w].pc = "tail" /\ service' = [service EXCEPT !.inflight = FALSE]
        /\ UNCHANGED <<coordinator, conn, client, session, accept, host, budget, acked>>
    BY <1>14 DEF ReleaseGate, At
  <2>2. ServiceKept
    BY <2>1, GateKeeps
  <2>3. /\ Alone(w) /\ Core(w) /\ CallKept(w)
        /\ worker'[w].pc = "returned" /\ worker'[w].after = worker[w].after
    BY <1>14, GateTurn
  <2>4. Wires /\ Quietly(w) /\ Mute(w)
    BY <2>1, Still DEF Mute
  <2>5. QED
    BY <2>1, <2>2, <2>3, <2>4 DEF PlainEffect, Parting, MoveEffect, Hop, Straight, Steady
<1>15. QED
  BY <1>1, <1>2, <1>3, <1>4, <1>5, <1>6, <1>7, <1>8, <1>9, <1>10, <1>11, <1>12, <1>13, <1>14
     DEF Plain

----------------------------------------------------------------------------
(* Steps of a request and its thread.                                      *)

\* The steps of a request that is not turned away as busy.
CallStep(w) ==
    \/ HandleApplication(w) /\ Reusable(w)
    \/ ApplicationFails(w) \/ Returns(w) \/ SendAnswer(w) \/ ThreadEnds(w)

\* The answers of a request's thread, and what the worker makes of a request.
Answered(w, token) ==
    \/ Mute(w)
    \/ /\ conn[w].up /\ [op |-> "answer", token |-> token] \in Reply
       /\ conn'[w].out = Append(conn[w].out, [op |-> "answer", token |-> token])
OthersUnheard(w) == \A v \in Workers \ {w} : conn'[v].in = conn[v].in /\ Mute(v)
CallEffect(w) ==
    LET r == worker[w]
        s == worker'[w]
        asked == Head(conn[w].in)
        taken == /\ r.pc = "receive" /\ conn[w].in # <<>> /\ asked.op = "request"
                 /\ conn'[w].in = Tail(conn[w].in)
    IN /\ MoveEffect(w) /\ OthersUnheard(w) /\ acked' = acked
       /\ \/ /\ taken /\ Mute(w)
             /\ s.app = "calling" /\ ~s.appDone /\ s.token = asked.token
          \/ /\ taken /\ Answered(w, asked.token)
             /\ s.app = "none" /\ ~s.appDone
          \/ /\ conn'[w].in = conn[w].in /\ Mute(w) /\ s.token = r.token /\ s.pc = r.pc
             /\ r.app = "calling" /\ s.app = "sending" /\ s.appDone
          \/ /\ conn'[w].in = conn[w].in /\ Answered(w, r.token) /\ s.pc = r.pc
             /\ r.app = "sending" /\ s.app = "sent" /\ s.appDone = r.appDone
          \/ /\ conn'[w].in = conn[w].in /\ Mute(w) /\ s.pc = r.pc
             /\ r.app = "sent" /\ s.app = "returned" /\ s.appDone = r.appDone

\* A request has a token.
LEMMA AskedToken ==
    ASSUME conn \in [Workers -> Conn], NEW w \in Workers, conn[w].in # <<>>
    PROVE  Head(conn[w].in).token \in Token
<1>1. conn[w].in \in Seq(Frame)
  BY DEF Conn
<1>2. Head(conn[w].in) \in Frame
  BY <1>1
<1>3. QED
  BY <1>2 DEF Frame

\* The thread answers its own token, or nothing.
LEMMA SendsAnswer ==
    ASSUME conn \in [Workers -> Conn], worker \in [Workers -> Worker], NEW w \in Workers,
           SendAnswer(w)
    PROVE  Wires /\ OthersUnheard(w) /\ conn'[w].in = conn[w].in /\ Answered(w, worker[w].token)
<1> DEFINE m == [op |-> "answer", token |-> worker[w].token]
<1>1. worker[w].token \in Token
  BY DEF Worker
<1>2. m \in Reply
  BY <1>1 DEF Reply
<1>3. conn[w].out \in Seq(Reply) /\ Append(conn[w].out, m) \in Seq(Reply)
  BY <1>2 DEF Conn
<1>4. conn' = IF worker[w].disconnecting THEN conn
              ELSE IF CanSend(w) THEN [conn EXCEPT ![w].out = Append(@, m)]
              ELSE [conn EXCEPT ![w].up = FALSE]
  BY DEF SendAnswer, Sent
<1> HIDE DEF m
<1>5. conn' \in [Workers -> Conn]
  BY <1>3, <1>4 DEF Conn
<1>6. \A v \in Workers : /\ conn'[v].open = conn[v].open /\ (conn'[v].up => conn[v].up)
                         /\ conn'[v].in = conn[v].in
                         /\ v # w => conn'[v].out = conn[v].out
  BY <1>3, <1>4 DEF Conn
<1>7. \/ conn'[w].out = conn[w].out
      \/ conn[w].up /\ conn'[w].out = Append(conn[w].out, m)
  BY <1>3, <1>4 DEF Conn, CanSend
<1>8. QED
  BY <1>2, <1>5, <1>6, <1>7 DEF Wires, OthersUnheard, Mute, Answered, m

\* A request that gets no thread is answered with its own token, or not.
LEMMA FailsAnswer ==
    ASSUME conn \in [Workers -> Conn], NEW w \in Workers, conn[w].in # <<>>, NEW t \in Token,
           conn' = [SendIfUp(w, "answer", t) EXCEPT ![w].in = Tail(@)]
    PROVE  Wires /\ OthersUnheard(w) /\ conn'[w].in = Tail(conn[w].in) /\ Answered(w, t)
<1> DEFINE c == SendIfUp(w, "answer", t)
           m == [op |-> "answer", token |-> t]
<1>1. /\ c \in [Workers -> Conn]
      /\ \A v \in Workers : /\ c[v].open = conn[v].open /\ c[v].up = conn[v].up
                            /\ c[v].eof = conn[v].eof /\ c[v].in = conn[v].in
      /\ \A v \in Workers \ {w} : c[v].out = conn[v].out
      /\ \/ c[w].out = conn[w].out
         \/ conn[w].up /\ c[w].out = Append(conn[w].out, m)
      /\ m \in Reply
  BY SendIfUpEffect
<1> HIDE DEF c, m
<1>2. conn' = [c EXCEPT ![w] = [c[w] EXCEPT !.in = Tail(c[w].in)]]
  BY DEF c
<1>3. c[w].in \in Seq(Frame) /\ Tail(c[w].in) \in Seq(Frame)
  <2>1. conn[w].in \in Seq(Frame) /\ Tail(conn[w].in) \in Seq(Frame)
    BY DEF Conn
  <2>2. QED
    BY <1>1, <2>1
<1>4. conn' \in [Workers -> Conn]
  <2>1. c \in [Workers -> Conn] /\ c[w] \in Conn
    BY <1>1
  <2>2. [c[w] EXCEPT !.in = Tail(c[w].in)] \in Conn
    BY <1>3, <2>1 DEF Conn
  <2>3. QED
    BY <1>2, <2>1, <2>2
<1>5. \A v \in Workers \ {w} : conn'[v] = c[v]
  BY <1>1, <1>2
<1>6. /\ conn'[w].open = c[w].open /\ conn'[w].up = c[w].up /\ conn'[w].out = c[w].out
      /\ conn'[w].in = Tail(c[w].in)
  <2>1. conn'[w] = [c[w] EXCEPT !.in = Tail(c[w].in)] /\ c[w] \in Conn
    BY <1>1, <1>2
  <2>2. QED
    BY ONLY <2>1 DEF Conn
<1>7. QED
  BY <1>1, <1>4, <1>5, <1>6 DEF Wires, OthersUnheard, Mute, Answered, m

\* Every such step has that effect.
LEMMA CallEffects ==
    ASSUME TypeOK, NEW w \in Workers, CallStep(w)
    PROVE  CallEffect(w)
<1> USE Standing, SameService, SameBudget
<1>1. CASE HandleApplication(w) /\ Reusable(w)
  <2> DEFINE t == Head(conn[w].in).token
  <2>1. /\ worker[w].pc = "receive" /\ conn[w].in # <<>> /\ Head(conn[w].in).op = "request"
        /\ conn' = [conn EXCEPT ![w].in = Tail(@)]
        /\ UNCHANGED <<service, coordinator, client, session, accept, host, budget, acked>>
    BY <1>1 DEF HandleApplication, Request, At, Head1, Took
  <2>2. t \in Token
    BY <2>1, AskedToken
  <2>3. /\ Alone(w) /\ Core(w) /\ worker'[w].pc = "loop" /\ worker'[w].after = worker[w].after
        /\ worker'[w].app = "calling" /\ worker'[w].token = t /\ worker'[w].appDone = FALSE
    BY <1>1, <2>2, CallTurn DEF Core
  <2>4. Wires /\ Quietly(w) /\ Mute(w) /\ conn'[w].in = Tail(conn[w].in)
    BY <2>1, Takes
  <2>5. MoveEffect(w)
    BY <2>1, <2>3, <2>4 DEF MoveEffect, Hop, Straight, Steady
  <2>6. QED
    BY <2>1, <2>3, <2>4, <2>5 DEF CallEffect, Quietly, OthersUnheard
<1>2. CASE ApplicationFails(w)
  <2> DEFINE t == Head(conn[w].in).token
  <2>1. /\ worker[w].pc = "receive" /\ conn[w].in # <<>> /\ Head(conn[w].in).op = "request"
        /\ conn' = [SendIfUp(w, "answer", t) EXCEPT ![w].in = Tail(@)]
        /\ UNCHANGED <<service, coordinator, client, session, accept, host, acked>>
        /\ Fault
    BY <1>2 DEF ApplicationFails, Request, At, Head1
  <2>2. t \in Token
    BY <2>1, AskedToken
  <2>3. /\ Alone(w) /\ Core(w) /\ worker'[w].app = "none" /\ worker'[w].appDone = FALSE
        /\ worker'[w].pc \in {"loop", "disconnect"} /\ worker'[w].after = "join"
    BY <1>2, <2>2, FailTurn
  <2>4. Wires /\ OthersUnheard(w) /\ conn'[w].in = Tail(conn[w].in) /\ Answered(w, t)
    BY <2>1, <2>2, FailsAnswer
  <2>5. BudgetKept
    BY <2>1, FaultKeeps
  <2>6. MoveEffect(w)
    BY <2>1, <2>3, <2>4, <2>5 DEF MoveEffect, Hop, Straight, Steady
  <2>7. QED
    BY <2>1, <2>3, <2>4, <2>6 DEF CallEffect
<1>3. CASE Returns(w)
  <2>1. UNCHANGED <<service, coordinator, conn, client, session, accept, host, budget, acked>>
        /\ worker[w].app = "calling"
    BY <1>3 DEF Returns
  <2>2. /\ Alone(w) /\ Core(w) /\ worker'[w].pc = worker[w].pc /\ worker'[w].after = worker[w].after
        /\ worker'[w].app = "sending" /\ worker'[w].appDone = TRUE /\ worker'[w].token = worker[w].token
    BY <1>3, ReturnsTurn
  <2>3. Wires /\ Quietly(w)
    BY <2>1, Still
  <2>4. MoveEffect(w) /\ OthersUnheard(w) /\ Mute(w)
    BY <2>1, <2>2, <2>3 DEF MoveEffect, Hop, Steady, OthersUnheard, Mute
  <2>5. QED
    BY <2>1, <2>2, <2>4 DEF CallEffect
<1>4. CASE SendAnswer(w)
  <2>1. UNCHANGED <<service, coordinator, client, session, accept, host, budget, acked>>
        /\ worker[w].app = "sending"
    BY <1>4 DEF SendAnswer
  <2>2. /\ Alone(w) /\ Core(w) /\ worker'[w].pc = worker[w].pc /\ worker'[w].after = worker[w].after
        /\ worker'[w].app = "sent" /\ worker'[w].appDone = worker[w].appDone
    BY <1>4, SendTurn
  <2>3. Wires /\ OthersUnheard(w) /\ conn'[w].in = conn[w].in /\ Answered(w, worker[w].token)
    BY <1>4, SendsAnswer
  <2>4. MoveEffect(w)
    BY <2>1, <2>2, <2>3 DEF MoveEffect, Hop, Steady
  <2>5. QED
    BY <2>1, <2>2, <2>3, <2>4 DEF CallEffect
<1>5. CASE ThreadEnds(w)
  <2>1. UNCHANGED <<service, coordinator, conn, client, session, accept, host, budget, acked>>
        /\ worker[w].app = "sent"
    BY <1>5 DEF ThreadEnds
  <2>2. /\ Alone(w) /\ Core(w) /\ worker'[w].pc = worker[w].pc /\ worker'[w].after = worker[w].after
        /\ worker'[w].app = "returned" /\ worker'[w].appDone = worker[w].appDone
    BY <1>5, EndsTurn
  <2>3. Wires /\ Quietly(w)
    BY <2>1, Still
  <2>4. MoveEffect(w) /\ OthersUnheard(w) /\ Mute(w)
    BY <2>1, <2>2, <2>3 DEF MoveEffect, Hop, Steady, OthersUnheard, Mute
  <2>5. QED
    BY <2>1, <2>2, <2>4 DEF CallEffect
<1>6. QED
  BY <1>1, <1>2, <1>3, <1>4, <1>5 DEF CallStep

----------------------------------------------------------------------------
(* Steps of the process at the other end.                                  *)

\* Words of a client that are no requests.
Words == {"cancel", "close_intent", "disconnect"}

\* A function on 1..n is a sequence.
LEMMA FunctionIsSequence ==
    ASSUME NEW S, NEW n \in Nat, NEW q \in [1..n -> S]
    PROVE  q \in Seq(S) /\ Len(q) = n
OBVIOUS

\* What is queued behind s leaves s alone, and holds no request.
LEMMA QueueEffect ==
    ASSUME NEW s \in Seq(Frame), NEW n \in Nat, NEW q \in [1..n -> Frame],
           \A i \in 1..n : q[i].op # "request",
           NEW z, z = s \o q
    PROVE  /\ z \in Seq(Frame)
           /\ \A i \in DOMAIN s : i \in DOMAIN z /\ z[i] = s[i]
           /\ \A i \in DOMAIN z : i \notin DOMAIN s => z[i].op # "request"
<1>1. q \in Seq(Frame) /\ Len(q) = n
  BY FunctionIsSequence
<1>2. /\ s \o q \in Seq(Frame) /\ Len(s \o q) = Len(s) + n
      /\ \A i \in 1..Len(s) + n : (s \o q)[i] = IF i <= Len(s) THEN s[i] ELSE q[i - Len(s)]
  BY <1>1, ConcatProperties
<1>3. z \in Seq(Frame) /\ DOMAIN z = 1..Len(s) + n /\ DOMAIN s = 1..Len(s)
  <2>1. z \in Seq(Frame) /\ Len(z) = Len(s) + n
    BY <1>2
  <2>2. DOMAIN z = 1..Len(z) /\ DOMAIN s = 1..Len(s)
    BY <2>1, LenProperties
  <2>3. QED
    BY <2>1, <2>2
<1>4. ASSUME NEW i \in DOMAIN s
      PROVE  i \in DOMAIN z /\ z[i] = s[i]
  BY <1>2, <1>3
<1>5. ASSUME NEW i \in DOMAIN z, i \notin DOMAIN s
      PROVE  z[i].op # "request"
  <2>1. i - Len(s) \in 1..n /\ z[i] = q[i - Len(s)]
    BY <1>2, <1>3, <1>5
  <2>2. QED
    BY <2>1
<1>6. QED
  BY <1>3, <1>4, <1>5

\* No request comes into w's connection.
SaysNoRequest(w) ==
    \A i \in DOMAIN conn'[w].in : conn'[w].in[i].op = "request" =>
        i \in DOMAIN conn[w].in /\ conn[w].in[i] = conn'[w].in[i]
ClientEffect(w) ==
    LET c == client[w]
        d == client'[w]
    IN /\ UNCHANGED <<service, coordinator, worker, session, accept, host, acked>>
       /\ BudgetKept /\ Wires /\ OthersUnheard(w)
       /\ client' \in [Workers -> Client] /\ (\A v \in Workers \ {w} : client'[v] = client[v])
       /\ d.kind = c.kind /\ c.pc # "none"
       /\ \/ /\ c.pc = "idle" /\ d.pc = "asking" /\ d.token = c.token + 1 /\ Mute(w)
             /\ [op |-> "request", token |-> d.token] \in Frame
             /\ conn'[w].in = Append(conn[w].in, [op |-> "request", token |-> d.token])
          \/ /\ d.token = c.token /\ SaysNoRequest(w) /\ Mute(w)
             /\ d.pc \in {c.pc, "gone"} \/ (c.pc = "idle" /\ d.pc = "leaving")
          \/ /\ d.token = c.token /\ SaysNoRequest(w)
             /\ conn[w].out # <<>> /\ conn'[w].out = Tail(conn[w].out)
             /\ \/ d.pc = "gone"
                \/ c.pc = "hello" /\ d.pc = "idle"
                \/ c.pc = "asking" /\ d.pc = "idle" /\ Head(conn[w].out).op \in {"answer", "busy"}

\* An update of w's wire that leaves it open and up as it was.
LEMMA WirePut ==
    ASSUME conn \in [Workers -> Conn], NEW w \in Workers, NEW k \in Conn,
           k.open = conn[w].open, k.up => conn[w].up,
           conn' = [conn EXCEPT ![w] = k]
    PROVE  Wires /\ OthersUnheard(w) /\ conn'[w] = k
BY DEF Wires, OthersUnheard, Mute

\* One client is written.
LEMMA ClientPut ==
    ASSUME client \in [Workers -> Client], NEW w \in Workers, NEW d \in Client,
           client' = [client EXCEPT ![w] = d]
    PROVE  /\ client' \in [Workers -> Client] /\ client'[w] = d
           /\ \A v \in Workers \ {w} : client'[v] = client[v]
OBVIOUS

\* A client moves on.
LEMMA Goes ==
    ASSUME client \in [Workers -> Client], NEW w \in Workers,
           NEW pc \in {"idle", "leaving", "gone"}, client' = [client EXCEPT ![w].pc = pc]
    PROVE  /\ client' \in [Workers -> Client] /\ \A v \in Workers \ {w} : client'[v] = client[v]
           /\ client'[w].kind = client[w].kind /\ client'[w].token = client[w].token
           /\ client'[w].pc = pc
<1> DEFINE d == [client[w] EXCEPT !.pc = pc]
<1>1. d \in Client /\ d.kind = client[w].kind /\ d.token = client[w].token /\ d.pc = pc
  BY DEF Client, Kind
<1>2. client' = [client EXCEPT ![w] = d]
  OBVIOUS
<1> HIDE DEF d
<1>3. QED
  BY <1>1, <1>2, ClientPut

\* A client ends its side.
LEMMA Closed ==
    ASSUME conn \in [Workers -> Conn], NEW w \in Workers, conn' = [conn EXCEPT ![w].eof = TRUE]
    PROVE  Wires /\ OthersUnheard(w) /\ Mute(w) /\ SaysNoRequest(w)
<1> DEFINE k == [conn[w] EXCEPT !.eof = TRUE]
<1>1. k \in Conn /\ k.open = conn[w].open /\ k.up = conn[w].up /\ k.in = conn[w].in
      /\ k.out = conn[w].out
  BY DEF Conn
<1>2. conn' = [conn EXCEPT ![w] = k]
  OBVIOUS
<1> HIDE DEF k
<1>3. Wires /\ OthersUnheard(w) /\ conn'[w] = k
  BY <1>1, <1>2, WirePut
<1>4. QED
  BY <1>1, <1>3 DEF Mute, SaysNoRequest

\* A client says words that are no requests.
LEMMA Queues ==
    ASSUME conn \in [Workers -> Conn], client \in [Workers -> Client], NEW w \in Workers,
           NEW ops \in Seq(Words), NEW eof \in BOOLEAN,
           conn' = [Queue(w, ops) EXCEPT ![w].eof = eof] \/ conn' = Queue(w, ops)
    PROVE  Wires /\ OthersUnheard(w) /\ Mute(w) /\ SaysNoRequest(w)
<1> DEFINE t == client[w].token
           m == [i \in DOMAIN ops |-> [op |-> ops[i], token |-> t]]
           z == conn[w].in \o m
           q == [conn[w] EXCEPT !.in = z]
           e == [q EXCEPT !.eof = eof]
<1>1. t \in Token /\ conn[w].in \in Seq(Frame)
  BY DEF Client, Conn
<1>2. /\ z \in Seq(Frame)
      /\ \A i \in DOMAIN conn[w].in : i \in DOMAIN z /\ z[i] = conn[w].in[i]
      /\ \A i \in DOMAIN z : i \notin DOMAIN conn[w].in => z[i].op # "request"
  <2> HIDE DEF t
  <2>1. Len(ops) \in Nat /\ DOMAIN ops = 1..Len(ops) /\ \A i \in 1..Len(ops) : ops[i] \in Words
    OBVIOUS
  <2>2. m \in [1..Len(ops) -> Frame] /\ \A i \in 1..Len(ops) : m[i].op # "request"
    BY <1>1, <2>1 DEF Frame, Words
  <2>3. z = conn[w].in \o m
    OBVIOUS
  <2>4. PICK n \in Nat : m \in [1..n -> Frame] /\ \A i \in 1..n : m[i].op # "request"
    BY <2>1, <2>2
  <2> HIDE DEF m, z, t
  <2>5. PICK s \in Seq(Frame) : s = conn[w].in /\ z = s \o m
    BY <1>1, <2>3
  <2>6. /\ z \in Seq(Frame)
        /\ \A i \in DOMAIN s : i \in DOMAIN z /\ z[i] = s[i]
        /\ \A i \in DOMAIN z : i \notin DOMAIN s => z[i].op # "request"
    BY ONLY <2>4, <2>5, QueueEffect, n \in Nat, s \in Seq(Frame)
  <2>7. QED
    BY <2>5, <2>6
<1>3. Queue(w, ops) = [conn EXCEPT ![w] = q]
  BY DEF Queue
<1> HIDE DEF t, m, z
<1>4. q \in Conn /\ q.open = conn[w].open /\ q.up = conn[w].up /\ q.in = z /\ q.out = conn[w].out
  BY <1>2 DEF Conn
<1>5. [Queue(w, ops) EXCEPT ![w].eof = eof] = [conn EXCEPT ![w] = e]
  <2> HIDE DEF q
  <2>1. QED
    BY <1>3, <1>4
<1> HIDE DEF q
<1>6. e \in Conn /\ e.open = q.open /\ e.up = q.up /\ e.in = q.in /\ e.out = q.out
  BY <1>4 DEF Conn
<1> HIDE DEF e
<1>7. PICK k \in Conn : /\ k.open = conn[w].open /\ k.up = conn[w].up /\ k.in = z
                        /\ k.out = conn[w].out /\ conn' = [conn EXCEPT ![w] = k]
  BY <1>3, <1>4, <1>5, <1>6
<1>8. Wires /\ OthersUnheard(w) /\ conn'[w] = k
  BY <1>7, WirePut
<1>9. QED
  BY <1>2, <1>7, <1>8 DEF Mute, SaysNoRequest

\* A client takes the head of what it was told.
LEMMA Reads ==
    ASSUME conn \in [Workers -> Conn], NEW w \in Workers, conn[w].out # <<>>, NEW eof \in BOOLEAN,
           \/ conn' = [conn EXCEPT ![w].out = Tail(@)]
           \/ conn' = [conn EXCEPT ![w].out = Tail(@), ![w].eof = eof]
    PROVE  Wires /\ OthersUnheard(w) /\ conn'[w].out = Tail(conn[w].out) /\ SaysNoRequest(w)
<1> DEFINE z == Tail(conn[w].out)
           q == [conn[w] EXCEPT !.out = z]
           e == [conn[w] EXCEPT !.out = z, !.eof = eof]
<1>1. conn[w].out \in Seq(Reply) /\ z \in Seq(Reply)
  BY DEF Conn
<1>2. conn' = [conn EXCEPT ![w] = q] \/ conn' = [conn EXCEPT ![w] = e]
  OBVIOUS
<1> HIDE DEF z
<1>3. q \in Conn /\ q.open = conn[w].open /\ q.up = conn[w].up /\ q.in = conn[w].in /\ q.out = z
  BY <1>1 DEF Conn
<1>4. e \in Conn /\ e.open = conn[w].open /\ e.up = conn[w].up /\ e.in = conn[w].in /\ e.out = z
  BY <1>1 DEF Conn
<1> HIDE DEF q, e
<1>5. PICK k \in Conn : /\ k.open = conn[w].open /\ k.up = conn[w].up /\ k.in = conn[w].in
                        /\ k.out = z /\ conn' = [conn EXCEPT ![w] = k]
  BY <1>2, <1>3, <1>4
<1>6. Wires /\ OthersUnheard(w) /\ conn'[w] = k
  BY <1>5, WirePut
<1>7. QED
  BY <1>5, <1>6 DEF SaysNoRequest, z

\* Every step of a client has that effect.
LEMMA ClientEffects ==
    ASSUME TypeOK, NEW w \in Workers, ClientStep(w)
    PROVE  ClientEffect(w)
<1> USE Standing, SameBudget
<1>0. ClientFrame => UNCHANGED <<service, coordinator, worker, session, accept, host, acked>>
  BY DEF ClientFrame
<1>1. CASE ClientAsks(w)
  <2> DEFINE c == client[w]
             d == [client[w] EXCEPT !.pc = "asking", !.token = @ + 1, !.cancelled = FALSE]
             m == [op |-> "request", token |-> client[w].token + 1]
             k == [conn[w] EXCEPT !.in = Append(@, m)]
  <2>1. c \in Client
    OBVIOUS
  <2>2. /\ d \in Client /\ d.kind = c.kind /\ d.pc = "asking" /\ d.token = c.token + 1
        /\ m \in Frame
    <3>1. c.token \in Nat /\ c.token + 1 \in Nat
      BY <2>1 DEF Client, Token
    <3>2. d \in Client /\ d.kind = c.kind
      BY <2>1, <3>1 DEF Client, Kind, Token
    <3>3. d.pc = "asking" /\ d.token = c.token + 1
      BY <2>1, <3>1 DEF Client
    <3>4. m \in Frame
      BY <3>1 DEF Frame, Token
    <3>5. QED
      BY <3>2, <3>3, <3>4
  <2>3. client' = [client EXCEPT ![w] = d] /\ c.pc = "idle"
    BY <1>1 DEF ClientAsks
  <2>4. conn' = [conn EXCEPT ![w] = k] /\ ClientFrame /\ BudgetKept
    BY <1>1 DEF ClientAsks
  <2>5. /\ client' \in [Workers -> Client] /\ client'[w] = d
        /\ \A v \in Workers \ {w} : client'[v] = client[v]
    BY <2>2, <2>3, ClientPut
  <2> HIDE DEF m
  <2>6. conn[w].in \in Seq(Frame) /\ Append(conn[w].in, m) \in Seq(Frame)
    BY <2>2 DEF Conn
  <2>7. /\ k \in Conn /\ k.open = conn[w].open /\ k.up = conn[w].up /\ k.out = conn[w].out
        /\ k.in = Append(conn[w].in, m)
    BY <2>6 DEF Conn
  <2> HIDE DEF k
  <2>8. Wires /\ OthersUnheard(w) /\ conn'[w] = k
    BY <2>4, <2>7, WirePut
  <2> HIDE DEF d
  <2>9. m = [op |-> "request", token |-> d.token]
    BY <2>2 DEF m
  <2>10. QED
    BY <1>0, <2>2, <2>3, <2>4, <2>5, <2>7, <2>8, <2>9 DEF ClientEffect, Mute
<1>2. CASE ClientCancels(w)
  <2> DEFINE d == [client[w] EXCEPT !.cancelled = TRUE]
  <2>1. /\ d \in Client /\ d.kind = client[w].kind /\ d.pc = client[w].pc
        /\ d.token = client[w].token
    BY DEF Client, Kind
  <2>2. client' = [client EXCEPT ![w] = d] /\ ClientFrame /\ BudgetKept /\ client[w].pc = "asking"
    BY <1>2 DEF ClientCancels
  <2>3. <<"cancel">> \in Seq(Words) /\ conn' = Queue(w, <<"cancel">>)
    BY <1>2 DEF ClientCancels, Words
  <2> HIDE DEF d
  <2>4. /\ client' \in [Workers -> Client] /\ client'[w] = d
        /\ \A v \in Workers \ {w} : client'[v] = client[v]
    BY <2>1, <2>2, ClientPut
  <2>5. Wires /\ OthersUnheard(w) /\ Mute(w) /\ SaysNoRequest(w)
    BY <2>3, Queues
  <2>6. QED
    BY <1>0, <2>1, <2>2, <2>4, <2>5 DEF ClientEffect
<1>3. CASE ClientCloses(w)
  <2>1. /\ ClientFrame /\ BudgetKept /\ client[w].pc \in {"idle", "asking"}
        /\ \E pc \in {"leaving", "gone"} :
              /\ client' = [client EXCEPT ![w].pc = pc]
              /\ pc = "leaving" => client[w].pc = "idle"
    BY <1>3 DEF ClientCloses, Gone
  <2>2. \E ops \in Seq(Words) :
           conn' = [Queue(w, ops) EXCEPT ![w].eof = TRUE] \/ conn' = Queue(w, ops)
    <3>1. /\ <<"disconnect">> \in Seq(Words) /\ <<"close_intent">> \in Seq(Words)
          /\ <<"cancel", "close_intent">> \in Seq(Words)
      BY DEF Words
    <3>2. QED
      BY <1>3, <3>1 DEF ClientCloses
  <2>3. PICK pc \in {"leaving", "gone"} :
           client' = [client EXCEPT ![w].pc = pc] /\ (pc = "leaving" => client[w].pc = "idle")
    BY <2>1
  <2>4. /\ client' \in [Workers -> Client] /\ \A v \in Workers \ {w} : client'[v] = client[v]
        /\ client'[w].kind = client[w].kind /\ client'[w].token = client[w].token
        /\ client'[w].pc = pc
    BY <2>3, Goes
  <2>5. Wires /\ OthersUnheard(w) /\ Mute(w) /\ SaysNoRequest(w)
    BY <2>2, Queues
  <2>6. QED
    BY <1>0, <2>1, <2>3, <2>4, <2>5 DEF ClientEffect
<1>4. CASE ClientReads(w)
  <2>1. /\ ClientFrame /\ BudgetKept /\ client[w].pc # "none" /\ conn[w].out # <<>>
        /\ \E pc \in {"idle", "gone"} :
              /\ client' = [client EXCEPT ![w].pc = pc]
              /\ pc = "idle" => \/ client[w].pc = "hello"
                                \/ /\ client[w].pc = "asking"
                                   /\ Head(conn[w].out).op \in {"answer", "busy"}
        /\ \/ conn' = [conn EXCEPT ![w].out = Tail(@)]
           \/ conn' = [conn EXCEPT ![w].out = Tail(@), ![w].eof = TRUE]
    BY <1>4 DEF ClientReads, Gone
  <2>2. PICK pc \in {"idle", "gone"} :
           /\ client' = [client EXCEPT ![w].pc = pc]
           /\ pc = "idle" => \/ client[w].pc = "hello"
                             \/ /\ client[w].pc = "asking"
                                /\ Head(conn[w].out).op \in {"answer", "busy"}
    BY <2>1
  <2>3. /\ client' \in [Workers -> Client] /\ \A v \in Workers \ {w} : client'[v] = client[v]
        /\ client'[w].kind = client[w].kind /\ client'[w].token = client[w].token
        /\ client'[w].pc = pc
    BY <2>2, Goes
  <2>4. Wires /\ OthersUnheard(w) /\ conn'[w].out = Tail(conn[w].out) /\ SaysNoRequest(w)
    BY <2>1, Reads
  <2>5. QED
    BY <1>0, <2>1, <2>2, <2>3, <2>4 DEF ClientEffect
<1>5. CASE ClientDies(w) \/ ClientIsCut(w)
  <2>1. /\ ClientFrame /\ client[w].pc # "none" /\ client' = [client EXCEPT ![w].pc = "gone"]
        /\ conn' = [conn EXCEPT ![w].eof = TRUE]
    BY <1>5 DEF ClientDies, ClientIsCut, Gone
  <2>2. BudgetKept
    BY <1>5, FaultKeeps DEF ClientDies, ClientIsCut
  <2>3. /\ client' \in [Workers -> Client] /\ \A v \in Workers \ {w} : client'[v] = client[v]
        /\ client'[w].kind = client[w].kind /\ client'[w].token = client[w].token
        /\ client'[w].pc = "gone"
    BY <2>1, Goes
  <2>4. Wires /\ OthersUnheard(w) /\ Mute(w) /\ SaysNoRequest(w)
    BY <2>1, Closed
  <2>5. QED
    BY <1>0, <2>1, <2>2, <2>3, <2>4 DEF ClientEffect
<1>6. QED
  BY <1>1, <1>2, <1>3, <1>4, <1>5 DEF ClientStep

----------------------------------------------------------------------------
(* The books are kept by steps that move a worker on.                      *)

Finite(S) == IsFiniteSet(S) /\ Cardinality(S) \in Nat /\ Cardinality(S) <= Capacity
\* Sets of workers are finite and no larger than the capacity.
LEMMA WorkersFinite ==
    /\ IsFiniteSet(Workers) /\ Cardinality(Workers) = Capacity
    /\ \A S \in SUBSET Workers : Finite(S)
<1>1. Capacity \in Nat
  BY CapacityAssumption
<1>2. IsFiniteSet(Workers) /\ Cardinality(Workers) = Capacity
  BY <1>1, FS_Interval DEF Workers
<1>3. ASSUME NEW S \in SUBSET Workers
      PROVE  Finite(S)
  BY <1>1, <1>2, FS_Subset, FS_CardinalityType DEF Finite
<1>4. QED
  BY <1>2, <1>3

\* A worker that nothing happens to keeps its station.
LEMMA StationOther ==
    ASSUME worker \in [Workers -> Worker], NEW v \in Workers, Station(v),
           worker'[v] = worker[v], client'[v].kind = client[v].kind,
           conn'[v].open = conn[v].open, conn'[v].up => conn[v].up,
           coordinator.last \in Nat, coordinator'.last \in Nat, coordinator.last <= coordinator'.last,
           worker[v].opened => session'[worker[v].client] = session[worker[v].client]
    PROVE  Station(v)'
<1>1. worker[v].client \in Nat
  BY DEF Worker, ClientId
<1>2. QED
  BY <1>1 DEF Station

\* A worker that moves on is where its flags allow it to be.
LEMMA StationHop ==
    ASSUME worker \in [Workers -> Worker], NEW w \in Workers, Station(w), MoveEffect(w),
           worker'[w].app # "none" => worker[w].opened,
           worker'[w].pc = "admit" /\ worker[w].pc # "admit" => client[w].kind = "session",
           worker'[w].pc = "verdict" /\ worker[w].pc # "verdict" => client[w].kind # "session"
    PROVE  Station(w)'
<1> DEFINE r == worker[w]
           s == worker'[w]
<1>1. /\ s.client = r.client /\ s.admitted = r.admitted /\ s.committed = r.committed
      /\ s.opened = r.opened /\ s.cancelled = r.cancelled
      /\ s.owner = r.owner /\ s.done = r.done
  BY DEF MoveEffect, Core
<1>2. /\ session' = session /\ coordinator' = coordinator /\ client' = client
      /\ conn'[w].open = conn[w].open /\ (conn'[w].up => conn[w].up)
  BY DEF MoveEffect, Steady, Wires
<1>3. Hop(w)
  BY DEF MoveEffect
<1>4. CASE s.pc = r.pc /\ s.after = r.after
  BY <1>1, <1>2, <1>4 DEF Station
<1>5. CASE <<r.pc, s.pc>> \in Straight
  BY <1>1, <1>2, <1>5 DEF Station, Straight, Early, Serving, Ending
<1>6. CASE /\ r.pc \in {"first", "verdict", "ack", "admit", "welcome", "loop", "receive", "reject", "bye"}
           /\ s.pc = "disconnect" /\ s.after = "join"
  BY <1>1, <1>2, <1>6 DEF Station, Early, Serving, Ending
<1>7. CASE r.pc \in {"open", "commit"} /\ s.pc = "disconnect" /\ s.after = "reject"
  BY <1>1, <1>2, <1>7 DEF Station, Early, Serving, Ending
<1>8. CASE r.pc = "receive" /\ s.pc = "disconnect" /\ s.after \in {"loop", "bye"}
  BY <1>1, <1>2, <1>8 DEF Station, Early, Serving, Ending
<1>9. QED
  BY <1>3, <1>4, <1>5, <1>6, <1>7, <1>8 DEF Hop

\* A move changes no count and no holder.
LEMMA MoveSets ==
    ASSUME NEW w \in Workers, MoveEffect(w), worker \in [Workers -> Worker]
    PROVE  Active' = Active /\ Members' = Members /\ Holders' = Holders /\ Pending' \subseteq Pending
<1>1. \A v \in Workers :
         /\ worker'[v].done = worker[v].done /\ worker'[v].committed = worker[v].committed
         /\ worker'[v].admitted = worker[v].admitted
         /\ worker'[v].pc = "free" <=> worker[v].pc = "free"
         /\ worker'[v].pc = "release" <=> worker[v].pc = "release"
         /\ worker'[v].pc \in {"first", "admit"} => worker[v].pc \in {"first", "admit"}
  BY DEF MoveEffect, Alone, Core, Hop, Straight
<1>2. client' = client
  BY DEF MoveEffect, Steady
<1>3. QED
  BY <1>1, <1>2 DEF Active, Members, Holders, Pending, InUse, At

\* Moving on keeps types.
LEMMA MoveTypes ==
    ASSUME TypeOK, NEW w \in Workers, MoveEffect(w)
    PROVE  TypeOK'
<1>1. /\ worker' \in [Workers -> Worker] /\ conn' \in [Workers -> Conn]
      /\ service' \in Service /\ service'.active = service.active
      /\ service'.committed = service.committed /\ budget' \in Allowed /\ acked' \in BOOLEAN
      /\ UNCHANGED <<coordinator, client, session, accept, host>>
  BY DEF MoveEffect, Alone, Wires, ServiceKept, BudgetKept, Steady
<1>2. QED
  BY <1>1 DEF TypeOK, Conn

\* Ranges of the identities.
LEMMA Ranges ==
    ASSUME TypeOK
    PROVE  /\ coordinator.last \in Nat /\ budget.session \in Nat /\ MaxClients \in Nat
           /\ \A w \in Workers : worker[w].client \in Nat
           /\ DOMAIN session = 1..coordinator.last /\ Len(session) = coordinator.last
<1>1. coordinator.last \in Nat /\ \A w \in Workers : worker[w].client \in Nat
  BY CapacityAssumption DEF TypeOK, Worker, ClientId
<1>2. DOMAIN session = 1..coordinator.last
  BY DEF TypeOK
<1>3. QED
  BY <1>1, <1>2, CapacityAssumption DEF TypeOK, Allowed

\* Moving on keeps the books.
LEMMA MoveBooks ==
    ASSUME TypeOK, Books, NEW w \in Workers, MoveEffect(w),
           worker'[w].app # "none" => worker[w].opened,
           worker'[w].pc = "admit" /\ worker[w].pc # "admit" => client[w].kind = "session",
           worker'[w].pc = "verdict" /\ worker[w].pc # "verdict" => client[w].kind # "session"
    PROVE  Books'
<1> USE Standing, Ranges
<1>1. ASSUME NEW v \in Workers PROVE Station(v)'
  <2>1. CASE v = w
    BY <2>1, StationHop DEF Books
  <2>2. CASE v # w
    BY <2>2, StationOther DEF Books, MoveEffect, Alone, Steady, Wires
  <2>3. QED
    BY <2>1, <2>2
<1>2. Active' = Active /\ Members' = Members /\ Holders' = Holders /\ Pending' \subseteq Pending
  BY MoveSets
<1>3. /\ \A v \in Workers : worker'[v].client = worker[v].client /\ worker'[v].opened = worker[v].opened
      /\ UNCHANGED <<coordinator, session>> /\ service'.active = service.active
      /\ service'.committed = service.committed /\ budget'.session = budget.session
  BY DEF MoveEffect, Alone, Core, Steady, ServiceKept, BudgetKept
<1>4. Budgeted'
  <2>1. Pending \in SUBSET Workers
    BY DEF Pending
  <2>2. Cardinality(Pending') <= Cardinality(Pending) /\ Cardinality(Pending) \in Nat
        /\ Cardinality(Pending') \in Nat
    BY <1>2, <2>1, WorkersFinite, FS_Subset DEF Finite
  <2>3. QED
    BY <1>3, <2>2 DEF Books, Budgeted
<1>5. Distinct' /\ Kept'
  BY <1>3 DEF Books, Distinct, Kept
<1>6. Counted'
  <2>1. Holders \subseteq Workers
    BY DEF Holders
  <2>2. QED
    BY <1>2, <1>3, <2>1 DEF Books, Counted
<1>7. QED
  BY <1>1, <1>4, <1>5, <1>6 DEF Books

----------------------------------------------------------------------------
(* The books are kept by clients and by admission.                         *)

\* Counters of workers stay within the capacity.
LEMMA CountedBounds ==
    ASSUME Counted', service' \in Service
    PROVE  service'.active \in 0..Capacity /\ service'.committed \in 0..Capacity
<1>1. Active' \in SUBSET Workers /\ Members' \in SUBSET Workers
  BY DEF Active, Members
<1>2. QED
  BY <1>1, WorkersFinite, CapacityAssumption DEF Counted, Finite

\* TypeOK of the next state, the counters' bounds taken from the books.
LEMMA TypeFromParts ==
    ASSUME worker' \in [Workers -> Worker], conn' \in [Workers -> Conn],
           client' \in [Workers -> Client], service' \in Service, Counted',
           coordinator' \in Coordinator, session' \in Seq(SessionState),
           Len(session') = coordinator'.last,
           accept' \in {"loop", "done"}, host' \in {"waiting", "stopping", "freed", "terminated"},
           budget' \in Allowed, acked' \in BOOLEAN
    PROVE  TypeOK'
BY CountedBounds DEF TypeOK, Conn, Coordinator, SessionState

\* The parts of TypeOK.
LEMMA Parts ==
    ASSUME TypeOK
    PROVE  /\ worker \in [Workers -> Worker] /\ conn \in [Workers -> Conn]
           /\ client \in [Workers -> Client] /\ service \in Service
           /\ coordinator \in Coordinator /\ session \in Seq(SessionState)
           /\ Len(session) = coordinator.last
           /\ accept \in {"loop", "done"} /\ host \in {"waiting", "stopping", "freed", "terminated"}
           /\ budget \in Allowed /\ acked \in BOOLEAN
BY DEF TypeOK, Conn, Coordinator, SessionState

\* The process at the other end.
LEMMA ClientBooks ==
    ASSUME TypeOK, Books, NEW w \in Workers, ClientEffect(w)
    PROVE  TypeOK' /\ Books'
<1> USE Parts, Ranges
<1>1. /\ UNCHANGED <<service, coordinator, worker, session, accept, host, acked>>
      /\ budget' \in Allowed /\ budget'.session = budget.session
      /\ client' \in [Workers -> Client] /\ conn' \in [Workers -> Conn]
      /\ \A v \in Workers : /\ client'[v].kind = client[v].kind
                            /\ conn'[v].open = conn[v].open /\ (conn'[v].up => conn[v].up)
  BY DEF ClientEffect, BudgetKept, Wires
<1>2. ASSUME NEW v \in Workers PROVE Station(v)'
  BY <1>1, StationOther DEF Books
<1>3. Active' = Active /\ Members' = Members /\ Holders' = Holders /\ Pending' = Pending
  BY <1>1 DEF Active, Members, Holders, Pending, InUse, At
<1>4. Budgeted' /\ Distinct' /\ Kept' /\ Counted'
  BY <1>1, <1>3 DEF Books, Budgeted, Distinct, Kept, Counted
<1>5. TypeOK'
  BY <1>1, <1>4, TypeFromParts
<1>6. QED
  BY <1>2, <1>4, <1>5 DEF Books

\* BeginStopping touches the state and the force alone.
LEMMA BeginStoppingEffect ==
    ASSUME NEW s \in Service, NEW emergency \in BOOLEAN, NEW t, t = BeginStopping(s, emergency)
    PROVE  /\ t \in Service /\ t.active = s.active /\ t.committed = s.committed
           /\ t.permanent = s.permanent /\ t.activation = s.activation /\ t.inflight = s.inflight
           /\ t.state = IF s.state = "running" THEN "stopping" ELSE s.state
<1> DEFINE force == (s.force \/ emergency)
           state == IF s.state = "running" THEN "stopping" ELSE s.state
<1>1. force \in BOOLEAN /\ state \in {"running", "stopping", "exited"}
  BY DEF Service
<1>2. t = [s EXCEPT !.state = state, !.force = force]
  BY DEF BeginStopping
<1> HIDE DEF force, state
<1>3. t \in Service
  BY <1>1, <1>2 DEF Service
<1>4. /\ t.active = s.active /\ t.committed = s.committed
      /\ t.permanent = s.permanent /\ t.activation = s.activation /\ t.inflight = s.inflight
      /\ t.state = state
  BY <1>1, <1>2 DEF Service
<1>5. QED
  BY <1>3, <1>4 DEF state

\* An accepted stop keeps the books.
LEMMA VerdictBooks ==
    ASSUME TypeOK, Books, NEW w \in Workers, Verdict(w), Accepts(w)
    PROVE  TypeOK' /\ Books'
<1> USE Parts, Ranges
<1> DEFINE s == BeginStopping(service, FALSE)
<1>1. /\ worker[w].pc = "verdict" /\ service' = [s EXCEPT !.activation = TRUE, !.inflight = TRUE]
      /\ UNCHANGED <<coordinator, conn, client, session, accept, host, budget, acked>>
  BY DEF Verdict, At
<1>2. s \in Service /\ s.active = service.active /\ s.committed = service.committed
  BY BeginStoppingEffect
<1> HIDE DEF s
<1>3. /\ service' \in Service /\ service'.active = service.active
      /\ service'.committed = service.committed
  BY <1>1, <1>2 DEF Service
<1>4. /\ Alone(w) /\ CallKept(w) /\ worker'[w].pc = "drain" /\ worker'[w].after = worker[w].after
      /\ worker'[w].client = worker[w].client /\ worker'[w].admitted = worker[w].admitted
      /\ worker'[w].committed = worker[w].committed /\ worker'[w].opened = worker[w].opened
      /\ worker'[w].cancelled = worker[w].cancelled /\ worker'[w].done = worker[w].done
  BY VerdictTurn
<1>5. ASSUME NEW v \in Workers PROVE Station(v)'
  <2>1. CASE v = w
    BY <1>1, <1>4, <2>1 DEF Books, Station, CallKept, Early, Serving, Ending
  <2>2. CASE v # w
    BY <1>1, <1>4, <2>2, StationOther DEF Books, Alone
  <2>3. QED
    BY <2>1, <2>2
<1>6. \A v \in Workers :
         /\ worker'[v].client = worker[v].client /\ worker'[v].opened = worker[v].opened
         /\ worker'[v].admitted = worker[v].admitted /\ worker'[v].committed = worker[v].committed
         /\ worker'[v].done = worker[v].done
         /\ worker'[v].pc = worker[v].pc \/ (worker[v].pc = "verdict" /\ worker'[v].pc = "drain")
  BY <1>1, <1>4 DEF Alone
<1>7. Active' = Active /\ Members' = Members /\ Holders' = Holders /\ Pending' = Pending
  <2>1. client' = client /\ (\A v \in Workers : InUse(v)' <=> InUse(v))
    BY <1>1, <1>6 DEF InUse, At
  <2>2. Active' = Active
    BY <1>6, <2>1 DEF Active
  <2>3. Members' = Members
    BY <1>6 DEF Members
  <2>4. Holders' = Holders
    BY <1>6 DEF Holders, At
  <2>5. Pending' = Pending
    BY <1>6, <2>1 DEF Pending
  <2>6. QED
    BY <2>2, <2>3, <2>4, <2>5
<1>8. Budgeted' /\ Distinct' /\ Kept' /\ Counted'
  <2>1. Holders \subseteq Workers
    BY DEF Holders
  <2>2. QED
    <3>1. Budgeted'
      BY <1>1, <1>7 DEF Books, Budgeted
    <3>2. Distinct'
      BY <1>6 DEF Books, Distinct
    <3>3. Kept'
      BY <1>1, <1>6 DEF Books, Kept
    <3>4. Counted'
      <4>1. coordinator' = coordinator
        BY <1>1
      <4>2. \A v \in Holders : worker'[v].client = worker[v].client
        BY <1>6, <2>1
      <4>3. {worker'[v].client : v \in Holders'} = {worker[v].client : v \in Holders}
        BY ONLY <1>7, <4>2
      <4>4. QED
        BY <1>3, <1>7, <4>1, <4>3 DEF Books, Counted
    <3>5. QED
      BY <3>1, <3>2, <3>3, <3>4
<1>9. TypeOK'
  BY <1>1, <1>3, <1>4, <1>8, TypeFromParts DEF Alone
<1>10. QED
  BY <1>5, <1>8, <1>9 DEF Books

\* A provisional client: the identity is new, and its session is not yet.
LEMMA AdmitBooks ==
    ASSUME TypeOK, Books, NEW w \in Workers, Admit(w), Running, coordinator.state = "running"
    PROVE  TypeOK' /\ Books'
<1> USE Parts, Ranges
<1> DEFINE c == coordinator.last + 1
<1>1. /\ worker[w].pc = "admit" /\ session' = Append(session, "none")
      /\ coordinator' = [coordinator EXCEPT !.last = c, !.clients = @ \cup {c}]
      /\ UNCHANGED <<service, conn, client, accept, host, budget, acked>>
  BY DEF Admit, At
<1>2. Station(w) /\ worker[w].client = 0 /\ ~worker[w].admitted /\ ~worker[w].opened
  BY <1>1 DEF Books, Station, Early
<1>3. w \in Pending /\ Pending \in SUBSET Workers
  BY <1>1, <1>2 DEF Pending, Station
<1>4. Cardinality(Pending) \in Nat /\ Cardinality(Pending) >= 1 /\ IsFiniteSet(Pending)
      /\ Cardinality(Pending \ {w}) = Cardinality(Pending) - 1
  <2>1. IsFiniteSet(Pending) /\ Cardinality(Pending) \in Nat
    BY <1>3, WorkersFinite DEF Finite
  <2>2. Cardinality(Pending \ {w}) = Cardinality(Pending) - 1
    BY <1>3, <2>1, FS_RemoveElement
  <2>3. Cardinality(Pending \ {w}) \in Nat
    BY <2>1, FS_RemoveElement, FS_CardinalityType
  <2>4. QED
    BY <2>1, <2>2, <2>3
<1>5. c \in ClientId
  BY <1>4, CapacityAssumption DEF Books, Budgeted, ClientId
<1>6. /\ Alone(w) /\ CallKept(w) /\ worker'[w].pc = "open" /\ worker'[w].after = worker[w].after
      /\ worker'[w].client = c /\ worker'[w].admitted = TRUE
      /\ worker'[w].committed = FALSE /\ worker'[w].opened = worker[w].opened
      /\ worker'[w].cancelled = worker[w].cancelled /\ worker'[w].done = worker[w].done
  BY <1>5, AdmitTurn
<1>7. coordinator' \in Coordinator /\ coordinator'.last = c
      /\ coordinator'.clients = coordinator.clients \cup {c}
  BY <1>1, <1>5 DEF Coordinator
<1>8. /\ session' \in Seq(SessionState) /\ Len(session') = c /\ DOMAIN session' = 1..c
      /\ session'[c] = "none" /\ \A i \in DOMAIN session : session'[i] = session[i]
  BY <1>1 DEF SessionState
<1> HIDE DEF c
<1>9. c \in Nat /\ coordinator.last < c /\ c # 0
      /\ \A i \in DOMAIN session' : i \in DOMAIN session \/ i = c
  BY <1>8 DEF c
<1>10. \A v \in Workers : worker[v].client <= coordinator.last /\ (worker[v].opened => worker[v].client # 0)
  BY DEF Books, Station
<1>11. ASSUME NEW v \in Workers PROVE Station(v)'
  <2>1. CASE v = w
    BY <1>1, <1>2, <1>6, <1>7, <1>9, <2>1 DEF Station, CallKept, Early, Serving, Ending
  <2>2. CASE v # w
    <3>1. worker[v].opened => session'[worker[v].client] = session[worker[v].client]
      BY <1>8, <1>10
    <3>2. /\ coordinator'.last \in Nat /\ coordinator.last <= coordinator'.last
          /\ worker'[v] = worker[v] /\ conn' = conn /\ client' = client
      BY <1>1, <1>6, <1>7, <1>9, <2>2 DEF Alone
    <3>3. QED
      BY <3>1, <3>2, StationOther DEF Books
  <2>3. QED
    BY <2>1, <2>2
<1>12. /\ Active' = Active /\ Members' = Members /\ Holders' = Holders \cup {w} /\ w \notin Holders
       /\ Pending' = Pending \ {w}
  <2>1. \A v \in Workers \ {w} : worker'[v] = worker[v]
    BY <1>6 DEF Alone
  <2>2. ~worker[w].committed
    BY <1>2 DEF Station
  <2>3. QED
    BY <1>1, <1>2, <1>6, <2>1, <2>2 DEF Active, Members, Holders, Pending, InUse, At
<1>13. Budgeted'
  BY <1>1, <1>4, <1>7, <1>12 DEF Books, Budgeted, c
<1>14. Distinct'
  BY <1>6, <1>9, <1>10 DEF Books, Distinct, Alone
<1>15. Kept'
  <2>1. SUFFICES ASSUME NEW i \in DOMAIN session', session'[i] \in {"open", "cancelled"}
                 PROVE  \E v \in Workers : worker'[v].client = i /\ worker'[v].opened
    BY DEF Kept
  <2>2. i \in DOMAIN session /\ session[i] \in {"open", "cancelled"}
    BY <1>8, <1>9, <2>1
  <2>3. PICK v \in Workers : worker[v].client = i /\ worker[v].opened
    BY <2>2 DEF Books, Kept
  <2>4. QED
    BY <1>2, <1>6, <2>3 DEF Alone
<1>16. Counted'
  <2>1. Holders \subseteq Workers
    BY DEF Holders
  <2>2. {worker'[v].client : v \in Holders'} = {worker[v].client : v \in Holders} \cup {c}
    BY <1>6, <1>12, <2>1 DEF Alone
  <2>3. QED
    BY <1>1, <1>7, <1>12, <2>2 DEF Books, Counted
<1>17. TypeOK'
  BY <1>1, <1>6, <1>7, <1>8, <1>16, TypeFromParts DEF Alone
<1>18. QED
  BY <1>11, <1>13, <1>14, <1>15, <1>16, <1>17 DEF Books

----------------------------------------------------------------------------
(* The books are kept when a session opens, is committed or leaves.        *)

\* A step of w's worker that admits and releases nobody and starts and ends no thread.
LEMMA SameStanding ==
    ASSUME worker \in [Workers -> Worker], NEW w \in Workers, Alone(w),
           worker'[w].pc \notin {"free", "first", "admit", "release"},
           worker[w].pc \notin {"free", "first", "admit", "release"},
           worker'[w].client = worker[w].client, worker'[w].done = worker[w].done,
           worker'[w].admitted = worker[w].admitted, client' = client
    PROVE  Active' = Active /\ Pending' = Pending /\ Holders' = Holders
BY DEF Active, Pending, Holders, InUse, At, Alone

\* The session of one worker is told something: the others' stay.
LEMMA SessionPut ==
    ASSUME TypeOK, Books, NEW w \in Workers, worker[w].client # 0, NEW x \in SessionState,
           session' = [session EXCEPT ![worker[w].client] = x]
    PROVE  /\ session' \in Seq(SessionState) /\ Len(session') = Len(session)
           /\ DOMAIN session' = DOMAIN session
           /\ worker[w].client \in DOMAIN session
           /\ session'[worker[w].client] = x
           /\ \A i \in DOMAIN session : i # worker[w].client => session'[i] = session[i]
           /\ \A v \in Workers \ {w} : worker[v].opened =>
                worker[v].client # worker[w].client /\ session'[worker[v].client] = session[worker[v].client]
<1> USE Parts, Ranges
<1>1. \A v \in Workers : worker[v].client <= coordinator.last /\ (worker[v].opened => worker[v].client # 0)
  BY DEF Books, Station
<1>2. worker[w].client \in DOMAIN session
  BY <1>1
<1>3. session' \in Seq(SessionState) /\ Len(session') = Len(session)
  BY <1>2
<1>4. /\ DOMAIN session' = DOMAIN session /\ session'[worker[w].client] = x
      /\ \A i \in DOMAIN session : i # worker[w].client => session'[i] = session[i]
  BY <1>2
<1>5. \A v \in Workers \ {w} : worker[v].opened =>
         worker[v].client # worker[w].client /\ worker[v].client \in DOMAIN session
  BY <1>1 DEF Books, Distinct
<1>6. QED
  BY <1>2, <1>3, <1>4, <1>5

\* A session is opened.
LEMMA OpenBooks ==
    ASSUME TypeOK, Books, NEW w \in Workers, worker[w].pc = "open",
           session' = [session EXCEPT ![worker[w].client] = "open"],
           worker' = [worker EXCEPT ![w].pc = "commit", ![w].opened = TRUE],
           UNCHANGED <<service, coordinator, conn, client, accept, host, budget, acked>>
    PROVE  TypeOK' /\ Books'
<1> USE Parts, Ranges
<1>1. /\ Alone(w) /\ CallKept(w) /\ worker'[w].pc = "commit" /\ worker'[w].after = worker[w].after
      /\ worker'[w].client = worker[w].client /\ worker'[w].admitted = worker[w].admitted
      /\ worker'[w].committed = worker[w].committed /\ worker'[w].opened = TRUE
      /\ worker'[w].cancelled = worker[w].cancelled /\ worker'[w].done = worker[w].done
  BY OpenTurn
<1>2. Station(w) /\ worker[w].client # 0 /\ worker[w].admitted /\ ~worker[w].opened
      /\ ~worker[w].committed
  BY DEF Books, Station, Early, Ending
<1>3. /\ session' \in Seq(SessionState) /\ Len(session') = Len(session)
      /\ DOMAIN session' = DOMAIN session
      /\ session'[worker[w].client] = "open"
      /\ \A i \in DOMAIN session : i # worker[w].client => session'[i] = session[i]
      /\ \A v \in Workers \ {w} : worker[v].opened =>
            session'[worker[v].client] = session[worker[v].client]
  BY <1>2, SessionPut DEF SessionState
<1>4. ASSUME NEW v \in Workers PROVE Station(v)'
  <2>1. CASE v = w
    BY <1>1, <1>2, <1>3, <2>1 DEF Station, CallKept, Early, Serving, Ending
  <2>2. CASE v # w
    BY <1>1, <1>3, <2>2, StationOther DEF Books, Alone
  <2>3. QED
    BY <2>1, <2>2
<1>5. Active' = Active /\ Pending' = Pending /\ Holders' = Holders /\ Members' = Members
  BY <1>1, SameStanding DEF Members, Alone
<1>6. Budgeted' /\ Distinct'
  BY <1>1, <1>5 DEF Books, Budgeted, Distinct, Alone
<1>7. Kept'
  <2>1. SUFFICES ASSUME NEW i \in DOMAIN session', session'[i] \in {"open", "cancelled"}
                 PROVE  \E v \in Workers : worker'[v].client = i /\ worker'[v].opened
    BY DEF Kept
  <2>2. CASE i = worker[w].client
    BY <1>1, <2>2
  <2>3. CASE i # worker[w].client
    <3>1. PICK v \in Workers : worker[v].client = i /\ worker[v].opened
      BY <1>3, <2>1, <2>3 DEF Books, Kept
    <3>2. v # w
      BY <2>3, <3>1
    <3>3. QED
      BY <1>1, <3>1, <3>2 DEF Alone
  <2>4. QED
    BY <2>2, <2>3
<1>8. Counted'
  BY <1>1, <1>5 DEF Books, Counted, Holders, Alone
<1>9. TypeOK'
  BY <1>1, <1>3, <1>8, TypeFromParts DEF Alone
<1>10. QED
  BY <1>4, <1>6, <1>7, <1>8, <1>9 DEF Books

\* A client is committed: the committed are one more.
LEMMA CommitBooks ==
    ASSUME TypeOK, Books, NEW w \in Workers, Commit(w), Committable(w)
    PROVE  /\ TypeOK' /\ Books' /\ Members' = Members \cup {w} /\ w \notin Members
           /\ worker'[w].client = worker[w].client
<1> USE Parts, Ranges
<1>1. /\ Alone(w) /\ CallKept(w) /\ worker'[w].pc = "welcome" /\ worker'[w].after = worker[w].after
      /\ worker'[w].client = worker[w].client /\ worker'[w].admitted = worker[w].admitted
      /\ worker'[w].committed = TRUE /\ worker'[w].opened = worker[w].opened
      /\ worker'[w].cancelled = worker[w].cancelled /\ worker'[w].done = worker[w].done
  BY CommitTurn
<1>2. /\ worker[w].pc = "commit" /\ service' = [service EXCEPT !.committed = @ + 1]
      /\ UNCHANGED <<coordinator, conn, client, session, accept, host, budget, acked>>
  BY DEF Commit, At
<1>3. Station(w) /\ worker[w].admitted /\ worker[w].opened /\ ~worker[w].committed
  BY <1>2 DEF Books, Station
<1>4. ASSUME NEW v \in Workers PROVE Station(v)'
  <2>1. CASE v = w
    BY <1>1, <1>2, <1>3, <2>1 DEF Station, CallKept, Early, Serving, Ending
  <2>2. CASE v # w
    BY <1>1, <1>2, <2>2, StationOther DEF Books, Alone
  <2>3. QED
    BY <2>1, <2>2
<1>5. Active' = Active /\ Pending' = Pending /\ Holders' = Holders
  BY <1>1, <1>2, SameStanding
<1>6. Members' = Members \cup {w} /\ w \notin Members
  BY <1>1, <1>3 DEF Members, Alone
<1>7. Budgeted' /\ Distinct' /\ Kept'
  <2>1. \A v \in Workers : /\ worker'[v].client = worker[v].client
                           /\ worker'[v].opened = worker[v].opened
    BY <1>1, <1>2 DEF Alone
  <2>2. Budgeted'
    BY <1>2, <1>5 DEF Books, Budgeted
  <2>3. Distinct'
    BY <2>1 DEF Books, Distinct
  <2>4. Kept'
    BY <1>2, <2>1 DEF Books, Kept
  <2>5. QED
    BY <2>2, <2>3, <2>4
<1>8. /\ service' \in Service /\ service'.active = service.active
      /\ service'.committed = service.committed + 1
  BY SMTT(30), <1>2 DEF Service
<1>9. Cardinality(Members') = Cardinality(Members) + 1
  <2>1. Members \in SUBSET Workers
    BY DEF Members
  <2>2. QED
    BY <1>6, <2>1, WorkersFinite, FS_AddElement DEF Finite
<1>10. Counted'
  BY <1>1, <1>2, <1>5, <1>8, <1>9 DEF Books, Counted, Holders, Alone
<1>11. TypeOK'
  BY <1>1, <1>2, <1>8, <1>10, TypeFromParts DEF Alone
<1>12. QED
  BY <1>1, <1>4, <1>6, <1>7, <1>10, <1>11 DEF Books

\* What the departure of a worker does to the service.
LEMMA DepartedEffect ==
    ASSUME service \in Service, NEW committed \in BOOLEAN, NEW t, t = Departed(service, committed),
           committed => service.committed > 0
    PROVE  /\ t \in Service /\ t.active = service.active /\ t.permanent = service.permanent
           /\ ~committed => t = service
           /\ committed => t.committed = service.committed - 1
           /\ committed => t.state =
                IF service.committed = 1 /\ ~service.permanent /\ Running THEN "stopping"
                ELSE service.state
<1>1. CASE ~committed
  BY <1>1 DEF Departed
<1>2. CASE committed
  <2> DEFINE n == service.committed - 1
             left == [service EXCEPT !.committed = n]
  <2>1. n \in Nat /\ service.committed > 0 /\ (n = 0 <=> service.committed = 1)
    BY <1>2 DEF Service
  <2>2. /\ left \in Service /\ left.active = service.active /\ left.permanent = service.permanent
        /\ left.committed = n /\ left.state = service.state
    BY <2>1 DEF Service
  <2>3. t = IF n = 0 /\ ~service.permanent THEN BeginStopping(left, FALSE) ELSE left
    BY <1>2, <2>1 DEF Departed
  <2> HIDE DEF left, n
  <2>4. CASE n = 0 /\ ~service.permanent
    <3>1. t = BeginStopping(left, FALSE)
      BY <2>3, <2>4
    <3>2. /\ t \in Service /\ t.active = left.active /\ t.committed = left.committed
          /\ t.permanent = left.permanent
          /\ t.state = IF left.state = "running" THEN "stopping" ELSE left.state
      BY <2>2, <3>1, BeginStoppingEffect
    <3>3. service.committed = 1 /\ ~service.permanent
      BY <2>1, <2>4
    <3>4. t.state = IF Running THEN "stopping" ELSE service.state
      BY <2>2, <3>2 DEF Running
    <3>5. QED
      BY <1>2, <2>2, <3>2, <3>3, <3>4 DEF n
  <2>5. CASE ~(n = 0 /\ ~service.permanent)
    <3>1. t = left
      BY <2>3, <2>5
    <3>2. ~(service.committed = 1 /\ ~service.permanent)
      BY <2>1, <2>5
    <3>3. QED
      BY <1>2, <2>2, <3>1, <3>2 DEF n
  <2>6. QED
    BY <2>4, <2>5
<1>3. QED
  BY <1>1, <1>2

\* A client leaves: the committed are without it.
LEMMA DisconnectBooks ==
    ASSUME TypeOK, Books, NEW w \in Workers, Disconnect(w)
    PROVE  /\ TypeOK' /\ Books' /\ Members' = Members \ {w}
           /\ worker[w].committed => service.committed > 0
<1> USE Parts, Ranges
<1>1. /\ Alone(w) /\ CallKept(w) /\ worker'[w].after = worker[w].after
      /\ worker'[w].pc = IF worker[w].admitted THEN "release" ELSE worker[w].after
      /\ worker'[w].client = worker[w].client /\ worker'[w].admitted = FALSE
      /\ worker'[w].committed = FALSE /\ worker'[w].opened = worker[w].opened
      /\ worker'[w].cancelled = worker[w].cancelled /\ worker'[w].done = worker[w].done
  BY LeaveTurn
<1>2. /\ worker[w].pc = "disconnect" /\ service' = Departed(service, worker[w].committed)
      /\ UNCHANGED <<coordinator, conn, client, session, accept, host, budget, acked>>
  BY DEF Disconnect, At
<1>3. Station(w) /\ worker[w].after \in {"reject", "loop", "bye", "join"}
      /\ worker[w].committed \in BOOLEAN
  BY DEF Books, Worker
<1>4. ASSUME NEW v \in Workers PROVE Station(v)'
  <2>1. CASE v = w
    BY <1>1, <1>2, <1>3, <2>1 DEF Station, CallKept, Early, Serving, Ending
  <2>2. CASE v # w
    BY <1>1, <1>2, <2>2, StationOther DEF Books, Alone
  <2>3. QED
    BY <2>1, <2>2
<1>5. Active' = Active /\ Pending' = Pending /\ Holders' = Holders
  BY <1>1, <1>2, <1>3 DEF Active, Pending, Holders, InUse, At, Alone
<1>6. Members' = Members \ {w}
  BY <1>1 DEF Members, Alone
<1>7. Budgeted' /\ Distinct' /\ Kept'
  <2>1. \A v \in Workers : /\ worker'[v].client = worker[v].client
                           /\ worker'[v].opened = worker[v].opened
    BY <1>1, <1>2 DEF Alone
  <2>2. Budgeted'
    BY <1>2, <1>5 DEF Books, Budgeted
  <2>3. Distinct'
    BY <2>1 DEF Books, Distinct
  <2>4. Kept'
    BY <1>2, <2>1 DEF Books, Kept
  <2>5. QED
    BY <2>2, <2>3, <2>4
<1>8. Members \in SUBSET Workers /\ IsFiniteSet(Members) /\ Cardinality(Members) \in Nat
      /\ service.committed = Cardinality(Members)
  <2>1. Members \in SUBSET Workers
    BY DEF Members
  <2>2. QED
    BY <2>1, WorkersFinite DEF Finite, Books, Counted
<1>9. worker[w].committed => service.committed > 0 /\ Cardinality(Members') = Cardinality(Members) - 1
  <2>1. SUFFICES ASSUME worker[w].committed
                 PROVE  service.committed > 0 /\ Cardinality(Members') = Cardinality(Members) - 1
    OBVIOUS
  <2>2. w \in Members
    BY <2>1 DEF Members
  <2>3. Cardinality(Members \ {w}) = Cardinality(Members) - 1 /\ Cardinality(Members \ {w}) \in Nat
    BY <1>8, <2>2, FS_RemoveElement, FS_CardinalityType
  <2>4. QED
    BY <1>6, <1>8, <2>3
<1>10. /\ service' \in Service /\ service'.active = service.active
       /\ ~worker[w].committed => service' = service
       /\ worker[w].committed => service'.committed = service.committed - 1
  BY <1>2, <1>3, <1>9, DepartedEffect
<1>11. ~worker[w].committed => Members' = Members
  BY <1>6 DEF Members
<1>12. Counted'
  BY <1>1, <1>2, <1>5, <1>8, <1>9, <1>10, <1>11 DEF Books, Counted, Holders, Alone
<1>13. TypeOK'
  BY <1>1, <1>2, <1>10, <1>12, TypeFromParts DEF Alone
<1>14. QED
  BY <1>4, <1>6, <1>7, <1>9, <1>12, <1>13 DEF Books

----------------------------------------------------------------------------
(* The books are kept while a worker finishes.                             *)

\* Sessions that do not change are kept by who kept them.
LEMMA KeptFrom ==
    ASSUME Books, session' = session,
           \A v \in Workers : /\ worker'[v].client = worker[v].client
                             /\ worker'[v].opened = worker[v].opened
    PROVE  Kept'
<1>1. SUFFICES ASSUME NEW i \in DOMAIN session', session'[i] \in {"open", "cancelled"}
               PROVE  \E v \in Workers : worker'[v].client = i /\ worker'[v].opened
  BY DEF Kept
<1>2. PICK v \in Workers : worker[v].client = i /\ worker[v].opened
  BY <1>1 DEF Books, Kept
<1>3. QED
  BY <1>2

\* The coordinator lets go of a client that no other worker has.
LEMMA ReleaseBooks ==
    ASSUME TypeOK, Books, NEW w \in Workers, Release(w)
    PROVE  TypeOK' /\ Books'
<1> USE Parts, Ranges
<1>0. /\ worker[w].pc = "release" /\ Goto(w, "cancel") /\ "cancel" \in Place
      /\ coordinator' = Without(coordinator, worker[w].client)
      /\ UNCHANGED <<service, conn, client, session, accept, host, budget, acked>>
  BY DEF Release, At, Place
<1>1. /\ Alone(w) /\ CallKept(w) /\ worker'[w].after = worker[w].after /\ worker'[w].pc = "cancel"
      /\ worker'[w].client = worker[w].client /\ worker'[w].admitted = worker[w].admitted
      /\ worker'[w].committed = worker[w].committed /\ worker'[w].opened = worker[w].opened
      /\ worker'[w].cancelled = worker[w].cancelled /\ worker'[w].done = worker[w].done
  BY <1>0, GotoTurn DEF Core
<1>2. Station(w) /\ worker[w].client # 0 /\ ~worker[w].admitted
  BY <1>0 DEF Books, Station, Early, Ending, Serving
<1>3. /\ coordinator' \in Coordinator /\ coordinator'.last = coordinator.last
      /\ coordinator'.clients = coordinator.clients \ {worker[w].client}
  BY <1>0 DEF Without, Coordinator
<1>4. ASSUME NEW v \in Workers PROVE Station(v)'
  <2>1. CASE v = w
    BY <1>0, <1>1, <1>2, <1>3, <2>1 DEF Station, CallKept, Early, Serving, Ending
  <2>2. CASE v # w
    BY <1>0, <1>1, <1>3, <2>2, StationOther DEF Books, Alone
  <2>3. QED
    BY <2>1, <2>2
<1>5. Active' = Active /\ Pending' = Pending /\ Members' = Members /\ Holders' = Holders \ {w}
      /\ w \in Holders
  BY <1>0, <1>1, <1>2 DEF Active, Pending, Members, Holders, InUse, At, Alone
<1>6. Budgeted' /\ Distinct' /\ Kept'
  BY <1>0, <1>1, <1>3, <1>5 DEF Books, Budgeted, Distinct, Kept, Alone
<1>7. Counted'
  <2>1. Holders \subseteq Workers
    BY DEF Holders
  <2>2. \A v \in Holders \ {w} : worker[v].client # worker[w].client
    BY <1>2, <2>1 DEF Books, Distinct
  <2>3. {worker'[v].client : v \in Holders'} = {worker[v].client : v \in Holders} \ {worker[w].client}
    BY <1>1, <1>5, <2>1, <2>2 DEF Alone
  <2>4. QED
    BY <1>0, <1>3, <1>5, <2>3 DEF Books, Counted
<1>8. TypeOK'
  BY <1>0, <1>1, <1>3, <1>7, TypeFromParts DEF Alone
<1>9. QED
  BY <1>4, <1>6, <1>7, <1>8 DEF Books

\* A session is told that it is cancelled.
LEMMA CancelBooks ==
    ASSUME TypeOK, Books, NEW w \in Workers, CancelSession(w)
    PROVE  TypeOK' /\ Books'
<1> USE Parts, Ranges
<1>0. /\ worker[w].pc = "cancel"
      /\ service' = IF coordinator.state = "stopping" THEN BeginStopping(service, FALSE) ELSE service
      /\ UNCHANGED <<coordinator, conn, client, accept, host, budget, acked>>
  BY DEF CancelSession, At
<1>1. /\ Alone(w) /\ CallKept(w) /\ worker'[w].after = worker[w].after
      /\ worker'[w].pc = worker[w].after
      /\ worker'[w].client = worker[w].client /\ worker'[w].admitted = worker[w].admitted
      /\ worker'[w].committed = worker[w].committed /\ worker'[w].opened = worker[w].opened
      /\ worker'[w].cancelled = (worker[w].cancelled \/ worker[w].opened)
      /\ worker'[w].done = worker[w].done
  BY ToldTurn
<1>2. Station(w) /\ worker[w].client # 0 /\ ~worker[w].admitted /\ ~worker[w].cancelled
      /\ worker[w].after \in {"reject", "loop", "bye", "join"}
  BY <1>0 DEF Books, Station, Early, Ending, Serving, Worker
<1>3. service' \in Service /\ service'.active = service.active /\ service'.committed = service.committed
  BY <1>0, BeginStoppingEffect
<1>4. session' = IF worker[w].opened THEN [session EXCEPT ![worker[w].client] = "cancelled"] ELSE session
  BY <1>2 DEF CancelSession
<1>5. /\ session' \in Seq(SessionState) /\ Len(session') = Len(session)
      /\ DOMAIN session' = DOMAIN session
      /\ worker[w].opened => session'[worker[w].client] = "cancelled"
      /\ ~worker[w].opened => session' = session
      /\ \A i \in DOMAIN session : i # worker[w].client => session'[i] = session[i]
      /\ \A v \in Workers \ {w} : worker[v].opened =>
            session'[worker[v].client] = session[worker[v].client]
  <2>1. CASE worker[w].opened
    BY <1>2, <1>4, <2>1, SessionPut DEF SessionState
  <2>2. CASE ~worker[w].opened
    BY <1>4, <2>2
  <2>3. QED
    BY <2>1, <2>2
<1>6. ASSUME NEW v \in Workers PROVE Station(v)'
  <2>1. CASE v = w
    BY <1>0, <1>1, <1>2, <1>5, <2>1 DEF Station, CallKept, Early, Serving, Ending
  <2>2. CASE v # w
    BY <1>0, <1>1, <1>5, <2>2, StationOther DEF Books, Alone
  <2>3. QED
    BY <2>1, <2>2
<1>7. Active' = Active /\ Pending' = Pending /\ Holders' = Holders /\ Members' = Members
  BY <1>0, <1>1, <1>2, SameStanding DEF Members, Alone
<1>8. Budgeted' /\ Distinct'
  BY <1>0, <1>1, <1>7 DEF Books, Budgeted, Distinct, Alone
<1>9. Kept'
  <2>1. SUFFICES ASSUME NEW i \in DOMAIN session', session'[i] \in {"open", "cancelled"}
                 PROVE  \E v \in Workers : worker'[v].client = i /\ worker'[v].opened
    BY DEF Kept
  <2>2. CASE i = worker[w].client /\ worker[w].opened
    BY <1>1, <2>2
  <2>3. CASE ~(i = worker[w].client /\ worker[w].opened)
    <3>1. i \in DOMAIN session /\ session[i] \in {"open", "cancelled"}
      BY <1>5, <2>1, <2>3
    <3>2. PICK v \in Workers : worker[v].client = i /\ worker[v].opened
      BY <3>1 DEF Books, Kept
    <3>3. v # w
      BY <2>3, <3>2
    <3>4. QED
      BY <1>1, <3>2, <3>3 DEF Alone
  <2>4. QED
    BY <2>2, <2>3
<1>10. Counted'
  <2>1. Holders \subseteq Workers
    BY DEF Holders
  <2>2. {worker'[v].client : v \in Holders'} = {worker[v].client : v \in Holders}
    BY <1>1, <1>7, <2>1 DEF Alone
  <2>3. QED
    BY <1>0, <1>3, <1>7, <2>2 DEF Books, Counted
<1>11. TypeOK'
  BY <1>0, <1>1, <1>3, <1>5, <1>10, TypeFromParts DEF Alone
<1>12. QED
  BY <1>6, <1>8, <1>9, <1>10, <1>11 DEF Books

\* A session is closed, and no other.
LEMMA CloseBooks ==
    ASSUME TypeOK, Books, NEW w \in Workers, CloseSession(w)
    PROVE  TypeOK' /\ Books'
<1> USE Parts, Ranges
<1>0. /\ worker[w].pc = "join"
      /\ session' = IF worker[w].opened THEN [session EXCEPT ![worker[w].client] = "closed"] ELSE session
      /\ UNCHANGED <<service, coordinator, conn, client, accept, host, budget, acked>>
  BY DEF CloseSession, At
<1>1. /\ Alone(w) /\ worker'[w].app = "none"
      /\ worker'[w].after = worker[w].after /\ worker'[w].pc = "account"
      /\ worker'[w].client = worker[w].client /\ worker'[w].admitted = worker[w].admitted
      /\ worker'[w].committed = worker[w].committed /\ worker'[w].opened = FALSE
      /\ worker'[w].cancelled = worker[w].cancelled /\ worker'[w].done = worker[w].done
  BY CloseTurn
<1>2. Station(w) /\ (worker[w].opened => worker[w].client # 0) /\ ~worker[w].admitted
  BY <1>0 DEF Books, Station, Serving
<1>3. /\ session' \in Seq(SessionState) /\ Len(session') = Len(session)
      /\ DOMAIN session' = DOMAIN session
      /\ worker[w].opened => session'[worker[w].client] = "closed"
      /\ ~worker[w].opened => session' = session
      /\ \A i \in DOMAIN session : i # worker[w].client => session'[i] = session[i]
      /\ \A v \in Workers \ {w} : worker[v].opened =>
            session'[worker[v].client] = session[worker[v].client]
  <2>1. CASE worker[w].opened
    BY <1>0, <1>2, <2>1, SessionPut DEF SessionState
  <2>2. CASE ~worker[w].opened
    BY <1>0, <2>2
  <2>3. QED
    BY <2>1, <2>2
<1>4. ASSUME NEW v \in Workers PROVE Station(v)'
  <2>1. CASE v = w
    BY <1>0, <1>1, <1>2, <1>3, <2>1 DEF Station, Early, Serving, Ending
  <2>2. CASE v # w
    BY <1>0, <1>1, <1>3, <2>2, StationOther DEF Books, Alone
  <2>3. QED
    BY <2>1, <2>2
<1>5. Active' = Active /\ Pending' = Pending /\ Holders' = Holders /\ Members' = Members
  BY <1>0, <1>1, <1>2, SameStanding DEF Members, Alone
<1>6. Budgeted' /\ Distinct'
  BY <1>0, <1>1, <1>5 DEF Books, Budgeted, Distinct, Alone
<1>7. Kept'
  <2>1. SUFFICES ASSUME NEW i \in DOMAIN session', session'[i] \in {"open", "cancelled"}
                 PROVE  \E v \in Workers : worker'[v].client = i /\ worker'[v].opened
    BY DEF Kept
  <2>2. i \in DOMAIN session /\ session[i] \in {"open", "cancelled"}
        /\ ~(i = worker[w].client /\ worker[w].opened)
    BY <1>3, <2>1
  <2>3. PICK v \in Workers : worker[v].client = i /\ worker[v].opened
    BY <2>2 DEF Books, Kept
  <2>4. v # w
    BY <2>2, <2>3
  <2>5. QED
    BY <1>1, <2>3, <2>4 DEF Alone
<1>8. Counted'
  BY <1>0, <1>1, <1>5 DEF Books, Counted, Holders, Alone
<1>9. TypeOK'
  BY <1>0, <1>1, <1>3, <1>8, TypeFromParts DEF Alone
<1>10. QED
  BY <1>4, <1>6, <1>7, <1>8, <1>9 DEF Books

\* A worker is counted out.
LEMMA AccountBooks ==
    ASSUME TypeOK, Books, NEW w \in Workers, Account(w)
    PROVE  /\ TypeOK' /\ Books'
           /\ service'.active <= service.active /\ service'.state = service.state
           /\ service'.permanent = service.permanent /\ Members' = Members
           /\ service'.activation = service.activation
<1> USE Parts, Ranges
<1>0. /\ worker[w].pc = "account"
      /\ conn' = [conn EXCEPT ![w].open = FALSE, ![w].up = FALSE, ![w].in = <<>>]
      /\ service' = [service EXCEPT !.active = IF @ > 0 THEN @ - 1 ELSE @]
      /\ UNCHANGED <<coordinator, client, session, accept, host, budget, acked>>
  BY DEF Account, At
<1>1. /\ Alone(w) /\ CallKept(w) /\ worker'[w].after = worker[w].after
      /\ worker'[w].pc \in {"tail", "returned"}
      /\ worker'[w].client = worker[w].client /\ worker'[w].admitted = worker[w].admitted
      /\ worker'[w].committed = worker[w].committed /\ worker'[w].opened = worker[w].opened
      /\ worker'[w].cancelled = worker[w].cancelled /\ worker'[w].done = TRUE
  BY AccountTurn
<1>2. /\ conn' \in [Workers -> Conn] /\ ~conn'[w].open /\ ~conn'[w].up
      /\ \A v \in Workers \ {w} : conn'[v] = conn[v]
  <2> DEFINE k == [conn[w] EXCEPT !.open = FALSE, !.up = FALSE, !.in = <<>>]
  <2>0. <<>> \in Seq(Frame) /\ conn[w] \in Conn
    OBVIOUS
  <2>1. k \in Conn /\ ~k.open /\ ~k.up
    BY <2>0 DEF Conn
  <2>2. conn' = [conn EXCEPT ![w] = k]
    BY <1>0
  <2> HIDE DEF k
  <2>3. QED
    BY <2>1, <2>2
<1>3. Station(w) /\ ~worker[w].opened /\ ~worker[w].admitted /\ ~worker[w].done
  BY <1>0 DEF Books, Station, Serving, Ending
<1>4. ASSUME NEW v \in Workers PROVE Station(v)'
  <2>1. CASE v = w
    BY <1>0, <1>1, <1>2, <1>3, <2>1 DEF Station, CallKept, Early, Serving, Ending
  <2>2. CASE v # w
    <3>1. worker'[v] = worker[v] /\ conn'[v] = conn[v] /\ UNCHANGED <<client, coordinator, session>>
      BY <1>0, <1>1, <1>2, <2>2 DEF Alone
    <3>2. QED
      BY <3>1, StationOther DEF Books
  <2>3. QED
    BY <2>1, <2>2
<1>5. Active' = Active \ {w} /\ w \in Active /\ Pending' = Pending /\ Holders' = Holders
      /\ Members' = Members
  BY <1>0, <1>1, <1>3 DEF Active, Pending, Members, Holders, InUse, At, Alone
<1>6. Budgeted' /\ Distinct' /\ Kept'
  <2>1. \A v \in Workers : /\ worker'[v].client = worker[v].client
                           /\ worker'[v].opened = worker[v].opened
    BY <1>1 DEF Alone
  <2>2. Budgeted'
    BY <1>0, <1>5 DEF Books, Budgeted
  <2>3. Distinct'
    BY <2>1 DEF Books, Distinct
  <2>4. Kept'
    BY <1>0, <2>1, KeptFrom
  <2>5. QED
    BY <2>2, <2>3, <2>4
<1>7. /\ service.active = Cardinality(Active) /\ service.active > 0
      /\ Cardinality(Active \ {w}) = service.active - 1
  <2>1. Active \in SUBSET Workers
    BY DEF Active
  <2>2. IsFiniteSet(Active) /\ Cardinality(Active) \in Nat
    BY <2>1, WorkersFinite DEF Finite
  <2>3. Cardinality(Active \ {w}) = Cardinality(Active) - 1 /\ Cardinality(Active \ {w}) \in Nat
    BY <1>5, <2>2, FS_RemoveElement, FS_CardinalityType
  <2>4. QED
    BY <2>2, <2>3 DEF Books, Counted
<1>8. /\ service' \in Service /\ service'.active = service.active - 1
      /\ service'.committed = service.committed /\ service'.state = service.state
      /\ service'.permanent = service.permanent /\ service'.activation = service.activation
  <2>1. service.active \in Nat /\ service.active - 1 \in Nat
    BY <1>7 DEF Service
  <2>2. service' = [service EXCEPT !.active = service.active - 1]
    BY <1>0, <1>7
  <2>3. QED
    BY <2>1, <2>2 DEF Service
<1>9. Counted'
  <2>1. Holders \subseteq Workers
    BY DEF Holders
  <2>2. {worker'[v].client : v \in Holders'} = {worker[v].client : v \in Holders}
    BY SMTT(30), <1>1, <1>5, <2>1 DEF Alone
  <2>3. QED
    BY <1>0, <1>5, <1>7, <1>8, <2>2 DEF Books, Counted
<1>10. TypeOK'
  BY <1>0, <1>1, <1>2, <1>8, <1>9, TypeFromParts DEF Alone
<1>11. service'.active <= service.active
  BY <1>8 DEF Service
<1>12. QED
  BY <1>4, <1>5, <1>6, <1>8, <1>9, <1>10, <1>11 DEF Books

----------------------------------------------------------------------------
(* The books are kept by the accept loop and the host.                     *)

\* Slots that are blank: whoever was in them had returned.
LEMMA BlankTypes ==
    /\ Blank \in Worker /\ NoConn \in Conn /\ NoClient \in Client
    /\ [Blank EXCEPT !.pc = "first"] \in Worker
<1>1. <<>> \in Seq(Frame) /\ <<>> \in Seq(Reply)
  OBVIOUS
<1>2. Blank \in Worker
  BY DEF Blank, Worker, Place, Token
<1>3. NoConn \in Conn
  BY <1>1 DEF NoConn, Conn
<1>4. NoClient \in Client
  BY DEF NoClient, Client, Kind, Token
<1>5. [Blank EXCEPT !.pc = "first"] \in Worker
  BY <1>2 DEF Worker, Place
<1>6. QED
  BY <1>2, <1>3, <1>4, <1>5

\* A slot with nothing in it.
BlankFields(r) ==
    /\ r.client = 0 /\ ~r.admitted /\ ~r.committed /\ ~r.opened /\ ~r.cancelled /\ ~r.owner
    /\ ~r.done /\ r.app = "none" /\ ~r.appDone
\* A free slot has nothing in it.
LEMMA BlankIsBlank ==
    /\ BlankFields(Blank) /\ Blank.pc = "free" /\ Blank.after = "join"
    /\ LET f == [Blank EXCEPT !.pc = "first"] IN BlankFields(f) /\ f.pc = "first"
<1>1. BlankFields(Blank) /\ Blank.pc = "free" /\ Blank.after = "join"
  BY DEF Blank, BlankFields
<1>2. LET f == [Blank EXCEPT !.pc = "first"] IN BlankFields(f) /\ f.pc = "first"
  BY DEF Blank, BlankFields
<1>3. QED
  BY <1>1, <1>2

\* Slots R of returned workers are given back.
LEMMA GivenBack ==
    ASSUME TypeOK, Books, NEW R \in SUBSET Workers,
           \A w \in R : worker[w].pc = "returned",
           worker' = [w \in Workers |-> IF w \in R THEN Blank ELSE worker[w]],
           conn' \in [Workers -> Conn], client' \in [Workers -> Client],
           \A w \in Workers : conn'[w] = conn[w] \/ (w \in R /\ ~conn'[w].open /\ ~conn'[w].up),
           \A w \in Workers \ R : client'[w] = client[w],
           service' = service, coordinator' = coordinator, session' = session, accept' = accept,
           host' \in {"waiting", "stopping", "freed", "terminated"},
           budget' = budget, acked' = acked
    PROVE  TypeOK' /\ Books' /\ Members' = Members
<1> USE Parts, Ranges
<1>1. /\ worker' \in [Workers -> Worker]
      /\ \A w \in R : BlankFields(worker'[w]) /\ worker'[w].pc = "free" /\ worker'[w].after = "join"
      /\ \A w \in Workers \ R : worker'[w] = worker[w]
  BY BlankTypes, BlankIsBlank
<1>2. \A w \in R : /\ ~worker[w].opened /\ ~worker[w].admitted /\ ~worker[w].committed
                   /\ worker[w].done /\ ~conn[w].open /\ ~conn[w].up
  BY DEF Books, Station, Ending, Serving
<1>3. ASSUME NEW v \in Workers PROVE Station(v)'
  <2>1. CASE v \in R
    <3>1. ~conn'[v].open /\ ~conn'[v].up /\ coordinator'.last \in Nat
      BY <1>2, <2>1
    <3>2. BlankFields(worker'[v]) /\ worker'[v].pc = "free" /\ worker'[v].after = "join"
      BY <1>1, <2>1
    <3>3. QED
      BY <3>1, <3>2 DEF Station, BlankFields, Early, Serving, Ending
  <2>2. CASE v \notin R
    <3>1. worker'[v] = worker[v] /\ conn'[v] = conn[v] /\ client'[v] = client[v]
          /\ UNCHANGED <<coordinator, session>>
      BY <1>1, <2>2
    <3>2. QED
      BY <3>1, StationOther DEF Books
  <2>3. QED
    BY <2>1, <2>2
<1>4. Active' = Active /\ Pending' = Pending /\ Holders' = Holders /\ Members' = Members
  <2>1. \A v \in R : /\ ~worker'[v].committed /\ ~worker'[v].admitted /\ worker'[v].pc = "free"
                     /\ ~worker[v].committed /\ ~worker[v].admitted /\ worker[v].done
                     /\ worker[v].pc = "returned"
    BY <1>1, <1>2 DEF BlankFields
  <2>2. \A v \in Workers \ R : worker'[v] = worker[v] /\ client'[v] = client[v]
    BY <1>1
  <2>3. Active' = Active
    BY <2>1, <2>2 DEF Active, InUse
  <2>4. Pending' = Pending
    <3>1. \A v \in Workers : v \in Pending' <=> v \in Pending
      BY <2>1, <2>2 DEF Pending
    <3>2. Pending' \subseteq Workers /\ Pending \subseteq Workers
      BY DEF Pending
    <3>3. QED
      BY <3>1, <3>2
  <2>5. Holders' = Holders
    BY <2>1, <2>2 DEF Holders, At
  <2>6. Members' = Members
    BY <2>1, <2>2 DEF Members
  <2>7. QED
    BY <2>3, <2>4, <2>5, <2>6
<1>5. Budgeted'
  BY <1>4 DEF Books, Budgeted
<1>6. Distinct'
  <2>1. \A v \in Workers : worker'[v].client = 0 \/ worker'[v].client = worker[v].client
    BY <1>1 DEF BlankFields
  <2>2. QED
    BY <2>1 DEF Books, Distinct
<1>7. Kept'
  <2>1. SUFFICES ASSUME NEW i \in DOMAIN session', session'[i] \in {"open", "cancelled"}
                 PROVE  \E v \in Workers : worker'[v].client = i /\ worker'[v].opened
    BY DEF Kept
  <2>2. PICK v \in Workers : worker[v].client = i /\ worker[v].opened
    BY <2>1 DEF Books, Kept
  <2>3. QED
    BY <1>1, <1>2, <2>2
<1>8. Counted'
  <2>1. \A v \in Holders : worker'[v] = worker[v]
    <3>1. \A v \in Holders : v \in Workers /\ v \notin R
      BY <1>2 DEF Holders, At
    <3>2. QED
      BY <1>1, <3>1
  <2>2. {worker'[v].client : v \in Holders'} = {worker[v].client : v \in Holders}
    <3>1. Holders' = Holders
      BY <1>4
    <3>2. \A v \in Holders : worker'[v].client = worker[v].client
      BY <2>1
    <3>3. QED
      BY ONLY <3>1, <3>2
  <2>3. QED
    BY <1>4, <2>2 DEF Books, Counted
<1>9. TypeOK'
  BY <1>1, <1>8, TypeFromParts
<1>10. QED
  BY <1>3, <1>4, <1>5, <1>6, <1>7, <1>8, <1>9 DEF Books

\* The accept loop gives a slot back.
LEMMA ReapBooks ==
    ASSUME TypeOK, Books, NEW w \in Workers, Reap(w)
    PROVE  TypeOK' /\ Books' /\ Members' = Members
<1> USE Parts
<1>1. /\ worker[w].pc = "returned" /\ worker' = [worker EXCEPT ![w] = Blank]
      /\ conn' = [conn EXCEPT ![w] = NoConn] /\ client' = [client EXCEPT ![w] = NoClient]
      /\ UNCHANGED <<service, coordinator, session, accept, host, budget, acked>>
  BY DEF Reap, At
<1>2. worker' = [v \in Workers |-> IF v \in {w} THEN Blank ELSE worker[v]]
  BY <1>1
<1>3. /\ conn' \in [Workers -> Conn] /\ client' \in [Workers -> Client]
      /\ \A v \in Workers \ {w} : conn'[v] = conn[v] /\ client'[v] = client[v]
      /\ ~conn'[w].open /\ ~conn'[w].up
  BY <1>1, BlankTypes DEF NoConn
<1>4. QED
  <2>1. \A v \in {w} : worker[v].pc = "returned"
    BY <1>1
  <2>2. /\ \A v \in Workers : conn'[v] = conn[v] \/ (v \in {w} /\ ~conn'[v].open /\ ~conn'[v].up)
        /\ \A v \in Workers \ {w} : client'[v] = client[v]
    BY <1>3
  <2>3. /\ service' = service /\ coordinator' = coordinator /\ session' = session
        /\ accept' = accept /\ budget' = budget /\ acked' = acked
        /\ host' \in {"waiting", "stopping", "freed", "terminated"}
    BY <1>1
  <2>4. QED
    BY <1>2, <1>3, <2>1, <2>2, <2>3, GivenBack

\* The host gives every returned slot back.
LEMMA FreesBooks ==
    ASSUME TypeOK, Books, HostFrees
    PROVE  TypeOK' /\ Books' /\ Members' = Members
<1> USE Parts
<1> DEFINE R == {w \in Workers : worker[w].pc = "returned"}
<1>1. /\ worker' = [v \in Workers |-> IF v \in R THEN Blank ELSE worker[v]]
      /\ UNCHANGED <<service, coordinator, conn, client, session, accept, budget, acked>>
      /\ host' \in {"freed", "terminated"}
  BY DEF HostFrees, HostFrame, At
<1>2. R \in SUBSET Workers /\ \A w \in R : worker[w].pc = "returned"
  OBVIOUS
<1> HIDE DEF R
<1>3. QED
  BY <1>1, <1>2, GivenBack

\* A connection takes the first free slot.
LEMMA AcceptBooks ==
    ASSUME TypeOK, Books, NEW w \in Workers, NEW kind \in Kind, Accept(w, kind)
    PROVE  /\ TypeOK' /\ Books' /\ Members' = Members
           /\ service'.state = service.state /\ service'.permanent = service.permanent
           /\ service'.activation = service.activation
<1> USE Parts, Ranges
<1> DEFINE b == [budget EXCEPT ![kind] = @ - 1]
           k == [NoConn EXCEPT !.open = TRUE, !.up = TRUE, !.in = <<[op |-> "hello", token |-> 0]>>]
           d == [NoClient EXCEPT !.kind = kind, !.pc = "hello"]
           r == [Blank EXCEPT !.pc = "first"]
<1>0. /\ worker[w].pc = "free" /\ worker' = [worker EXCEPT ![w] = r]
      /\ conn' = [conn EXCEPT ![w] = k] /\ client' = [client EXCEPT ![w] = d]
      /\ budget' = b /\ budget[kind] > 0
      /\ service' = [service EXCEPT !.active = @ + 1]
      /\ UNCHANGED <<coordinator, session, accept, host, acked>>
  BY DEF Accept, FreeSlots, InUse
<1>1. r \in Worker /\ BlankFields(r) /\ r.pc = "first"
  BY BlankTypes, BlankIsBlank
<1>2. k \in Conn /\ k.open
  <2>1. [op |-> "hello", token |-> 0] \in Frame
    BY DEF Frame, Token
  <2>2. <<[op |-> "hello", token |-> 0]>> \in Seq(Frame)
    BY <2>1
  <2>3. QED
    BY <2>2, BlankTypes DEF Conn
<1>3. d \in Client /\ d.kind = kind
  BY BlankTypes DEF Client
<1>4. /\ b \in Allowed /\ b.session \in Nat
      /\ kind = "session" => b.session = budget.session - 1
      /\ kind # "session" => b.session = budget.session
  <2>1. CASE kind = "session"
    <3>1. b = [budget EXCEPT !.session = budget.session - 1]
      BY <2>1
    <3>2. budget.session \in Nat /\ budget.session > 0 /\ budget.session - 1 \in Nat
      BY <1>0, <2>1 DEF Allowed
    <3>3. QED
      BY <2>1, <3>1, <3>2 DEF Allowed
  <2>2. CASE kind = "activation"
    <3>1. b = [budget EXCEPT !.activation = budget.activation - 1]
      BY <2>2
    <3>2. budget.activation \in Nat /\ budget.activation > 0 /\ budget.activation - 1 \in Nat
      BY <1>0, <2>2 DEF Allowed
    <3>3. QED
      BY <2>2, <3>1, <3>2 DEF Allowed
  <2>3. CASE kind = "stop"
    <3>1. b = [budget EXCEPT !.stop = budget.stop - 1]
      BY <2>3
    <3>2. budget.stop \in Nat /\ budget.stop > 0 /\ budget.stop - 1 \in Nat
      BY <1>0, <2>3 DEF Allowed
    <3>3. QED
      BY <2>3, <3>1, <3>2 DEF Allowed
  <2>4. QED
    BY <2>1, <2>2, <2>3 DEF Kind
<1>5. /\ service' \in Service /\ service'.active = service.active + 1
      /\ service'.committed = service.committed /\ service'.state = service.state
      /\ service'.permanent = service.permanent /\ service'.activation = service.activation
  BY SMTT(30), <1>0 DEF Service
<1> HIDE DEF b, k, d, r
<1>6. /\ worker' \in [Workers -> Worker] /\ worker'[w] = r
      /\ conn' \in [Workers -> Conn] /\ conn'[w] = k
      /\ client' \in [Workers -> Client] /\ client'[w] = d
      /\ \A v \in Workers \ {w} :
            worker'[v] = worker[v] /\ conn'[v] = conn[v] /\ client'[v] = client[v]
  BY <1>0, <1>1, <1>2, <1>3
<1>7. Station(w) /\ worker[w].client = 0 /\ ~worker[w].opened /\ ~worker[w].admitted
      /\ ~worker[w].committed
  BY <1>0 DEF Books, Station, Early
<1>8. ASSUME NEW v \in Workers PROVE Station(v)'
  <2>1. CASE v = w
    BY <1>0, <1>1, <1>2, <1>6, <2>1 DEF Station, BlankFields, Early, Serving, Ending
  <2>2. CASE v # w
    <3>1. worker'[v] = worker[v] /\ conn'[v] = conn[v] /\ client'[v] = client[v]
          /\ UNCHANGED <<coordinator, session>>
      BY <1>0, <1>6, <2>2
    <3>2. QED
      BY <3>1, StationOther DEF Books
  <2>3. QED
    BY <2>1, <2>2
<1>9. /\ Active' = Active \cup {w} /\ w \notin Active /\ Holders' = Holders /\ Members' = Members
      /\ w \notin Pending
      /\ Pending' = IF kind = "session" THEN Pending \cup {w} ELSE Pending
  BY <1>0, <1>1, <1>3, <1>6, <1>7 DEF Active, Holders, Members, Pending, InUse, At, BlankFields
<1>10. /\ Cardinality(Active \cup {w}) = Cardinality(Active) + 1
       /\ Cardinality(Pending \cup {w}) = Cardinality(Pending) + 1
       /\ Cardinality(Pending) \in Nat
  <2>1. Active \in SUBSET Workers /\ Pending \in SUBSET Workers
    BY DEF Active, Pending
  <2>2. QED
    BY <1>9, <2>1, WorkersFinite, FS_AddElement DEF Finite
<1>11. Budgeted'
  BY <1>0, <1>4, <1>9, <1>10 DEF Books, Budgeted
<1>12. Distinct'
  BY <1>1, <1>6, <1>7 DEF Books, Distinct, BlankFields
<1>13. Kept'
  <2>1. SUFFICES ASSUME NEW i \in DOMAIN session', session'[i] \in {"open", "cancelled"}
                 PROVE  \E v \in Workers : worker'[v].client = i /\ worker'[v].opened
    BY DEF Kept
  <2>2. PICK v \in Workers : worker[v].client = i /\ worker[v].opened
    BY <1>0, <2>1 DEF Books, Kept
  <2>3. QED
    BY <1>6, <1>7, <2>2
<1>14. Counted'
  <2>1. \A v \in Holders : worker'[v] = worker[v]
    BY <1>0, <1>6, <1>7 DEF Holders, At
  <2>2. {worker'[v].client : v \in Holders'} = {worker[v].client : v \in Holders}
    BY <1>9, <2>1
  <2>3. QED
    BY <1>0, <1>5, <1>9, <1>10, <2>2 DEF Books, Counted
<1>15. TypeOK'
  BY <1>0, <1>4, <1>5, <1>6, <1>14, TypeFromParts
<1>16. QED
  BY <1>5, <1>8, <1>9, <1>11, <1>12, <1>13, <1>14, <1>15 DEF Books

----------------------------------------------------------------------------
(* Requests and answers.                                                   *)

\* What is left of a queue when its head is taken.
LEMMA TailFits ==
    ASSUME NEW S, NEW s \in Seq(S), s # <<>>, NEW op, NEW t
    PROVE  /\ Fits(s, op, t) => Fits(Tail(s), op, t)
           /\ Lacks(s, op) => Lacks(Tail(s), op)
           /\ Fits(s, op, t) /\ Head(s).op = op => Head(s).token = t /\ Lacks(Tail(s), op)
<1>1. /\ Tail(s) \in Seq(S) /\ Len(Tail(s)) = Len(s) - 1 /\ Len(s) \in Nat \ {0}
      /\ \A i \in 1..Len(Tail(s)) : Tail(s)[i] = s[i + 1]
  BY HeadTailProperties, EmptySeq
<1>2. DOMAIN s = 1..Len(s) /\ DOMAIN Tail(s) = 1..Len(Tail(s))
  BY <1>1, LenProperties
<1>3. 1 \in DOMAIN s /\ Head(s) = s[1]
  BY <1>1, <1>2
<1>4. \A i \in DOMAIN Tail(s) : i \in Nat /\ i + 1 \in DOMAIN s /\ Tail(s)[i] = s[i + 1] /\ i + 1 # 1
  BY <1>1, <1>2
<1>5. Lacks(s, op) => Lacks(Tail(s), op)
  BY <1>4 DEF Lacks
<1>6. ASSUME Fits(s, op, t) PROVE Fits(Tail(s), op, t)
  <2>1. SUFFICES ASSUME NEW i \in DOMAIN Tail(s), Tail(s)[i].op = op
                 PROVE  /\ Tail(s)[i].token = t
                        /\ \A j \in DOMAIN Tail(s) : Tail(s)[j].op = op => i = j
    BY DEF Fits
  <2>2. i + 1 \in DOMAIN s /\ s[i + 1].op = op /\ Tail(s)[i] = s[i + 1]
    BY <1>4, <2>1
  <2>3. ASSUME NEW j \in DOMAIN Tail(s), Tail(s)[j].op = op PROVE i = j
    <3>1. j + 1 \in DOMAIN s /\ s[j + 1].op = op
      BY <1>4, <2>3
    <3>2. i + 1 = j + 1
      BY <1>6, <2>2, <3>1 DEF Fits
    <3>3. QED
      BY <1>4, <3>2
  <2>4. QED
    BY <1>6, <2>2, <2>3 DEF Fits
<1>7. ASSUME Fits(s, op, t), Head(s).op = op PROVE Head(s).token = t /\ Lacks(Tail(s), op)
  <2>1. s[1].token = t
    BY <1>3, <1>7 DEF Fits
  <2>2. ASSUME NEW i \in DOMAIN Tail(s) PROVE Tail(s)[i].op # op
    BY <1>3, <1>4, <1>7 DEF Fits
  <2>3. QED
    BY <1>3, <2>1, <2>2 DEF Lacks
<1>8. QED
  BY <1>5, <1>6, <1>7

\* What a queue is when a word is added.
LEMMA AppendFits ==
    ASSUME NEW S, NEW s \in Seq(S), NEW m \in S, NEW op, NEW t, NEW z, z = Append(s, m)
    PROVE  /\ m.op # op => (Fits(s, op, t) => Fits(z, op, t))
           /\ m.op # op => (Lacks(s, op) => Lacks(z, op))
           /\ m.token = t /\ Lacks(s, op) => Fits(z, op, t)
<1>1. /\ DOMAIN s = 1..Len(s) /\ Len(s) \in Nat
      /\ DOMAIN z = 1..Len(s) + 1 /\ z[Len(s) + 1] = m
      /\ \A i \in DOMAIN s : z[i] = s[i]
  OBVIOUS
<1>2. \A i \in DOMAIN z : (i \in DOMAIN s /\ z[i] = s[i]) \/ (i = Len(s) + 1 /\ z[i] = m)
  BY <1>1
<1>3. m.op # op => (Lacks(s, op) => Lacks(z, op))
  BY <1>2 DEF Lacks
<1>4. ASSUME m.op # op, Fits(s, op, t) PROVE Fits(z, op, t)
  BY <1>2, <1>4 DEF Fits
<1>5. ASSUME m.token = t, Lacks(s, op) PROVE Fits(z, op, t)
  BY <1>2, <1>5 DEF Fits, Lacks
<1>6. QED
  BY <1>3, <1>4, <1>5

\* A queue without such words is in order.
LEMMA LacksFits ==
    ASSUME NEW s, NEW op, NEW t, Lacks(s, op)
    PROVE  Fits(s, op, t)
BY DEF Fits, Lacks

\* An empty queue has no words.
LEMMA EmptyLacks ==
    ASSUME NEW op
    PROVE  Lacks(<<>>, op)
BY DEF Lacks

\* Nothing is asked, begun or answered: frames may be taken and other words said.
LEMMA PeerQuiet ==
    ASSUME conn \in [Workers -> Conn], NEW w \in Workers, Peer(w),
           client'[w] = client[w], Hears(w) \/ conn'[w].in = <<>>, Dully(w),
           CallKept(w) \/ (worker'[w].app = "none" /\ ~worker'[w].appDone)
    PROVE  Peer(w)'
<1> DEFINE in == conn[w].in
           out == conn[w].out
           t == client[w].token
<1>1. in \in Seq(Frame) /\ out \in Seq(Reply)
  BY DEF Conn
<1>2. /\ Fits(in, "request", t) => Fits(conn'[w].in, "request", t)
      /\ Lacks(in, "request") => Lacks(conn'[w].in, "request")
  <2>1. CASE conn'[w].in = in
    BY <2>1
  <2>2. CASE in # <<>> /\ conn'[w].in = Tail(in)
    <3> HIDE DEF in, t
    <3>1. QED
      BY <1>1, <2>2, TailFits
  <2>3. CASE conn'[w].in = <<>>
    BY <2>3, EmptyLacks, LacksFits
  <2>4. QED
    BY <2>1, <2>2, <2>3 DEF Hears
<1>3. /\ Fits(out, "answer", t) => Fits(conn'[w].out, "answer", t)
      /\ Lacks(out, "answer") => Lacks(conn'[w].out, "answer")
      /\ Lacks(out, "busy") => Lacks(conn'[w].out, "busy")
  <2>1. CASE Mute(w)
    BY <2>1 DEF Mute
  <2>2. CASE \E m \in Reply : m.op \notin {"answer", "busy"} /\ conn'[w].out = Append(out, m)
    <3>1. PICK m \in Reply : m.op \notin {"answer", "busy"} /\ conn'[w].out = Append(out, m)
      BY <2>2
    <3>2. PICK z : z = conn'[w].out
      OBVIOUS
    <3> HIDE DEF out, t
    <3>3. out \in Seq(Reply) /\ m \in Reply /\ z = Append(out, m) /\ m.op # "answer" /\ m.op # "busy"
      BY <1>1, <3>1, <3>2
    <3>4. /\ Fits(out, "answer", t) => Fits(z, "answer", t)
          /\ Lacks(out, "answer") => Lacks(z, "answer")
      BY ONLY <3>3, AppendFits
    <3>5. Lacks(out, "busy") => Lacks(z, "busy")
      BY ONLY <3>3, AppendFits
    <3>6. QED
      BY <3>2, <3>4, <3>5
  <2>3. QED
    BY <2>1, <2>2 DEF Dully
<1>4. \/ worker'[w].app = worker[w].app /\ worker'[w].appDone = worker[w].appDone
         /\ worker'[w].token = worker[w].token
      \/ worker'[w].app = "none" /\ ~worker'[w].appDone
  BY DEF CallKept
<1>5. QED
  BY <1>2, <1>3, <1>4 DEF Peer, Busy

\* A new or freed slot has no request and no answer.
LEMMA PeerFresh ==
    ASSUME NEW w \in Workers, worker'[w].app = "none", ~worker'[w].appDone,
           Lacks(conn'[w].in, "request"), conn'[w].out = <<>>
    PROVE  Peer(w)'
BY EmptyLacks, LacksFits DEF Peer, Busy

\* The request of a client whose thread is at work cannot be here: there is no busy answer.
LEMMA AskedIsReusable ==
    ASSUME conn \in [Workers -> Conn], worker \in [Workers -> Worker], NEW w \in Workers,
           Peer(w), Request(w)
    PROVE  Reusable(w)
<1>1. conn[w].in \in Seq(Frame) /\ conn[w].in # <<>> /\ Head(conn[w].in).op = "request"
  BY DEF Conn, Request, Head1
<1>2. 1 \in DOMAIN conn[w].in /\ conn[w].in[1] = Head(conn[w].in)
  BY <1>1
<1>3. ~Lacks(conn[w].in, "request")
  BY <1>1, <1>2 DEF Lacks
<1>4. QED
  BY <1>3 DEF Peer, Busy, Reusable, Worker

\* A request's thread takes the request, and then its answer is the only one.
LEMMA PeerCall ==
    ASSUME conn \in [Workers -> Conn], worker \in [Workers -> Worker],
           NEW w \in Workers, Peer(w), CallEffect(w)
    PROVE  Peer(w)'
<1> DEFINE r == worker[w]
           s == worker'[w]
           in == conn[w].in
           out == conn[w].out
           t == client[w].token
           taken == /\ in # <<>> /\ Head(in).op = "request"
                    /\ conn'[w].in = Tail(in)
<1>1. in \in Seq(Frame) /\ out \in Seq(Reply) /\ client' = client
  BY DEF Conn, CallEffect, MoveEffect, Steady
<1>2. ASSUME taken PROVE /\ ~Lacks(in, "request") /\ Head(in).token = t
                         /\ Lacks(conn'[w].in, "request")
  <2>1. Fits(in, "request", t)
    BY DEF Peer
  <2>2. 1 \in DOMAIN in /\ in[1] = Head(in)
    BY <1>1, <1>2
  <2>3. ~Lacks(in, "request")
    BY <1>2, <2>2 DEF Lacks
  <2>4. Head(in).token = t /\ Lacks(Tail(in), "request")
    <3> HIDE DEF in, t
    <3>1. QED
      BY <1>1, <1>2, <2>1, TailFits DEF taken
  <2>5. QED
    BY <1>2, <2>3, <2>4
<1>3. ASSUME Answered(w, t), Lacks(out, "answer"), Lacks(out, "busy")
      PROVE  Fits(conn'[w].out, "answer", t) /\ Lacks(conn'[w].out, "busy")
  <2>1. CASE Mute(w)
    BY <1>3, <2>1, LacksFits DEF Mute
  <2>2. CASE ~Mute(w)
    <3> DEFINE m == [op |-> "answer", token |-> t]
    <3>1. m \in Reply /\ conn'[w].out = Append(out, m)
      BY <1>3, <2>2 DEF Answered
    <3>2. m.op # "busy" /\ m.token = t
      OBVIOUS
    <3> HIDE DEF m, out, t
    <3>3. QED
      BY <1>1, <1>3, <3>1, <3>2, AppendFits
  <2>3. QED
    BY <2>1, <2>2
<1>4. CASE taken /\ Mute(w) /\ s.app = "calling" /\ ~s.appDone /\ s.token = Head(in).token
  BY <1>1, <1>2, <1>4, LacksFits DEF Peer, Busy, Mute
<1>5. CASE taken /\ Answered(w, Head(in).token) /\ s.app = "none" /\ ~s.appDone
  <2>1. Lacks(out, "answer") /\ Lacks(out, "busy") /\ client[w].pc \notin Quiet
    BY <1>2, <1>5 DEF Peer
  <2>2. Fits(conn'[w].out, "answer", t) /\ Lacks(conn'[w].out, "busy")
    BY <1>2, <1>3, <1>5, <2>1
  <2>3. QED
    BY <1>1, <1>2, <1>5, <2>1, <2>2, LacksFits DEF Peer, Busy
<1>6. CASE /\ conn'[w].in = in /\ Mute(w) /\ s.token = r.token
           /\ r.app = "calling" /\ s.app = "sending" /\ s.appDone
  BY <1>1, <1>6 DEF Peer, Busy, Mute
<1>7. CASE /\ conn'[w].in = in /\ Answered(w, r.token)
           /\ r.app = "sending" /\ s.app = "sent" /\ s.appDone = r.appDone
  <2>1. Lacks(out, "answer") /\ Lacks(out, "busy") /\ client[w].pc \notin Quiet
        /\ Lacks(in, "request") /\ r.token = t
    BY <1>7 DEF Peer, Busy
  <2>2. Fits(conn'[w].out, "answer", t) /\ Lacks(conn'[w].out, "busy")
    BY <1>3, <1>7, <2>1
  <2>3. QED
    BY <1>1, <1>7, <2>1, <2>2, LacksFits DEF Peer, Busy
<1>8. CASE /\ conn'[w].in = in /\ Mute(w)
           /\ r.app = "sent" /\ s.app = "returned" /\ s.appDone = r.appDone
  BY <1>1, <1>8 DEF Peer, Busy, Mute
<1>9. QED
  BY <1>4, <1>5, <1>6, <1>7, <1>8 DEF CallEffect

\* A client asks only when it has the answer to its last request.
LEMMA PeerClient ==
    ASSUME conn \in [Workers -> Conn], client \in [Workers -> Client],
           NEW w \in Workers, Peer(w), ClientEffect(w)
    PROVE  Peer(w)'
<1> DEFINE c == client[w]
           d == client'[w]
           in == conn[w].in
           out == conn[w].out
<1>1. in \in Seq(Frame) /\ out \in Seq(Reply) /\ worker' = worker
  BY DEF Conn, ClientEffect
<1>2. ASSUME SaysNoRequest(w)
      PROVE  /\ Fits(in, "request", c.token) => Fits(conn'[w].in, "request", c.token)
             /\ Lacks(in, "request") => Lacks(conn'[w].in, "request")
  BY <1>2 DEF SaysNoRequest, Fits, Lacks
<1>3. CASE /\ c.pc = "idle" /\ d.pc = "asking" /\ d.token = c.token + 1 /\ Mute(w)
           /\ [op |-> "request", token |-> d.token] \in Frame
           /\ conn'[w].in = Append(conn[w].in, [op |-> "request", token |-> d.token])
  <2> DEFINE m == [op |-> "request", token |-> d.token]
  <2>1. m.token = d.token /\ m \in Frame /\ conn'[w].in = Append(in, m)
    BY <1>3
  <2>2. Lacks(in, "request") /\ Lacks(out, "answer") /\ ~Busy(w) /\ Lacks(out, "busy")
    BY <1>3 DEF Peer, Quiet
  <2> HIDE DEF m
  <2>3. Fits(conn'[w].in, "request", d.token)
    <3> HIDE DEF in, d
    <3>1. QED
      BY <1>1, <2>1, <2>2, AppendFits
  <2>4. QED
    BY <1>1, <1>3, <2>2, <2>3, LacksFits DEF Peer, Busy, Mute, Quiet
<1>4. CASE /\ d.token = c.token /\ SaysNoRequest(w) /\ Mute(w)
           /\ d.pc \in {c.pc, "gone"} \/ (c.pc = "idle" /\ d.pc = "leaving")
  BY <1>1, <1>2, <1>4 DEF Peer, Busy, Mute, Quiet
<1>5. CASE /\ d.token = c.token /\ SaysNoRequest(w)
           /\ conn[w].out # <<>> /\ conn'[w].out = Tail(conn[w].out)
           /\ \/ d.pc = "gone"
              \/ c.pc = "hello" /\ d.pc = "idle"
              \/ c.pc = "asking" /\ d.pc = "idle" /\ Head(conn[w].out).op \in {"answer", "busy"}
  <2>1. /\ Fits(out, "answer", c.token) => Fits(conn'[w].out, "answer", c.token)
        /\ Lacks(out, "answer") => Lacks(conn'[w].out, "answer")
        /\ Lacks(out, "busy") => Lacks(conn'[w].out, "busy")
        /\ Fits(out, "answer", c.token) /\ Head(out).op = "answer" => Lacks(conn'[w].out, "answer")
    <3>1. PICK z : z = conn'[w].out
      OBVIOUS
    <3>2. PICK t : t = c.token
      OBVIOUS
    <3> HIDE DEF c, out
    <3>3. out \in Seq(Reply) /\ out # <<>> /\ z = Tail(out)
      BY <1>1, <1>5, <3>1 DEF out
    <3>4. /\ Fits(out, "answer", t) => Fits(z, "answer", t)
          /\ Lacks(out, "answer") => Lacks(z, "answer")
          /\ Fits(out, "answer", t) /\ Head(out).op = "answer" => Lacks(z, "answer")
      BY ONLY <3>3, TailFits
    <3>5. Lacks(out, "busy") => Lacks(z, "busy")
      BY ONLY <3>3, TailFits
    <3>6. QED
      BY <3>1, <3>2, <3>4, <3>5
  <2>2. 1 \in DOMAIN out /\ out[1] = Head(out)
    BY <1>1, <1>5
  <2>3. Head(out).op # "busy" /\ (Head(out).op = "answer" => ~Lacks(out, "answer"))
    BY <2>2 DEF Peer, Lacks
  <2>4. QED
    BY <1>1, <1>2, <1>5, <2>1, <2>3 DEF Peer, Busy, Quiet
<1>6. QED
  BY <1>3, <1>4, <1>5 DEF ClientEffect

----------------------------------------------------------------------------
(* Silence and ends.                                                       *)

\* What a step may do without breaking the silence after an acknowledgement.
HushStep ==
    /\ ~Running => ~Running'
    /\ \A v \in Workers :
          LET r == worker[v]
              s == worker'[v]
          IN /\ conn'[v].up => conn[v].up \/ Running
             /\ s.owner => r.owner /\ s.client = r.client /\ s.pc \in Owning
             /\ r.owner /\ ~s.owner => ~conn'[v].up
             /\ s.pc \in {"drain", "ack"} => r.pc \in {"drain", "ack"} /\ s.owner
             /\ s.pc = "drain" => r.pc = "drain"
             /\ s.owner /\ r.pc = "drain" /\ s.pc # "drain" =>
                    \A u \in Workers \ {v} : ~conn'[u].up
    /\ acked' = acked
       \/ \E w \in Workers : worker[w].pc = "ack" /\ worker'[w].pc = "disconnect" /\ worker'[w].owner

\* Such a step keeps the silence.
LEMMA HushKeeps ==
    ASSUME Silence, HushStep, acked' \in BOOLEAN
    PROVE  Silence'
<1>1. ASSUME NEW w \in Workers, worker'[w].owner
      PROVE  /\ worker'[w].client = 0 /\ worker'[w].pc \in Owning /\ ~Running'
             /\ \A v \in Workers \ {w} :
                   ~worker'[v].owner /\ (worker'[w].pc # "drain" => ~conn'[v].up)
  <2>1. /\ worker[w].owner /\ worker'[w].client = worker[w].client /\ worker'[w].pc \in Owning
        /\ worker[w].client = 0 /\ ~Running /\ ~Running'
    BY <1>1 DEF Silence, HushStep
  <2>2. ASSUME NEW v \in Workers \ {w} PROVE ~worker'[v].owner
    BY <2>1 DEF Silence, HushStep
  <2>3. ASSUME NEW v \in Workers \ {w}, worker'[w].pc # "drain" PROVE ~conn'[v].up
    BY <1>1, <2>1, <2>3 DEF Silence, HushStep
  <2>4. QED
    BY <2>1, <2>2, <2>3
<1>2. ASSUME NEW w \in Workers, worker'[w].pc \in {"drain", "ack"} PROVE worker'[w].owner
  BY <1>2 DEF HushStep
<1>3. ASSUME acked', NEW w \in Workers
      PROVE  ~Running' /\ (conn'[w].up => worker'[w].owner /\ worker'[w].pc \notin {"drain", "ack"})
  <2>1. CASE acked
    <3>1. ~Running /\ ~Running'
      BY <2>1 DEF Silence, HushStep
    <3>2. ASSUME conn'[w].up PROVE worker'[w].owner /\ worker'[w].pc \notin {"drain", "ack"}
      BY <2>1, <3>1, <3>2 DEF Silence, HushStep
    <3>3. QED
      BY <3>1, <3>2
  <2>2. CASE ~acked
    <3>1. PICK u \in Workers : /\ worker[u].pc = "ack" /\ worker'[u].pc = "disconnect"
                               /\ worker'[u].owner
      BY <1>3, <2>2 DEF HushStep
    <3>2. ~Running' /\ \A v \in Workers \ {u} : ~conn'[v].up
      BY <1>1, <3>1
    <3>3. QED
      BY <3>1, <3>2
  <2>3. QED
    BY <2>1, <2>2
<1>4. acked' => ~Running' /\ \A w \in Workers :
          conn'[w].up => worker'[w].owner /\ worker'[w].pc \notin {"drain", "ack"}
  <2>1. Workers # {}
    BY CapacityAssumption DEF Workers
  <2>2. QED
    BY <1>3, <2>1
<1>5. QED
  BY <1>1, <1>2, <1>4 DEF Silence, Running

\* What a step may do without leaving anybody behind.
EndsStep ==
    /\ service'.state = "exited" => service'.active = 0
    /\ service.state = "exited" => service'.state = "exited"
    /\ accept' = accept \/ service'.state = "exited"
    /\ accept = "done" => accept' = "done"
    /\ host' # "terminated"
    /\ host' = "freed" => host = "freed" \/ (accept' = "done" /\ \A w \in Workers : ~InUse(w)')
    /\ host = "freed" => \A w \in Workers : InUse(w)' => InUse(w)
    /\ coordinator'.state = "stopping" => coordinator'.clients = {} /\ ~service'.permanent

\* Such a step keeps the ends.
LEMMA EndsKeeps ==
    ASSUME Ends, EndsStep
    PROVE  Ends'
BY DEF Ends, EndsStep

\* The members of the generation: clients of the committed.
Ids == {worker[w].client : w \in Members}
\* Nothing changes that Generation sees.
Same ==
    service'.state = service.state /\ service'.permanent = service.permanent /\ Ids' = Ids
\* No connection gets a word more than it has.
NoWord == \A v \in Workers : Len(conn'[v].out) <= Len(conn[v].out)

\* Committed workers that keep their clients are the same members.
LEMMA IdsSame ==
    ASSUME Members' = Members, \A w \in Members : worker'[w].client = worker[w].client
    PROVE  Ids' = Ids
<1>1. {worker'[w].client : w \in Members'} = {worker[w].client : w \in Members}
  BY ONLY Members' = Members, \A w \in Members : worker'[w].client = worker[w].client
<1>2. QED
  BY <1>1 DEF Ids

\* The committed are admitted and counted: nobody of them is left when no worker is active.
LEMMA MembersHold ==
    ASSUME TypeOK, Books
    PROVE  /\ Members \subseteq Holders /\ Ids \subseteq coordinator.clients
           /\ service.active = 0 => Active = {} /\ Members = {} /\ Ids = {}
           /\ service.committed = 0 => Members = {} /\ Ids = {}
<1>1. Members \subseteq Holders /\ Members \subseteq Active
  BY DEF Books, Station, Members, Holders, Active, Serving, InUse
<1>2. Ids \subseteq coordinator.clients
  BY <1>1 DEF Books, Counted, Ids
<1>3. Finite(Active) /\ Finite(Members)
  BY WorkersFinite DEF Active, Members
<1>4. service.active = 0 => Active = {}
  BY <1>3, FS_EmptySet DEF Books, Counted, Finite
<1>5. service.committed = 0 => Members = {}
  BY <1>3, FS_EmptySet DEF Books, Counted, Finite
<1>6. Members = {} => Ids = {}
  BY DEF Ids
<1>7. QED
  BY <1>1, <1>2, <1>4, <1>5, <1>6

\* What happens at w leaves the others' requests and answers alone.
LEMMA PeersKept ==
    ASSUME TypeOK, \A v \in Workers : Peer(v), NEW w \in Workers, Peer(w)',
           \A v \in Workers \ {w} : /\ CallKept(v) /\ client'[v] = client[v]
                                    /\ conn'[v].in = conn[v].in /\ Mute(v)
    PROVE  \A v \in Workers : Peer(v)'
<1>1. ASSUME NEW v \in Workers \ {w} PROVE Peer(v)'
  BY Parts, PeerQuiet DEF Hears, Dully
<1>2. QED
  BY <1>1

\* Nothing is asked, taken or said.
LEMMA AllPeersKept ==
    ASSUME TypeOK, \A v \in Workers : Peer(v),
           \A v \in Workers : /\ CallKept(v) /\ client'[v] = client[v]
                              /\ conn'[v].in = conn[v].in /\ Mute(v)
    PROVE  \A v \in Workers : Peer(v)'
BY Parts, PeerQuiet DEF Hears, Dully

\* The others' calls stay as they are.
LEMMA AloneCalls ==
    ASSUME NEW w \in Workers, Alone(w)
    PROVE  \A v \in Workers \ {w} : CallKept(v) /\ worker'[v] = worker[v]
BY DEF Alone, CallKept

\* Connections that only lose words get none.
LEMMA Unsaid ==
    ASSUME TypeOK, \A v \in Workers : Mute(v) \/ conn'[v].out = <<>> \/
                (conn[v].out # <<>> /\ conn'[v].out = Tail(conn[v].out))
    PROVE  NoWord
<1>1. SUFFICES ASSUME NEW v \in Workers PROVE Len(conn'[v].out) <= Len(conn[v].out)
  BY DEF NoWord
<1>2. PICK s : s = conn[v].out
  OBVIOUS
<1>3. s \in Seq(Reply) /\ Len(s) \in Nat
  BY <1>2, Parts DEF Conn
<1>4. CASE conn'[v].out = s
  BY <1>2, <1>3, <1>4
<1>5. CASE conn'[v].out = <<>>
  BY <1>2, <1>3, <1>5
<1>6. CASE s # <<>> /\ conn'[v].out = Tail(s)
  <2>1. Len(Tail(s)) = Len(s) - 1
    BY <1>3, <1>6
  <2>2. QED
    BY <1>2, <1>3, <1>6, <2>1
<1>7. QED
  BY <1>2, <1>4, <1>5, <1>6 DEF Mute

\* A worker that moves on breaks no silence.
LEMMA MoveHush ==
    ASSUME TypeOK, Books, Silence, NEW w \in Workers, MoveEffect(w),
           worker[w].pc = "drain" /\ worker'[w].pc # "drain" =>
                \A v \in Workers \ {w} : conn[v].open => ~conn'[v].up
    PROVE  HushStep
<1>1. /\ \A v \in Workers \ {w} : worker'[v] = worker[v]
      /\ worker'[w].owner = worker[w].owner /\ worker'[w].client = worker[w].client
      /\ \A v \in Workers : conn'[v].up => conn[v].up /\ conn[v].open
      /\ service'.state = service.state
  BY DEF MoveEffect, Alone, Core, Wires, ServiceKept, Books, Station
<1>2. /\ worker[w].owner => worker[w].pc \in Owning
      /\ worker[w].pc \in {"drain", "ack"} => worker[w].owner
      /\ \A v \in Workers : worker[v].owner => worker[v].pc \in Owning
      /\ \A v \in Workers : worker[v].pc \in {"drain", "ack"} => worker[v].owner
  BY DEF Silence
<1>3. /\ worker'[w].pc \in {"drain", "ack"} => worker[w].pc \in {"drain", "ack"}
      /\ worker'[w].pc = "drain" => worker[w].pc = "drain"
      /\ worker[w].pc \in Owning => worker'[w].pc \in Owning
  BY DEF MoveEffect, Hop, Straight, Owning, Parting
<1>4. worker[w].pc = "drain" /\ worker'[w].pc # "drain" => \A u \in Workers \ {w} : ~conn'[u].up
  BY <1>1
<1>5. acked' = acked \/ (worker[w].pc = "ack" /\ worker'[w].pc = "disconnect")
  BY DEF MoveEffect
<1>6. ASSUME NEW v \in Workers
      PROVE  LET r == worker[v]
                 s == worker'[v]
             IN /\ conn'[v].up => conn[v].up \/ Running
                /\ s.owner => r.owner /\ s.client = r.client /\ s.pc \in Owning
                /\ r.owner /\ ~s.owner => ~conn'[v].up
                /\ s.pc \in {"drain", "ack"} => r.pc \in {"drain", "ack"} /\ s.owner
                /\ s.pc = "drain" => r.pc = "drain"
                /\ s.owner /\ r.pc = "drain" /\ s.pc # "drain" =>
                       \A u \in Workers \ {v} : ~conn'[u].up
  <2>1. CASE v = w
    BY <1>1, <1>2, <1>3, <1>4, <2>1
  <2>2. CASE v # w
    BY <1>1, <1>2, <2>2
  <2>3. QED
    BY <2>1, <2>2
<1>7. ~Running => ~Running'
  BY <1>1 DEF Running
<1>8. QED
  BY <1>1, <1>2, <1>5, <1>6, <1>7 DEF HushStep

\* Nor does one that is not about to acknowledge a stop.
LEMMA TurnHush ==
    ASSUME TypeOK, Silence, NEW w \in Workers, \A v \in Workers \ {w} : worker'[v] = worker[v],
           worker'[w].owner = worker[w].owner, worker'[w].client = worker[w].client \/ ~worker[w].owner,
           worker[w].owner => worker'[w].pc \in Owning,
           worker[w].pc \notin {"drain", "ack"}, worker'[w].pc \notin {"drain", "ack"},
           \A v \in Workers : conn'[v].up => conn[v].up,
           ~Running => ~Running', acked' = acked
    PROVE  HushStep
<1>1. /\ \A v \in Workers : worker[v].owner => worker[v].pc \in Owning
      /\ \A v \in Workers : worker[v].pc \in {"drain", "ack"} => worker[v].owner
  BY DEF Silence
<1>2. ASSUME NEW v \in Workers
      PROVE  LET r == worker[v]
                 s == worker'[v]
             IN /\ conn'[v].up => conn[v].up \/ Running
                /\ s.owner => r.owner /\ s.client = r.client /\ s.pc \in Owning
                /\ r.owner /\ ~s.owner => ~conn'[v].up
                /\ s.pc \in {"drain", "ack"} => r.pc \in {"drain", "ack"} /\ s.owner
                /\ s.pc = "drain" => r.pc = "drain"
                /\ s.owner /\ r.pc = "drain" /\ s.pc # "drain" =>
                       \A u \in Workers \ {v} : ~conn'[u].up
  <2>1. CASE v = w
    BY <1>1, <2>1
  <2>2. CASE v # w
    BY <1>1, <2>2
  <2>3. QED
    BY <2>1, <2>2
<1>3. QED
  BY <1>2 DEF HushStep

\* Nobody's state changes but the service's or the host's.
LEMMA StillHush ==
    ASSUME TypeOK, Silence, worker' = worker,
           \A v \in Workers : conn'[v].up => conn[v].up,
           ~Running => ~Running', acked' = acked
    PROVE  HushStep
<1>1. /\ \A v \in Workers : worker[v].owner => worker[v].pc \in Owning
      /\ \A v \in Workers : worker[v].pc \in {"drain", "ack"} => worker[v].owner
  BY DEF Silence
<1>2. QED
  BY <1>1 DEF HushStep

\* A step that changes neither who is in use nor whether the service has exited.
LEMMA TurnEnds ==
    ASSUME Ends, \A v \in Workers : InUse(v)' => InUse(v),
           service'.state = "exited" <=> service.state = "exited",
           service.state = "exited" => service'.active <= service.active,
           service'.active \in Nat, service'.permanent = service.permanent,
           coordinator' = coordinator, accept' = accept, host' = host
    PROVE  EndsStep
BY DEF Ends, EndsStep

----------------------------------------------------------------------------
(* Every step keeps the invariant and is a step of Generation.             *)

\* Moving on changes nothing that Generation sees.
LEMMA MoveSame ==
    ASSUME TypeOK, NEW w \in Workers, MoveEffect(w)
    PROVE  /\ Same /\ Members' = Members /\ \A v \in Workers : InUse(v)' => InUse(v)
           /\ \A v \in Workers : worker'[v].client = worker[v].client
<1>1. /\ worker'[w].client = worker[w].client /\ \A v \in Workers \ {w} : worker'[v] = worker[v]
      /\ service'.state = service.state /\ service'.permanent = service.permanent
      /\ worker[w].pc = "free" => worker'[w].pc = "free"
  BY DEF MoveEffect, Alone, Core, ServiceKept, Hop, Straight
<1>2. Members' = Members
  BY Parts, MoveSets
<1>3. \A v \in Workers : worker'[v].client = worker[v].client
  BY <1>1
<1>4. Ids' = Ids
  BY <1>2, <1>3, IdsSame DEF Members
<1>5. \A v \in Workers : InUse(v)' => InUse(v)
  BY <1>1 DEF InUse
<1>6. QED
  BY <1>1, <1>2, <1>3, <1>4, <1>5 DEF Same

\* Moving on keeps the invariant, if the call it makes does.
LEMMA MoveKeeps ==
    ASSUME IInv, NEW w \in Workers, MoveEffect(w),
           worker'[w].app # "none" => worker[w].opened,
           worker'[w].pc = "admit" /\ worker[w].pc # "admit" => client[w].kind = "session",
           worker'[w].pc = "verdict" /\ worker[w].pc # "verdict" => client[w].kind # "session",
           worker[w].pc = "drain" /\ worker'[w].pc # "drain" =>
                \A v \in Workers \ {w} : conn[v].open => ~conn'[v].up,
           \A v \in Workers : Peer(v)'
    PROVE  IInv' /\ Same
<1>1. TypeOK' /\ Books'
  BY MoveTypes, MoveBooks DEF IInv
<1>2. Silence'
  <2>1. HushStep
    BY MoveHush DEF IInv
  <2>2. acked' \in BOOLEAN
    BY DEF MoveEffect
  <2>3. QED
    BY <2>1, <2>2, HushKeeps DEF IInv
<1>3. Ends'
  <2>1. \A v \in Workers : InUse(v)' => InUse(v)
    BY MoveSame DEF IInv
  <2>2. service.active \in Nat
    BY Parts DEF IInv, Service
  <2>3. EndsStep
    BY <2>1, <2>2, TurnEnds DEF IInv, MoveEffect, ServiceKept, Steady
  <2>4. QED
    BY <2>3, EndsKeeps DEF IInv
<1>4. QED
  BY <1>1, <1>2, <1>3, MoveSame DEF IInv

\* Plain steps keep the invariant; after an acknowledgement they say nothing.
LEMMA PlainKeeps ==
    ASSUME IInv, NEW w \in Workers, Plain(w)
    PROVE  IInv' /\ Same /\ (acked => NoWord)
<1> USE Parts DEF IInv
<1>1. PlainEffect(w)
  BY PlainEffects
<1>2. MoveEffect(w) /\ CallKept(w) /\ Quietly(w) /\ client' = client
  BY <1>1 DEF PlainEffect, MoveEffect, Steady
<1>3. \A v \in Workers : Peer(v)'
  <2>1. Peer(w)'
    BY <1>2, PeerQuiet DEF Quietly
  <2>2. QED
    BY <1>2, <2>1, AloneCalls, PeersKept DEF MoveEffect, Quietly
<1>4. worker'[w].app # "none" => worker[w].opened
  BY <1>2 DEF CallKept, Books, Station
<1>5. IInv' /\ Same
  BY <1>1, <1>2, <1>3, <1>4, MoveKeeps DEF PlainEffect
<1>6. ASSUME acked PROVE NoWord
  <2>1. Mute(w)
    <3>1. CASE ~conn[w].up
      BY <1>2, <3>1 DEF Quietly, Dully
    <3>2. CASE conn[w].up
      <4>1. worker[w].pc \in Parting
        BY <1>6, <3>2 DEF Silence, Owning
      <4>2. QED
        BY <1>1, <4>1 DEF PlainEffect
    <3>3. QED
      BY <3>1, <3>2
  <2>2. QED
    BY <1>2, <2>1, Unsaid DEF Quietly
<1>7. QED
  BY <1>5, <1>6

\* So do the steps of a request, which has no connection left by then.
LEMMA CallKeeps ==
    ASSUME IInv, NEW w \in Workers, CallStep(w)
    PROVE  IInv' /\ Same /\ (acked => NoWord)
<1> USE Parts DEF IInv
<1>1. CallEffect(w)
  BY CallEffects
<1>2. MoveEffect(w) /\ OthersUnheard(w) /\ client' = client
  BY <1>1 DEF CallEffect, MoveEffect, Steady
<1>3. \A v \in Workers : Peer(v)'
  <2>1. Peer(w)'
    BY <1>1, PeerCall
  <2>2. QED
    BY <1>2, <2>1, AloneCalls, PeersKept DEF MoveEffect, OthersUnheard
<1>4. worker[w].opened
  BY <1>1 DEF CallEffect, Books, Station
<1>5. worker[w].client # 0 /\ worker[w].pc \notin Early
  BY <1>4 DEF Books, Station
<1>6. worker'[w].pc = worker[w].pc \/ worker[w].pc = "receive"
  BY <1>1 DEF CallEffect
<1>7. /\ worker[w].pc # "drain"
      /\ worker'[w].pc \in {"admit", "verdict"} => worker'[w].pc = worker[w].pc
  BY <1>2, <1>5, <1>6 DEF Early, MoveEffect, Hop, Straight
<1>8. IInv' /\ Same
  BY <1>2, <1>3, <1>4, <1>7, MoveKeeps
<1>9. ASSUME acked PROVE NoWord
  <2>1. ~conn[w].up
    BY <1>5, <1>9 DEF Silence
  <2>2. Mute(w)
    BY <1>1, <2>1 DEF CallEffect, Answered
  <2>3. QED
    BY <1>2, <2>2, Unsaid DEF OthersUnheard
<1>10. QED
  BY <1>8, <1>9

\* So do clients, which only take what was said to them.
LEMMA ClientKeeps ==
    ASSUME IInv, NEW w \in Workers, ClientStep(w)
    PROVE  IInv' /\ Same /\ (acked => NoWord)
<1> USE Parts DEF IInv
<1>1. ClientEffect(w)
  BY ClientEffects
<1>2. /\ UNCHANGED <<service, coordinator, worker, session, accept, host, acked>>
      /\ OthersUnheard(w) /\ Wires /\ \A v \in Workers \ {w} : client'[v] = client[v]
  BY <1>1 DEF ClientEffect
<1>3. TypeOK' /\ Books'
  BY <1>1, ClientBooks
<1>4. \A v \in Workers : Peer(v)'
  <2>1. Peer(w)'
    BY <1>1, PeerClient
  <2>2. \A v \in Workers : CallKept(v)
    BY <1>2 DEF CallKept
  <2>3. QED
    BY <1>2, <2>1, <2>2, PeersKept DEF OthersUnheard
<1>5. Silence'
  <2>1. HushStep
    BY <1>2, StillHush DEF Wires, Running
  <2>2. QED
    BY <1>2, <2>1, HushKeeps
<1>6. Ends'
  BY <1>2 DEF Ends, InUse
<1>7. Same
  BY <1>2 DEF Same, Ids, Members
<1>8. NoWord
  <2>1. Mute(w) \/ (conn[w].out # <<>> /\ conn'[w].out = Tail(conn[w].out))
    BY <1>1 DEF ClientEffect
  <2>2. QED
    BY <1>2, <2>1, Unsaid DEF OthersUnheard
<1>9. QED
  BY <1>3, <1>4, <1>5, <1>6, <1>7, <1>8

\* Generation allows that nothing it sees changes.
LEMMA Stutters ==
    ASSUME Same
    PROVE  Gen!Next
BY DEF Same, Ids, Members, Gen!Next, Gen!Ask, Asked

\* A worker's step that leaves every connection and every call as it is.
LEMMA SilentPeers ==
    ASSUME IInv, NEW w \in Workers, Alone(w), CallKept(w), conn' = conn, client' = client
    PROVE  (\A v \in Workers : Peer(v)') /\ NoWord
<1>1. \A v \in Workers : CallKept(v)
  BY AloneCalls
<1>2. \A v \in Workers : Mute(v)
  BY DEF Mute
<1>3. QED
  BY <1>1, <1>2, AllPeersKept, Unsaid DEF IInv

\* A worker's step beside which the service goes on, or stops, as it did.
LEMMA TurnKeeps ==
    ASSUME IInv, TypeOK', Books', NEW w \in Workers, \A v \in Workers : Peer(v)',
           \A v \in Workers \ {w} : worker'[v] = worker[v],
           worker'[w].owner = worker[w].owner, worker'[w].client = worker[w].client \/ ~worker[w].owner,
           worker[w].owner => worker'[w].pc \in Owning,
           worker[w].pc \notin {"drain", "ack"}, worker'[w].pc \notin {"drain", "ack"},
           \A v \in Workers : conn'[v].up => conn[v].up,
           ~Running => service'.state = service.state, Running => service'.state # "exited",
           worker[w].pc # "free", service'.active <= service.active,
           service'.permanent = service.permanent,
           coordinator'.state = "stopping" => coordinator'.clients = {} /\ ~service.permanent,
           accept' = accept, host' = host, acked' = acked
    PROVE  IInv'
<1> USE Parts DEF IInv
<1>1. Silence'
  <2>1. HushStep
    BY TurnHush DEF Running
  <2>2. QED
    BY <2>1, HushKeeps
<1>2. Ends'
  <2>1. \A v \in Workers : InUse(v)' => InUse(v)
    BY DEF InUse
  <2>2. service.active \in Nat /\ service'.active \in Nat
    BY DEF TypeOK, Service
  <2>3. EndsStep
    BY <2>1, <2>2 DEF EndsStep, Ends, Running
  <2>4. QED
    BY <2>3, EndsKeeps
<1>3. QED
  BY <1>1, <1>2

\* An accepted activation or stop is a Stop: "daemon stop" found nobody committed.
LEMMA VerdictKeeps ==
    ASSUME IInv, NEW w \in Workers, Verdict(w), Accepts(w)
    PROVE  IInv' /\ Gen!Stop /\ (acked => NoWord)
<1> USE Parts DEF IInv
<1>1. TypeOK' /\ Books'
  BY VerdictBooks
<1>2. /\ Alone(w) /\ CallKept(w) /\ worker'[w].pc = "drain" /\ worker'[w].owner
      /\ worker'[w].client = worker[w].client /\ worker'[w].committed = worker[w].committed
      /\ \A v \in Workers \ {w} : worker'[v] = worker[v]
  BY VerdictTurn DEF Alone
<1>3. /\ worker[w].pc = "verdict" /\ Running
      /\ UNCHANGED <<coordinator, conn, client, session, accept, host, budget, acked>>
      /\ service' = [BeginStopping(service, FALSE) EXCEPT !.activation = TRUE, !.inflight = TRUE]
  BY DEF Verdict, Accepts, At
<1>4. /\ service'.state = "stopping" /\ service'.active = service.active
      /\ service'.permanent = service.permanent
  <2>1. PICK t : t = BeginStopping(service, FALSE)
    OBVIOUS
  <2>2. t \in Service /\ t.active = service.active /\ t.permanent = service.permanent
        /\ t.state = "stopping"
    BY <1>3, <2>1, BeginStoppingEffect DEF Running
  <2>3. service' = [t EXCEPT !.activation = TRUE, !.inflight = TRUE]
    BY <1>3, <2>1
  <2>4. QED
    BY <2>2, <2>3 DEF Service
<1>5. (\A v \in Workers : Peer(v)') /\ NoWord
  BY <1>2, <1>3, SilentPeers
<1>6. Silence'
  <2>1. worker'[w].client = 0
    BY <1>2, <1>3 DEF Books, Station, Early
  <2>2. \A v \in Workers : ~worker[v].owner /\ worker[v].pc \notin {"drain", "ack"}
    BY <1>3 DEF Silence
  <2>3. ~acked'
    BY <1>3 DEF Silence
  <2>4. ~Running'
    BY <1>4 DEF Running
  <2>5. QED
    BY <1>2, <2>1, <2>2, <2>3, <2>4 DEF Silence, Owning, Running
<1>7. Ends'
  BY <1>2, <1>3, <1>4 DEF Ends, InUse, Running
<1>8. Gen!Stop
  <2>1. Ids' = Ids
    <3>1. Members' = Members
      BY <1>2 DEF Members
    <3>2. QED
      BY <1>2, <3>1, IdsSame DEF Members
  <2>2. client[w].kind \in {"activation", "stop"}
    BY <1>3 DEF Books, Station, Client, Kind
  <2>3. "now" \in Asked \/ ("if unused" \in Asked /\ Ids = {})
    <3>1. CASE client[w].kind = "activation"
      BY <1>3, <3>1 DEF Asked, At
    <3>2. CASE client[w].kind = "stop"
      <4>1. Ids = {}
        BY <3>2, MembersHold DEF Accepts
      <4>2. "if unused" \in Asked
        BY <1>3, <3>2 DEF Asked, At
      <4>3. QED
        BY <4>1, <4>2
    <3>3. QED
      BY <2>2, <3>1, <3>2
  <2>4. QED
    BY <1>3, <1>4, <2>1, <2>3 DEF Gen!Stop, Gen!Ask, Asked, Ids, Members, Running
<1>9. QED
  BY <1>1, <1>5, <1>6, <1>7, <1>8

\* A provisional client is no member yet.
LEMMA AdmitKeeps ==
    ASSUME IInv, NEW w \in Workers, Admit(w), Running, coordinator.state = "running"
    PROVE  IInv' /\ Same /\ (acked => NoWord)
<1> USE Parts DEF IInv
<1>1. TypeOK' /\ Books'
  BY AdmitBooks
<1>2. /\ worker[w].pc = "admit" /\ coordinator'.state = "running"
      /\ UNCHANGED <<service, conn, client, accept, host, budget, acked>>
  BY DEF Admit, At, Coordinator
<1>3. /\ Alone(w) /\ CallKept(w) /\ worker'[w].pc = "open" /\ ~worker'[w].committed
      /\ worker'[w].owner = worker[w].owner
      /\ \A v \in Workers \ {w} : worker'[v] = worker[v]
  <2>1. coordinator.last + 1 \in ClientId
    BY <1>1 DEF Admit, TypeOK, At
  <2>2. QED
    BY <2>1, AdmitTurn DEF Alone
<1>4. (\A v \in Workers : Peer(v)') /\ NoWord
  BY <1>2, <1>3, SilentPeers
<1>5. ~worker[w].committed /\ ~worker[w].owner
  BY <1>2 DEF Books, Station, Serving, Silence, Owning, Parting
<1>6. IInv'
  BY <1>1, <1>2, <1>3, <1>4, <1>5, TurnKeeps DEF Service, Running, Owning, Parting
<1>7. Same
  <2>1. Members' = Members /\ \A v \in Members : worker'[v].client = worker[v].client
    BY <1>3, <1>5 DEF Members
  <2>2. QED
    BY <1>2, <2>1, IdsSame DEF Same
<1>8. QED
  BY <1>4, <1>6, <1>7

\* The application opens the session.
Opens(w) ==
    /\ worker[w].pc = "open"
    /\ session' = [session EXCEPT ![worker[w].client] = "open"]
    /\ worker' = [worker EXCEPT ![w].pc = "commit", ![w].opened = TRUE]
    /\ UNCHANGED <<service, coordinator, conn, client, accept, host, budget, acked>>

\* Nor is one whose session is open.
LEMMA OpenKeeps ==
    ASSUME IInv, NEW w \in Workers, Opens(w)
    PROVE  IInv' /\ Same /\ (acked => NoWord)
<1> USE Parts DEF IInv
<1>1. TypeOK' /\ Books'
  BY OpenBooks DEF Opens
<1>2. /\ worker[w].pc = "open"
      /\ UNCHANGED <<service, coordinator, conn, client, accept, host, budget, acked>>
  BY DEF Opens
<1>3. /\ Alone(w) /\ CallKept(w) /\ worker'[w].pc = "commit"
      /\ worker'[w].committed = worker[w].committed
      /\ worker'[w].owner = worker[w].owner /\ worker'[w].client = worker[w].client
      /\ \A v \in Workers \ {w} : worker'[v] = worker[v]
  BY OpenTurn DEF Alone, Opens
<1>4. (\A v \in Workers : Peer(v)') /\ NoWord
  BY <1>2, <1>3, SilentPeers
<1>5. ~worker[w].owner
  BY <1>2 DEF Silence, Owning, Parting
<1>6. IInv'
  BY <1>1, <1>2, <1>3, <1>4, <1>5, TurnKeeps DEF Service, Running, Owning, Parting, Ends
<1>7. Same
  <2>1. Members' = Members /\ \A v \in Members : worker'[v].client = worker[v].client
    BY <1>3 DEF Members
  <2>2. QED
    BY <1>2, <2>1, IdsSame DEF Same
<1>8. QED
  BY <1>4, <1>6, <1>7

\* No two workers have one client.
LEMMA MemberIds ==
    ASSUME TypeOK, Books, NEW w \in Workers, worker[w].client # 0,
           NEW S \in SUBSET Workers
    PROVE  \A v \in S : worker[v].client = worker[w].client => v = w
BY DEF Books, Distinct

\* A commit is a Join.
LEMMA CommitKeeps ==
    ASSUME IInv, NEW w \in Workers, Commit(w), Committable(w)
    PROVE  IInv' /\ (\E c \in ClientId : Gen!Join(c)) /\ (acked => NoWord)
<1> USE Parts DEF IInv
<1>1. TypeOK' /\ Books' /\ Members' = Members \cup {w} /\ w \notin Members
  BY CommitBooks
<1>2. /\ worker[w].pc = "commit" /\ Running /\ service' = [service EXCEPT !.committed = @ + 1]
      /\ UNCHANGED <<coordinator, conn, client, session, accept, host, budget, acked>>
  BY DEF Commit, Committable, At
<1>3. /\ Alone(w) /\ CallKept(w) /\ worker'[w].pc = "welcome"
      /\ worker'[w].owner = worker[w].owner /\ worker'[w].client = worker[w].client
      /\ \A v \in Workers \ {w} : worker'[v] = worker[v]
  BY CommitTurn DEF Alone
<1>4. (\A v \in Workers : Peer(v)') /\ NoWord
  BY <1>2, <1>3, SilentPeers
<1>5. ~worker[w].owner /\ worker[w].client # 0 /\ worker[w].client \in ClientId
  BY <1>2 DEF Silence, Books, Station, Early, Ending, Owning, Parting, Worker
<1>6. /\ service'.state = service.state /\ service'.active = service.active
      /\ service'.permanent = service.permanent
  BY <1>2 DEF Service
<1>7. IInv'
  BY <1>1, <1>2, <1>3, <1>4, <1>5, <1>6, TurnKeeps DEF Service, Running, Owning, Parting, Ends
<1>8. worker[w].client \notin Ids
  BY <1>1, <1>5, MemberIds DEF Ids, Members
<1>9. Ids' = Ids \cup {worker[w].client}
  <2>1. \A v \in Workers : worker'[v].client = worker[v].client
    BY <1>3
  <2>2. {worker'[v].client : v \in Members \cup {w}} = {worker[v].client : v \in Members} \cup {worker[w].client}
    BY <2>1 DEF Members
  <2>3. QED
    BY <1>1, <2>2 DEF Ids
<1>10. \E c \in ClientId : Gen!Join(c)
  <2>1. PICK c \in ClientId : c = worker[w].client
    BY <1>5
  <2>2. Gen!Join(c)
    BY <1>2, <1>6, <1>8, <1>9, <2>1 DEF Gen!Join, Gen!Ask, Asked, Ids, Members, Running
  <2>3. QED
    BY <2>2
<1>11. QED
  BY <1>4, <1>7, <1>10

\* A committed client that leaves is a Leave: the last one stops the generation.
LEMMA DisconnectKeeps ==
    ASSUME IInv, NEW w \in Workers, Disconnect(w)
    PROVE  /\ IInv' /\ (acked => NoWord)
           /\ Same \/ \E c \in ClientId : Gen!Leave(c)
<1> USE Parts DEF IInv
<1>1. /\ TypeOK' /\ Books' /\ Members' = Members \ {w}
      /\ worker[w].committed => service.committed > 0
  BY DisconnectBooks
<1>2. /\ worker[w].pc = "disconnect" /\ service' = Departed(service, worker[w].committed)
      /\ UNCHANGED <<coordinator, conn, client, session, accept, host, budget, acked>>
  BY DEF Disconnect, At
<1>3. /\ Alone(w) /\ CallKept(w)
      /\ worker'[w].pc = IF worker[w].admitted THEN "release" ELSE worker[w].after
      /\ worker'[w].owner = worker[w].owner /\ worker'[w].client = worker[w].client
      /\ \A v \in Workers \ {w} : worker'[v] = worker[v]
  BY LeaveTurn DEF Alone
<1>4. (\A v \in Workers : Peer(v)') /\ NoWord
  BY <1>2, <1>3, SilentPeers
<1>5. /\ worker[w].owner => ~worker[w].admitted /\ worker[w].after = "join"
      /\ worker[w].after \in {"reject", "loop", "bye", "join"}
  BY <1>2 DEF Silence, Books, Station, Worker
<1>6. /\ service'.active = service.active /\ service'.permanent = service.permanent
      /\ ~worker[w].committed => service' = service
      /\ worker[w].committed => service'.state =
            IF service.committed = 1 /\ ~service.permanent /\ Running THEN "stopping"
            ELSE service.state
  <2>1. worker[w].committed \in BOOLEAN
    BY DEF Worker
  <2>2. QED
    BY <1>1, <1>2, <2>1, DepartedEffect
<1>7. IInv'
  <2>1. worker'[w].pc \notin {"drain", "ack"} /\ (worker[w].owner => worker'[w].pc \in Owning)
    BY <1>3, <1>5 DEF Owning, Parting
  <2>2. /\ ~Running => service'.state = service.state
        /\ Running => service'.state # "exited"
        /\ service'.active <= service.active
    <3>1. worker[w].committed \in BOOLEAN /\ service.active \in Nat
      BY DEF Worker, Service
    <3>2. QED
      BY <1>6, <3>1 DEF Running
  <2>3. QED
    BY <1>1, <1>2, <1>3, <1>4, <1>6, <2>1, <2>2, TurnKeeps DEF Ends
<1>8. \A v \in Workers : worker'[v].client = worker[v].client
  BY <1>3
<1>9. CASE ~worker[w].committed
  <2>1. Members' = Members
    BY <1>1, <1>9 DEF Members
  <2>2. Ids' = Ids
    BY <1>8, <2>1, IdsSame DEF Members
  <2>3. QED
    BY <1>4, <1>6, <1>7, <1>9, <2>2 DEF Same
<1>10. CASE worker[w].committed
  <2>0. PICK c : c = worker[w].client
    OBVIOUS
  <2>1. w \in Members /\ worker[w].client = c /\ c # 0 /\ c \in ClientId
    BY <1>10, <2>0 DEF Members, Books, Station, Worker
  <2>2. \A v \in Members : worker[v].client = c => v = w
    BY <2>1, MemberIds DEF Members
  <2>3. Ids' = Ids \ {c} /\ c \in Ids
    <3>1. {worker'[v].client : v \in Members \ {w}} = {worker[v].client : v \in Members} \ {c}
      <4>1. \A v \in Members : worker'[v].client = worker[v].client
        BY <1>8 DEF Members
      <4>2. QED
        BY ONLY <2>1, <2>2, <4>1
    <3>2. QED
      BY <1>1, <2>1, <3>1 DEF Ids
  <2>4. service.committed = 1 <=> Ids = {c}
    <3>1. Finite(Members) /\ service.committed = Cardinality(Members)
      BY WorkersFinite DEF Members, Books, Counted
    <3>2. service.committed = 1 => Members = {w}
      <4>1. ASSUME service.committed = 1 PROVE Members = {w}
        <5>1. PICK x : Members = {x}
          BY <3>1, <4>1, FS_Singleton DEF Finite
        <5>2. QED
          BY <2>1, <5>1
      <4>2. QED
        BY <4>1
    <3>3. Members = {w} => service.committed = 1
      BY <3>1, FS_Singleton
    <3>4. Members = {w} <=> Ids = {c}
      BY <2>1, <2>2 DEF Ids
    <3>5. QED
      BY <3>2, <3>3, <3>4
  <2>5. Gen!Leave(c)
    <3>1. service'.state = IF Ids = {c} /\ ~service.permanent /\ Running THEN "stopping"
                           ELSE service.state
      BY <1>6, <1>10, <2>4
    <3>2. QED
      BY <1>6, <2>3, <3>1 DEF Gen!Leave, Gen!Ask, Asked, Ids, Members, Running
  <2>6. QED
    BY <1>4, <1>7, <2>1, <2>5
<1>11. QED
  BY <1>9, <1>10

\* The coordinator that loses its last client stops unless it was started to stay.
LEMMA ReleaseKeeps ==
    ASSUME IInv, NEW w \in Workers, Release(w)
    PROVE  IInv' /\ Same /\ (acked => NoWord)
<1> USE Parts DEF IInv
<1>1. TypeOK' /\ Books'
  BY ReleaseBooks
<1>2. /\ worker[w].pc = "release" /\ coordinator' = Without(coordinator, worker[w].client)
      /\ Goto(w, "cancel")
      /\ UNCHANGED <<service, conn, client, session, accept, host, budget, acked>>
  BY DEF Release, At
<1>3. /\ Alone(w) /\ Core(w) /\ CallKept(w) /\ worker'[w].pc = "cancel"
      /\ \A v \in Workers \ {w} : worker'[v] = worker[v]
  <2>1. "cancel" \in Place
    BY DEF Place
  <2>2. QED
    BY <1>2, <2>1, GotoTurn DEF Alone
<1>4. (\A v \in Workers : Peer(v)') /\ NoWord
  BY <1>2, <1>3, SilentPeers
<1>5. ~worker[w].owner
  BY <1>2 DEF Silence, Owning, Parting
<1>6. coordinator'.state = "stopping" => coordinator'.clients = {} /\ ~service.permanent
  BY <1>2 DEF Without, Coordinator, Ends
<1>7. IInv'
  <2>1. /\ worker'[w].owner = worker[w].owner /\ worker[w].pc \notin {"drain", "ack"}
        /\ worker'[w].pc \notin {"drain", "ack"} /\ worker[w].pc # "free"
    BY <1>2, <1>3 DEF Core
  <2>2. /\ service' = service /\ service'.active <= service.active
        /\ Running => service'.state # "exited"
    BY <1>2 DEF Service, Running
  <2>3. \A v \in Workers : conn'[v].up => conn[v].up
    BY <1>2
  <2>4. QED
    BY <1>1, <1>2, <1>3, <1>4, <1>5, <1>6, <2>1, <2>2, <2>3, TurnKeeps
<1>8. Same
  <2>1. Members' = Members /\ \A v \in Members : worker'[v].client = worker[v].client
    BY <1>3 DEF Members, Core
  <2>2. QED
    BY <1>2, <2>1, IdsSame DEF Same
<1>9. QED
  BY <1>4, <1>7, <1>8

\* A generation that stops here has nobody committed: the coordinator had its last client.
LEMMA CancelKeeps ==
    ASSUME IInv, NEW w \in Workers, CancelSession(w)
    PROVE  IInv' /\ (Same \/ Gen!Abandon) /\ (acked => NoWord)
<1> USE Parts DEF IInv
<1>1. TypeOK' /\ Books'
  BY CancelBooks
<1>2. /\ worker[w].pc = "cancel"
      /\ service' = IF coordinator.state = "stopping" THEN BeginStopping(service, FALSE) ELSE service
      /\ UNCHANGED <<coordinator, conn, client, accept, host, budget, acked>>
  BY DEF CancelSession, At
<1>3. /\ Alone(w) /\ CallKept(w) /\ worker'[w].pc = worker[w].after
      /\ worker'[w].committed = worker[w].committed
      /\ worker'[w].owner = worker[w].owner /\ worker'[w].client = worker[w].client
      /\ \A v \in Workers \ {w} : worker'[v] = worker[v]
  BY ToldTurn DEF Alone
<1>4. (\A v \in Workers : Peer(v)') /\ NoWord
  BY <1>2, <1>3, SilentPeers
<1>5. ~worker[w].owner /\ worker'[w].pc \notin {"drain", "ack"}
  BY <1>2, <1>3 DEF Silence, Owning, Parting, Worker
<1>6. /\ service'.active = service.active /\ service'.permanent = service.permanent
      /\ service'.state = IF coordinator.state = "stopping" /\ Running THEN "stopping"
                          ELSE service.state
  BY <1>2, BeginStoppingEffect DEF Running
<1>7. IInv'
  <2>1. /\ service'.active <= service.active
        /\ Running => service'.state # "exited"
        /\ ~Running => service'.state = service.state
    <3>1. service.active \in Nat
      BY DEF Service
    <3>2. Running => service.state # "exited"
      BY DEF Running
    <3>3. QED
      BY ONLY <1>6, <3>1, <3>2
  <2>2. coordinator'.state = "stopping" => coordinator'.clients = {} /\ ~service.permanent
    BY <1>2 DEF Ends
  <2>3. /\ worker[w].pc \notin {"drain", "ack"} /\ worker[w].pc # "free"
        /\ \A v \in Workers : conn'[v].up => conn[v].up
    BY <1>2
  <2>4. QED
    BY <1>1, <1>2, <1>3, <1>4, <1>5, <1>6, <2>1, <2>2, <2>3, TurnKeeps
<1>8. Ids' = Ids
  <2>1. Members' = Members /\ \A v \in Members : worker'[v].client = worker[v].client
    BY <1>3 DEF Members
  <2>2. QED
    BY <2>1, IdsSame
<1>9. Same \/ Gen!Abandon
  <2>1. CASE coordinator.state = "stopping" /\ Running
    <3>1. Ids = {} /\ ~service.permanent
      BY <2>1, MembersHold DEF Ends
    <3>2. QED
      BY <1>6, <1>8, <2>1, <3>1 DEF Gen!Abandon, Gen!Ask, Asked, Ids, Members, Running
  <2>2. CASE ~(coordinator.state = "stopping" /\ Running)
    BY <1>6, <1>8, <2>2 DEF Same
  <2>3. QED
    BY <2>1, <2>2
<1>10. QED
  BY <1>4, <1>7, <1>9

\* A session's end is none of Generation's concern.
LEMMA CloseKeeps ==
    ASSUME IInv, NEW w \in Workers, CloseSession(w)
    PROVE  IInv' /\ Same /\ (acked => NoWord)
<1> USE Parts DEF IInv
<1>1. TypeOK' /\ Books'
  BY CloseBooks
<1>2. /\ worker[w].pc = "join"
      /\ UNCHANGED <<service, coordinator, conn, client, accept, host, budget, acked>>
  BY DEF CloseSession, At
<1>3. /\ Alone(w) /\ worker'[w].pc = "account" /\ worker'[w].app = "none" /\ ~worker'[w].appDone
      /\ worker'[w].committed = worker[w].committed
      /\ worker'[w].owner = worker[w].owner /\ worker'[w].client = worker[w].client
      /\ \A v \in Workers \ {w} : worker'[v] = worker[v]
  BY CloseTurn DEF Alone
<1>4. (\A v \in Workers : Peer(v)') /\ NoWord
  <2>1. \A v \in Workers : Mute(v) /\ Hears(v) /\ Dully(v)
    BY <1>2 DEF Mute, Hears, Dully
  <2>2. Peer(w)'
    BY <1>2, <1>3, <2>1, PeerQuiet
  <2>3. \A v \in Workers \ {w} : CallKept(v)
    BY <1>3 DEF CallKept
  <2>4. QED
    BY <1>2, <2>1, <2>2, <2>3, PeersKept, Unsaid
<1>5. IInv'
  BY <1>1, <1>2, <1>3, <1>4, TurnKeeps DEF Owning, Parting, Service, Running, Ends
<1>6. Same
  <2>1. Members' = Members /\ \A v \in Members : worker'[v].client = worker[v].client
    BY <1>3 DEF Members
  <2>2. QED
    BY <1>2, <2>1, IdsSame DEF Same
<1>7. QED
  BY <1>4, <1>5, <1>6

\* Nor is the worker's end.
LEMMA AccountKeeps ==
    ASSUME IInv, NEW w \in Workers, Account(w)
    PROVE  IInv' /\ Same /\ (acked => NoWord)
<1> USE Parts DEF IInv
<1>1. /\ TypeOK' /\ Books' /\ service'.active <= service.active
      /\ service'.state = service.state /\ service'.permanent = service.permanent
      /\ Members' = Members
  BY AccountBooks
<1>2. /\ worker[w].pc = "account"
      /\ conn' = [conn EXCEPT ![w].open = FALSE, ![w].up = FALSE, ![w].in = <<>>]
      /\ UNCHANGED <<coordinator, client, session, accept, host, budget, acked>>
  BY DEF Account, At
<1>3. /\ Alone(w) /\ CallKept(w) /\ worker'[w].pc \in {"tail", "returned"}
      /\ worker'[w].owner = worker[w].owner /\ worker'[w].client = worker[w].client
      /\ \A v \in Workers \ {w} : worker'[v] = worker[v]
  BY AccountTurn DEF Alone
<1>4. /\ conn'[w].in = <<>> /\ ~conn'[w].up /\ Mute(w)
      /\ \A v \in Workers \ {w} : conn'[v] = conn[v]
  BY <1>2 DEF Conn, Mute
<1>5. (\A v \in Workers : Peer(v)') /\ NoWord
  <2>1. Peer(w)'
    BY <1>2, <1>3, <1>4, PeerQuiet DEF Dully
  <2>2. \A v \in Workers \ {w} : CallKept(v) /\ conn'[v].in = conn[v].in /\ Mute(v)
    BY <1>3, <1>4 DEF CallKept, Mute
  <2>3. QED
    BY <1>2, <1>4, <2>1, <2>2, PeersKept, Unsaid
<1>6. IInv'
  BY <1>1, <1>2, <1>3, <1>4, <1>5, TurnKeeps DEF Owning, Parting, Service, Running, Ends
<1>7. Same
  <2>1. \A v \in Members : worker'[v].client = worker[v].client
    BY <1>3 DEF Members
  <2>2. QED
    BY <1>1, <2>1, IdsSame DEF Same
<1>8. QED
  BY <1>5, <1>6, <1>7

\* Slots of returned workers are given back: their connections were shut before.
LEMMA SlotsHush ==
    ASSUME IInv, NEW R \in SUBSET Workers, \A w \in R : worker[w].pc = "returned",
           \A w \in R : worker'[w] = Blank, \A w \in Workers \ R : worker'[w] = worker[w],
           \A w \in Workers : conn'[w].up => conn[w].up,
           service' = service, acked' = acked
    PROVE  HushStep /\ \A w \in Workers : InUse(w)' => InUse(w)
<1> USE DEF IInv
<1>1. /\ \A v \in Workers : worker[v].owner => worker[v].pc \in Owning
      /\ \A v \in Workers : worker[v].pc \in {"drain", "ack"} => worker[v].owner
  BY DEF Silence
<1>2. ~Blank.owner /\ Blank.pc = "free"
  BY BlankIsBlank DEF BlankFields
<1>3. \A w \in R : ~conn[w].up
  BY DEF Books, Station
<1>4. ASSUME NEW v \in Workers
      PROVE  LET r == worker[v]
                 s == worker'[v]
             IN /\ conn'[v].up => conn[v].up \/ Running
                /\ s.owner => r.owner /\ s.client = r.client /\ s.pc \in Owning
                /\ r.owner /\ ~s.owner => ~conn'[v].up
                /\ s.pc \in {"drain", "ack"} => r.pc \in {"drain", "ack"} /\ s.owner
                /\ s.pc = "drain" => r.pc = "drain"
                /\ s.owner /\ r.pc = "drain" /\ s.pc # "drain" =>
                       \A u \in Workers \ {v} : ~conn'[u].up
  <2>1. CASE v \in R
    BY <1>2, <1>3, <2>1
  <2>2. CASE v \notin R
    BY <1>1, <2>2
  <2>3. QED
    BY <2>1, <2>2
<1>5. HushStep
  BY <1>4 DEF HushStep, Running
<1>6. \A w \in Workers : InUse(w)' => InUse(w)
  BY <1>2 DEF InUse
<1>7. QED
  BY <1>5, <1>6

\* Nor is its slot.
LEMMA ReapKeeps ==
    ASSUME IInv, NEW w \in Workers, Reap(w)
    PROVE  IInv' /\ Same /\ (acked => NoWord)
<1> USE Parts DEF IInv
<1>1. TypeOK' /\ Books' /\ Members' = Members
  BY ReapBooks
<1>2. /\ worker[w].pc = "returned" /\ worker' = [worker EXCEPT ![w] = Blank]
      /\ conn' = [conn EXCEPT ![w] = NoConn] /\ client' = [client EXCEPT ![w] = NoClient]
      /\ UNCHANGED <<service, coordinator, session, accept, host, budget, acked>>
  BY DEF Reap, At
<1>3. /\ worker'[w] = Blank /\ conn'[w] = NoConn
      /\ \A v \in Workers \ {w} :
            worker'[v] = worker[v] /\ conn'[v] = conn[v] /\ client'[v] = client[v]
  BY <1>2
<1>4. /\ Lacks(conn'[w].in, "request") /\ conn'[w].out = <<>> /\ ~conn'[w].up
  BY <1>3, EmptyLacks DEF NoConn
<1>5. Peer(w)'
  BY <1>3, <1>4, BlankIsBlank, PeerFresh DEF BlankFields
<1>6. \A v \in Workers \ {w} : CallKept(v) /\ conn'[v].in = conn[v].in /\ Mute(v)
  BY <1>3 DEF CallKept, Mute
<1>7. (\A v \in Workers : Peer(v)') /\ NoWord
  BY <1>3, <1>4, <1>5, <1>6, PeersKept, Unsaid
<1>8. HushStep /\ \A v \in Workers : InUse(v)' => InUse(v)
  <2>1. /\ {w} \in SUBSET Workers /\ \A v \in {w} : worker[v].pc = "returned" /\ worker'[v] = Blank
        /\ \A v \in Workers \ {w} : worker'[v] = worker[v]
        /\ \A v \in Workers : conn'[v].up => conn[v].up
    BY <1>2, <1>3, <1>4
  <2>2. QED
    BY <1>2, <2>1, SlotsHush
<1>9. Silence' /\ Ends'
  <2>1. EndsStep
    BY <1>2, <1>8 DEF EndsStep, Ends
  <2>2. QED
    BY <1>2, <1>8, <2>1, HushKeeps, EndsKeeps
<1>10. Same
  <2>1. \A v \in Members : worker'[v].client = worker[v].client
    BY <1>2, <1>3 DEF Members, Books, Station, Serving
  <2>2. QED
    BY <1>1, <1>2, <2>1, IdsSame DEF Same
<1>11. QED
  BY <1>1, <1>7, <1>9, <1>10

\* The host finds nobody at work, for the service has counted them out.
LEMMA FreesKeeps ==
    ASSUME IInv, HostFrees
    PROVE  IInv' /\ Same /\ (acked => NoWord)
<1> USE Parts DEF IInv
<1>1. TypeOK' /\ Books' /\ Members' = Members
  BY FreesBooks
<1> DEFINE R == {v \in Workers : worker[v].pc = "returned"}
<1>2. /\ worker' = [v \in Workers |-> IF worker[v].pc = "returned" THEN Blank ELSE worker[v]]
      /\ accept = "done"
      /\ UNCHANGED <<service, coordinator, conn, client, session, accept, budget, acked>>
  BY DEF HostFrees, HostFrame, At
<1>3. Active = {}
  BY <1>2, MembersHold DEF Ends
<1>4. \A v \in Workers : InUse(v) => worker[v].done /\ worker[v].pc = "returned"
  BY <1>3 DEF Active, HostFrees, At
<1>5. host' = "freed"
  BY <1>4 DEF HostFrees
<1>6. \A v \in Workers : worker'[v] = Blank \/ (worker'[v] = worker[v] /\ ~InUse(v))
  BY <1>2, <1>4
<1>7. \A v \in Workers : ~InUse(v)'
  BY <1>6, BlankIsBlank DEF InUse
<1>8. \A v \in Workers : Mute(v) /\ Hears(v) /\ Dully(v)
  BY <1>2 DEF Mute, Hears, Dully
<1>9. (\A v \in Workers : Peer(v)') /\ NoWord
  <2>1. \A v \in Workers : CallKept(v) \/ (worker'[v].app = "none" /\ ~worker'[v].appDone)
    BY <1>6, BlankIsBlank DEF CallKept, BlankFields
  <2>2. QED
    BY <1>2, <1>8, <2>1, PeerQuiet, Unsaid
<1>10. HushStep
  <2>1. /\ R \in SUBSET Workers /\ \A v \in R : worker[v].pc = "returned" /\ worker'[v] = Blank
        /\ \A v \in Workers \ R : worker'[v] = worker[v]
    BY <1>2
  <2> HIDE DEF R
  <2>2. QED
    BY <1>2, <2>1, SlotsHush
<1>11. Silence' /\ Ends'
  <2>1. EndsStep
    BY <1>2, <1>5, <1>7 DEF EndsStep, Ends
  <2>2. QED
    BY <1>2, <1>10, <2>1, HushKeeps, EndsKeeps
<1>12. Same
  <2>1. \A v \in Members : FALSE
    BY <1>2, <1>3, MembersHold DEF Ends
  <2>2. QED
    BY <1>1, <1>2, <2>1, IdsSame DEF Same
<1>13. QED
  BY <1>1, <1>9, <1>11, <1>12

\* A connection is no member yet, and only a running service takes one.
LEMMA AcceptKeeps ==
    ASSUME IInv, NEW w \in Workers, NEW kind \in Kind, Accept(w, kind)
    PROVE  IInv' /\ Same /\ (acked => NoWord)
<1> USE Parts DEF IInv
<1> DEFINE m == [op |-> "hello", token |-> 0]
           k == [NoConn EXCEPT !.open = TRUE, !.up = TRUE, !.in = <<m>>]
           r == [Blank EXCEPT !.pc = "first"]
<1>1. /\ TypeOK' /\ Books' /\ Members' = Members
      /\ service'.state = service.state /\ service'.permanent = service.permanent
  BY AcceptBooks
<1>2. /\ worker[w].pc = "free" /\ worker' = [worker EXCEPT ![w] = r] /\ Running
      /\ conn' = [conn EXCEPT ![w] = k]
      /\ \A v \in Workers \ {w} : client'[v] = client[v]
      /\ UNCHANGED <<coordinator, session, accept, host, acked>>
  BY DEF Accept, FreeSlots, InUse, HasRoom
<1>3. k.in = <<m>> /\ k.out = <<>>
  BY DEF NoConn
<1>4. Lacks(<<m>>, "request")
  BY DEF Lacks
<1>5. BlankFields(r) /\ r.pc = "first"
  BY BlankIsBlank
<1> HIDE DEF k, r, m
<1>6. /\ worker'[w] = r /\ conn'[w] = k
      /\ \A v \in Workers \ {w} : worker'[v] = worker[v] /\ conn'[v] = conn[v]
  BY <1>2
<1>7. \A v \in Workers : Peer(v)'
  <2>1. Peer(w)'
    BY <1>3, <1>4, <1>5, <1>6, PeerFresh DEF BlankFields
  <2>2. \A v \in Workers \ {w} : CallKept(v) /\ conn'[v].in = conn[v].in /\ Mute(v)
    BY <1>6 DEF CallKept, Mute
  <2>3. QED
    BY <1>2, <2>1, <2>2, PeersKept
<1>8. ~acked /\ \A v \in Workers : ~worker[v].owner /\ worker[v].pc \notin {"drain", "ack"}
  BY <1>2 DEF Silence
<1>9. Silence'
  <2>1. \A v \in Workers : ~worker'[v].owner /\ worker'[v].pc \notin {"drain", "ack"}
    BY <1>5, <1>6, <1>8 DEF BlankFields
  <2>2. QED
    BY <1>2, <1>8, <2>1 DEF Silence
<1>10. Ends'
  <2>1. accept # "done" /\ host # "freed" /\ service'.state # "exited"
    BY <1>1, <1>2 DEF Ends, Running
  <2>2. QED
    BY <1>1, <1>2, <2>1 DEF Ends
<1>11. Same
  <2>1. \A v \in Members : worker'[v].client = worker[v].client
    BY <1>2, <1>6 DEF Members, Books, Station, Serving
  <2>2. QED
    BY <1>1, <2>1, IdsSame DEF Same
<1>12. QED
  BY <1>1, <1>7, <1>8, <1>9, <1>10, <1>11

----------------------------------------------------------------------------
(* The service's own steps, and the theorems.                              *)

\* The service's own steps: no worker, client or session is touched, nobody is told anything.
OwnStep ==
    /\ UNCHANGED <<worker, client, coordinator, session, acked>>
    /\ service' \in Service /\ service'.active = service.active
    /\ service'.committed = service.committed /\ service'.permanent = service.permanent
    /\ ~Running => ~Running'
    /\ Wires /\ \A v \in Workers : conn'[v].in = conn[v].in /\ Mute(v)
    /\ accept' \in {"loop", "done"}
    /\ host' \in {"waiting", "stopping", "freed", "terminated"} /\ BudgetKept

\* Such a step keeps the invariant.
LEMMA ServiceKeeps ==
    ASSUME IInv, OwnStep, EndsStep
    PROVE  IInv' /\ Ids' = Ids /\ (acked => NoWord)
<1> USE Parts DEF IInv
<1>0. /\ UNCHANGED <<worker, client, coordinator, session, acked>>
      /\ service' \in Service /\ service'.active = service.active
      /\ service'.committed = service.committed /\ service'.permanent = service.permanent
      /\ conn' \in [Workers -> Conn] /\ budget' \in Allowed /\ budget'.session = budget.session
      /\ \A v \in Workers : conn'[v].open = conn[v].open /\ (conn'[v].up => conn[v].up)
      /\ \A v \in Workers : conn'[v].in = conn[v].in /\ Mute(v)
      /\ ~Running => ~Running'
  BY DEF OwnStep, Wires, BudgetKept
<1>1. Books'
  <2>1. \A v \in Workers : Station(v)'
    BY <1>0, Ranges, StationOther DEF Books
  <2>2. Active' = Active /\ Members' = Members /\ Holders' = Holders /\ Pending' = Pending
    BY <1>0 DEF Active, Members, Holders, Pending, InUse, At
  <2>3. Budgeted' /\ Distinct' /\ Kept' /\ Counted'
    BY <1>0, <2>2 DEF Books, Budgeted, Distinct, Kept, Counted
  <2>4. QED
    BY <2>1, <2>3 DEF Books
<1>2. TypeOK'
  BY <1>0, <1>1, TypeFromParts DEF OwnStep, Books
<1>3. (\A v \in Workers : Peer(v)') /\ NoWord
  <2>1. \A v \in Workers : CallKept(v) /\ client'[v] = client[v]
    BY <1>0 DEF CallKept
  <2>2. QED
    BY <1>0, <2>1, AllPeersKept, Unsaid
<1>4. Silence'
  BY <1>0, StillHush, HushKeeps
<1>5. Ends'
  BY EndsKeeps
<1>6. Ids' = Ids
  BY <1>0 DEF Ids, Members
<1>7. QED
  BY <1>1, <1>2, <1>3, <1>4, <1>5, <1>6

\* The accept loop's turn may be the Exit: nobody active, so nobody committed.
LEMMA WindDownKeeps ==
    ASSUME IInv, WindDown
    PROVE  IInv' /\ (Same \/ Gen!Exit) /\ (acked => NoWord)
<1> USE Parts DEF IInv
<1>1. /\ service.state = "stopping" /\ conn' = Interrupted({}, FALSE)
      /\ service' = IF CanExit THEN [service EXCEPT !.state = "exited"] ELSE service
      /\ UNCHANGED <<coordinator, worker, client, session, accept, host, budget, acked>>
      /\ accept = "loop"
  BY DEF WindDown
<1>2. /\ service' \in Service /\ service'.active = service.active
      /\ service'.committed = service.committed /\ service'.permanent = service.permanent
      /\ service'.state = IF CanExit THEN "exited" ELSE "stopping"
  BY <1>1 DEF Service
<1>3. OwnStep
  <2>1. /\ Wires /\ \A v \in Workers : Mute(v) /\ conn'[v].in = conn[v].in
    BY <1>1, Interrupts
  <2>2. ~Running'
    BY <1>2 DEF Running
  <2>3. QED
    BY <1>1, <1>2, <2>1, <2>2, SameBudget DEF OwnStep
<1>4. EndsStep
  BY <1>1, <1>2 DEF EndsStep, Ends, CanExit
<1>5. IInv' /\ Ids' = Ids /\ (acked => NoWord)
  BY <1>3, <1>4, ServiceKeeps
<1>6. CASE CanExit
  <2>1. Ids = {}
    BY <1>6, MembersHold DEF CanExit
  <2>2. QED
    BY <1>1, <1>2, <1>5, <1>6, <2>1 DEF Gen!Exit, Gen!Ask, Asked, Ids, Members
<1>7. CASE ~CanExit
  BY <1>1, <1>2, <1>5, <1>7 DEF Same
<1>8. QED
  BY <1>5, <1>6, <1>7

\* A signal is a Stop, or comes too late.
LEMMA HostStopsKeeps ==
    ASSUME IInv, HostStops
    PROVE  IInv' /\ (Same \/ Gen!Stop) /\ (acked => NoWord)
<1> USE Parts DEF IInv
<1>1. /\ host = "waiting" /\ service.state # "exited" /\ budget.host > 0
      /\ budget' = [budget EXCEPT !.host = @ - 1]
      /\ host' = "stopping" /\ service' = BeginStopping(service, TRUE)
      /\ UNCHANGED <<coordinator, worker, conn, client, session, accept, acked>>
  BY DEF HostStops, HostFrame
<1>2. /\ service' \in Service /\ service'.active = service.active
      /\ service'.committed = service.committed /\ service'.permanent = service.permanent
      /\ service'.state = IF service.state = "running" THEN "stopping" ELSE service.state
  BY <1>1, BeginStoppingEffect
<1>3. OwnStep
  <2>1. BudgetKept
    <3>1. budget.host - 1 \in Nat
      BY <1>1 DEF Allowed
    <3>2. QED
      BY <1>1, <3>1 DEF BudgetKept, Allowed
  <2>2. Wires /\ \A v \in Workers : conn'[v].in = conn[v].in /\ Mute(v)
    BY <1>1 DEF Wires, Mute
  <2>3. ~Running => ~Running'
    BY <1>2 DEF Running
  <2>4. QED
    BY <1>1, <1>2, <2>1, <2>2, <2>3 DEF OwnStep
<1>4. EndsStep
  BY <1>1, <1>2 DEF EndsStep, Ends
<1>5. IInv' /\ Ids' = Ids /\ (acked => NoWord)
  BY <1>3, <1>4, ServiceKeeps
<1>6. CASE service.state = "running"
  <2>1. "now" \in Asked
    BY <1>1 DEF Asked
  <2>2. QED
    BY <1>2, <1>5, <1>6, <2>1 DEF Gen!Stop, Gen!Ask, Asked, Ids, Members
<1>7. CASE service.state # "running"
  BY <1>2, <1>5, <1>7 DEF Same
<1>8. QED
  BY <1>5, <1>6, <1>7

\* The accept loop ends, the deadline passes, or nothing happens at all.
LEMMA IdleKeeps ==
    ASSUME IInv, AcceptEnds \/ DeadlinePasses \/ UNCHANGED vars
    PROVE  IInv' /\ Same /\ (acked => NoWord)
<1> USE Parts DEF IInv
<1>1. /\ service' = service \/ service' = [service EXCEPT !.force = TRUE]
      /\ UNCHANGED <<coordinator, worker, conn, client, session, host, budget, acked>>
      /\ accept' = accept \/ (accept' = "done" /\ service' = service /\ service.state = "exited")
  BY DEF AcceptEnds, DeadlinePasses, vars
<1>2. /\ service' \in Service /\ service'.active = service.active
      /\ service'.committed = service.committed /\ service'.permanent = service.permanent
      /\ service'.state = service.state
  BY <1>1 DEF Service
<1>3. OwnStep
  <2>1. Wires /\ \A v \in Workers : conn'[v].in = conn[v].in /\ Mute(v)
    BY <1>1 DEF Wires, Mute
  <2>2. QED
    BY <1>1, <1>2, <2>1, SameBudget DEF OwnStep, Running
<1>4. EndsStep
  BY <1>1, <1>2 DEF EndsStep, Ends, InUse
<1>5. QED
  BY <1>2, <1>3, <1>4, ServiceKeeps DEF Same

\* What is shown of every step.
StepKeeps == IInv' /\ Gen!Next /\ (acked => NoWord)

\* Every step of a worker, its thread or its client.
LEMMA WorkerKeeps ==
    ASSUME IInv, NEW w \in Workers,
           RequestStep(w) \/ ServingStep(w) \/ LeavingStep(w) \/ ClientStep(w)
    PROVE  StepKeeps
<1> USE DEF StepKeeps
<1>1. CASE Plain(w) \/ CallStep(w) \/ ClientStep(w)
  BY <1>1, PlainKeeps, CallKeeps, ClientKeeps, Stutters
<1>2. CASE Verdict(w)
  <2>1. CASE Accepts(w)
    BY <1>2, <2>1, VerdictKeeps DEF Gen!Next
  <2>2. CASE ~Accepts(w)
    BY <1>1, <1>2, <2>2 DEF Plain
  <2>3. QED
    BY <2>1, <2>2
<1>3. CASE Admit(w)
  <2>1. CASE Running /\ coordinator.state = "running"
    BY <1>3, <2>1, AdmitKeeps, Stutters
  <2>2. CASE ~(Running /\ coordinator.state = "running")
    BY <1>1, <1>3, <2>2 DEF Plain
  <2>3. QED
    BY <2>1, <2>2
<1>4. CASE Open(w)
  <2>1. Opens(w) \/ (Undo(w) /\ Fault /\ UNCHANGED session)
    BY <1>4 DEF Open, Opens, At
  <2>2. CASE Opens(w)
    BY <2>2, OpenKeeps, Stutters
  <2>3. CASE Undo(w) /\ Fault /\ UNCHANGED session
    BY <1>1, <1>4, <2>3 DEF Plain
  <2>4. QED
    BY <2>1, <2>2, <2>3
<1>5. CASE Commit(w)
  <2>1. CASE Committable(w)
    <3>1. PICK c \in ClientId : Gen!Join(c)
      BY <1>5, <2>1, CommitKeeps
    <3>2. IInv' /\ (acked => NoWord)
      BY <1>5, <2>1, CommitKeeps
    <3>3. QED
      BY <3>1, <3>2 DEF Gen!Next
  <2>2. CASE ~Committable(w)
    BY <1>1, <1>5, <2>2 DEF Plain
  <2>3. QED
    BY <2>1, <2>2
<1>6. CASE HandleApplication(w)
  <2>1. Reusable(w)
    BY <1>6, AskedIsReusable, Parts DEF HandleApplication, IInv
  <2>2. QED
    BY <1>1, <1>6, <2>1 DEF CallStep
<1>7. CASE Disconnect(w)
  <2>1. IInv' /\ (acked => NoWord)
    BY <1>7, DisconnectKeeps
  <2>2. Same \/ \E c \in ClientId : Gen!Leave(c)
    BY <1>7, DisconnectKeeps
  <2>3. QED
    BY <2>1, <2>2, Stutters DEF Gen!Next
<1>8. CASE CancelSession(w)
  BY <1>8, CancelKeeps, Stutters DEF Gen!Next
<1>9. CASE Release(w) \/ CloseSession(w) \/ Account(w)
  BY <1>9, ReleaseKeeps, CloseKeeps, AccountKeeps, Stutters
<1>10. QED
  BY <1>1, <1>2, <1>3, <1>4, <1>5, <1>6, <1>7, <1>8, <1>9
     DEF RequestStep, ServingStep, LeavingStep, Plain, CallStep

\* Every step of the system.
LEMMA EveryStepKeeps ==
    ASSUME IInv, [Next]_vars
    PROVE  StepKeeps
<1>1. CASE \E w \in Workers : RequestStep(w) \/ ServingStep(w) \/ LeavingStep(w) \/ ClientStep(w)
  BY <1>1, WorkerKeeps
<1>2. CASE \E w \in Workers : Reap(w)
  BY <1>2, ReapKeeps, Stutters DEF StepKeeps
<1>3. CASE Arrive
  BY <1>3, AcceptKeeps, Stutters DEF StepKeeps, Arrive
<1>4. CASE HostFrees
  BY <1>4, FreesKeeps, Stutters DEF StepKeeps
<1>5. CASE WindDown
  BY <1>5, WindDownKeeps, Stutters DEF StepKeeps, Gen!Next
<1>6. CASE HostStops
  BY <1>6, HostStopsKeeps, Stutters DEF StepKeeps, Gen!Next
<1>7. CASE AcceptEnds \/ DeadlinePasses \/ UNCHANGED vars
  BY <1>7, IdleKeeps, Stutters DEF StepKeeps
<1>8. QED
  BY <1>1, <1>2, <1>3, <1>4, <1>5, <1>6, <1>7 DEF Next, LoopStep, Rest

\* The initial states satisfy the invariant.
LEMMA InitIInv ==
    ASSUME Init
    PROVE  IInv
<1>1. budget \in Allowed /\ budget.session <= MaxClients /\ budget.session \in Nat
      /\ budget.permanent \in BOOLEAN /\ MaxClients \in Nat
  BY BudgetsAssumption, CapacityAssumption DEF Init, Allowed
<1>2. /\ \A w \in Workers : worker[w] = Blank /\ conn[w] = NoConn /\ client[w] = NoClient
      /\ worker \in [Workers -> Worker] /\ conn \in [Workers -> Conn] /\ client \in [Workers -> Client]
  BY BlankTypes DEF Init
<1>3. BlankFields(Blank) /\ Blank.pc = "free" /\ Blank.after = "join"
  BY BlankIsBlank
<1>4. Active = {} /\ Members = {} /\ Holders = {} /\ Pending = {}
  BY <1>2, <1>3 DEF Active, Members, Holders, Pending, InUse, At, BlankFields
<1>5. TypeOK
  <2>1. service \in Service /\ service.active = 0 /\ service.committed = 0 /\ 0 \in 0..Capacity
    BY <1>1, CapacityAssumption DEF Init, Service
  <2>2. session \in Seq({"none", "open", "cancelled", "closed"}) /\ Len(session) = 0
    BY DEF Init
  <2>3. QED
    BY <1>1, <1>2, <2>1, <2>2 DEF TypeOK, Init, Conn
<1>6. Books
  <2>1. ASSUME NEW w \in Workers PROVE Station(w)
    <3>1. worker[w] = Blank /\ ~conn[w].open /\ ~conn[w].up /\ coordinator.last = 0
      BY <1>2 DEF Init, NoConn
    <3>2. QED
      BY <1>3, <3>1 DEF Station, BlankFields, Early, Serving, Ending
  <2>2. Budgeted
    BY <1>1, <1>4, FS_EmptySet DEF Init, Budgeted
  <2>3. Distinct /\ Kept
    BY <1>2, <1>3 DEF Distinct, Kept, BlankFields, Init
  <2>4. Counted
    BY <1>4, FS_EmptySet DEF Counted, Init
  <2>5. QED
    BY <2>1, <2>2, <2>3, <2>4 DEF Books
<1>7. \A w \in Workers : Peer(w)
  BY <1>2, <1>3, EmptyLacks, LacksFits DEF Peer, Busy, NoConn, BlankFields
<1>8. Silence
  BY <1>2, <1>3 DEF Silence, BlankFields, Init
<1>9. Ends
  BY DEF Ends, Init
<1>10. QED
  BY <1>5, <1>6, <1>7, <1>8, <1>9 DEF IInv

\* The invariant is what ConnectionsSound needs.
LEMMA IInvSound ==
    ASSUME IInv
    PROVE  ConnectionsSound
<1> USE Parts DEF IInv
<1>1. CountsMatch
  <2>1. ASSUME NEW v \in Holders, NEW w \in Holders, worker[v].client = worker[w].client
        PROVE  v = w
    <3>1. v \in Workers /\ w \in Workers /\ worker[v].client # 0
      BY DEF Holders, Books, Station, At, Early, Ending
    <3>2. QED
      BY <2>1, <3>1 DEF Books, Distinct
  <2>2. QED
    BY <2>1 DEF CountsMatch, Books, Counted, Active, Members
<1>2. SessionsOwned
  <2>1. ASSUME NEW w \in Workers
        PROVE  /\ worker[w].committed => worker[w].admitted /\ session[worker[w].client] = "open"
               /\ worker[w].app # "none" => worker[w].opened /\ conn[w].open
               /\ worker[w].opened => session[worker[w].client] \in {"open", "cancelled"}
               /\ At(w, "join") /\ worker[w].opened => session[worker[w].client] = "cancelled"
    BY DEF Books, Station, At, Serving, Ending, Early
  <2>2. QED
    BY <2>1 DEF SessionsOwned, Books, Kept
<1>3. NothingOutlives
  <2>1. ASSUME service.state = "exited"
        PROVE  /\ coordinator.clients = {} /\ service.committed = 0
               /\ \A w \in Workers : worker[w].app = "none" /\ ~worker[w].opened
    <3>1. Active = {} /\ Members = {}
      BY <2>1, MembersHold DEF Ends
    <3>2. \A w \in Workers : worker[w].pc = "free" \/ worker[w].done
      BY <3>1 DEF Active, InUse
    <3>3. \A w \in Workers : worker[w].pc \in {"free", "tail", "returned"}
      BY <3>2 DEF Books, Station
    <3>4. \A w \in Workers : ~worker[w].opened /\ worker[w].app = "none" /\ ~worker[w].admitted
      BY <3>3 DEF Books, Station, Ending, Early, Serving
    <3>5. Holders = {}
      BY <3>3, <3>4 DEF Holders, At
    <3>6. coordinator.clients = {} /\ service.committed = 0
      BY <3>1, <3>5, FS_EmptySet DEF Books, Counted
    <3>7. QED
      BY <3>4, <3>6
  <2>2. QED
    BY <2>1 DEF NothingOutlives, Ends
<1>4. AnswersMatch
  BY DEF AnswersMatch, Peer, Fits, Lacks
<1>5. QED
  BY <1>1, <1>2, <1>3, <1>4 DEF ConnectionsSound

\* IInv holds in every reachable state of runtime.c's service, for every capacity and bound.
THEOREM Invariance == Spec => []IInv
<1>1. Init => IInv
  BY InitIInv
<1>2. IInv /\ [Next]_vars => IInv'
  BY EveryStepKeeps DEF StepKeeps
<1>3. QED
  BY <1>1, <1>2, PTL DEF Spec

\* runtime.c's counters, sessions, exits and answers are right in every reachable state.
THEOREM ConnectionsAreSound == Spec => []ConnectionsSound
<1>1. IInv => ConnectionsSound
  BY IInvSound
<1>2. QED
  BY <1>1, Invariance, PTL

\* Once runtime.c has acknowledged a stop, no connection of it is told anything more.
THEOREM AcknowledgedIsDraining == Spec => AckMeansDraining
<1>1. IInv /\ [Next]_vars =>
        [acked => \A w \in Workers : Len(conn'[w].out) <= Len(conn[w].out)]_vars
  BY EveryStepKeeps DEF StepKeeps, NoWord
<1>2. QED
  BY <1>1, Invariance, PTL DEF Spec, AckMeansDraining

\* Each step of runtime.c's service is one of Generation's or changes nothing that it sees.
THEOREM Refinement == Spec => ImplementsGeneration
<1>1. Init => Gen!Init
  <2>1. ASSUME Init PROVE Gen!Init
    <3>1. {w \in Workers : worker[w].committed} = {}
      BY <2>1, BlankIsBlank DEF Init, BlankFields
    <3>2. service.state = "running" /\ service.permanent \in BOOLEAN
      BY <2>1, InitIInv DEF Init, IInv, TypeOK, Service
    <3>3. QED
      BY <3>1, <3>2 DEF Gen!Init, Asked
  <2>2. QED
    BY <2>1
<1>2. IInv /\ [Next]_vars => [Gen!Next]_Gen!vars
  BY EveryStepKeeps DEF StepKeeps
<1>3. QED
  BY <1>1, <1>2, Invariance, PTL DEF Spec, ImplementsGeneration, Gen!Spec
=============================================================================
