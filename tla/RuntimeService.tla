--------------------------- MODULE RuntimeService ---------------------------
(***************************************************************************)
(* daemon/runtime.c: the service that admits clients to one generation of  *)
(* the daemon, serves their requests, and brings the generation to an end. *)
(*                                                                         *)
(* Threads: the accept loop; one worker per connection; one request thread *)
(* under a worker; the host.  service->mutex guards service and the        *)
(* admission flags, and an action is at most one critical section of it.   *)
(* The clients are the functions of runtime.c that run in other processes: *)
(* one exchange at a time, a cancel beside it, and a close.                *)
(*                                                                         *)
(* Left out: what nobody in the program sends (heartbeats and the          *)
(* subscriptions of the protocol), joins and locks that cannot fail,       *)
(* memory exhaustion, and the host's forced exit after its own deadline.   *)
(***************************************************************************)
EXTENDS Integers, Sequences, FiniteSets

CONSTANTS
    Capacity,       \* service->worker_capacity
    MaxClients,     \* bound: sessions of a run
    Budgets         \* bound: what may happen, one record per kind of run

Kind == {"session", "activation", "stop"}
Allowed == [session : Nat, activation : Nat, stop : Nat, \* connections that arrive
            requests : Nat,     \* requests of one client
            faults : Nat,       \* deaths, silence, threads and sessions that fail to start
            host : Nat,         \* signals
            permanent : BOOLEAN]

ASSUME CapacityAssumption == Capacity \in Nat \ {0} /\ MaxClients \in Nat
ASSUME BudgetsAssumption ==
    Budgets \subseteq Allowed /\ \A b \in Budgets : b.session <= MaxClients

VARIABLES
    service,        \* the service: state, counters and flags
    coordinator,    \* its coordinator: state, clients, the last identity issued
    worker,         \* [Workers -> slot and the thread that runs it]
    conn,           \* [Workers -> the connection of the slot]
    client,         \* [Workers -> the process at the other end]
    session,        \* history: what the application was told of each client's session
    accept,         \* the accept loop
    host,           \* the thread of cbm_daemon_host_run
    budget,         \* bound: what may still happen
    acked           \* history: an activation or a stop was told it is accepted

vars == <<service, coordinator, worker, conn, client, session, accept, host, budget, acked>>

Workers == 1..Capacity
ClientId == 1..MaxClients
Token == Nat
Frame == [op : {"hello", "request", "cancel", "close_intent", "disconnect"}, token : Token]
Reply == [op : {"accepted", "rejected", "answer", "busy", "bye", "ack", "refused"}, token : Token]

Service == [state : {"running", "stopping", "exited"}, active : Nat, committed : Nat,
            permanent : BOOLEAN, force : BOOLEAN, activation : BOOLEAN, inflight : BOOLEAN]
Place == {"free", "first", "admit", "open", "commit", "welcome", "loop", "receive", "verdict",
          "drain", "ack", "disconnect", "release", "cancel", "reject", "bye", "join", "account",
          "tail", "returned"}
Worker == [pc : Place, after : {"reject", "loop", "bye", "join"}, client : ClientId \cup {0},
           admitted : BOOLEAN, committed : BOOLEAN, final : BOOLEAN, owner : BOOLEAN,
           opened : BOOLEAN, cancelled : BOOLEAN, disconnecting : BOOLEAN, done : BOOLEAN,
           app : {"none", "calling", "sending", "sent", "returned"}, appDone : BOOLEAN,
           token : Token, last : Token, hit : BOOLEAN]
Client == [kind : Kind, pc : {"none", "hello", "idle", "asking", "leaving", "gone"},
           token : Token, cancelled : BOOLEAN]

Blank == [pc |-> "free", after |-> "join", client |-> 0, admitted |-> FALSE,
          committed |-> FALSE, final |-> FALSE, owner |-> FALSE, opened |-> FALSE,
          cancelled |-> FALSE, disconnecting |-> FALSE, done |-> FALSE, app |-> "none",
          appDone |-> FALSE, token |-> 0, last |-> 0, hit |-> FALSE]
NoClient == [kind |-> "session", pc |-> "none", token |-> 0, cancelled |-> FALSE]
NoConn == [open |-> FALSE, up |-> FALSE, eof |-> FALSE, in |-> <<>>, out |-> <<>>]

TypeOK ==
    /\ service \in Service
    /\ service.active \in 0..Capacity /\ service.committed \in 0..Capacity
    /\ coordinator \in [state : {"running", "stopping"}, clients : SUBSET ClientId,
                        last : ClientId \cup {0}]
    /\ worker \in [Workers -> Worker]
    /\ conn \in [Workers -> [open : BOOLEAN, up : BOOLEAN, eof : BOOLEAN,
                             in : Seq(Frame), out : Seq(Reply)]]
    /\ client \in [Workers -> Client]
    /\ session \in Seq({"none", "open", "cancelled", "closed"})
    /\ Len(session) = coordinator.last
    /\ accept \in {"loop", "done"}
    /\ host \in {"waiting", "stopping", "freed", "terminated"}
    /\ budget \in Allowed /\ acked \in BOOLEAN

Init ==
    /\ budget \in Budgets
    /\ service = [state |-> "running", active |-> 0, committed |-> 0,
                  permanent |-> budget.permanent, force |-> FALSE, activation |-> FALSE,
                  inflight |-> FALSE]
    /\ coordinator = [state |-> "running", clients |-> {}, last |-> 0]
    /\ worker = [w \in Workers |-> Blank]
    /\ conn = [w \in Workers |-> NoConn]
    /\ client = [w \in Workers |-> NoClient]
    /\ session = <<>>
    /\ accept = "loop" /\ host = "waiting" /\ acked = FALSE

----------------------------------------------------------------------------
(* Shared pieces.                                                          *)

Running == service.state = "running"
InUse(w) == worker[w].pc # "free"

(* runtime_service_begin_stopping_locked.  force stands for emergency_stop *)
(* and for a stop deadline that has passed: the code asks for both alike.  *)
BeginStopping(s, emergency) ==
    [s EXCEPT !.state = IF @ = "running" THEN "stopping" ELSE @, !.force = @ \/ emergency]

\* runtime_service_interrupt_connections_except
Protected(w, activation) == ~activation /\ ~service.force /\ worker[w].final
Interrupted(except, activation) ==
    IF service.inflight /\ ~activation THEN conn
    ELSE [w \in Workers |->
            IF w \notin except /\ conn[w].open /\ ~Protected(w, activation)
            THEN [conn[w] EXCEPT !.up = FALSE] ELSE conn[w]]

\* cbm_daemon_ipc_send_frame fails once either end has shut the connection down.
CanSend(w) == conn[w].up /\ ~conn[w].eof
Sent(w, op, token) == [conn EXCEPT ![w].out = Append(@, [op |-> op, token |-> token])]
SendIfUp(w, op, token) == IF CanSend(w) THEN Sent(w, op, token) ELSE conn

Fault == budget.faults > 0 /\ budget' = [budget EXCEPT !.faults = @ - 1]

Goto(w, pc) == worker' = [worker EXCEPT ![w].pc = pc]
At(w, pc) == worker[w].pc = pc
ToDisconnect(w, after) ==
    worker' = [worker EXCEPT ![w].pc = "disconnect", ![w].after = after,
                             ![w].disconnecting = TRUE]

----------------------------------------------------------------------------
(* The first frame of a connection: HELLO, or a one-shot control request.  *)

\* A refusal is sent outside the mutex and ends the connection.
TurnAway(w, op) ==
    /\ conn' = SendIfUp(w, op, 0)
    /\ ToDisconnect(w, "join")

FirstFrame(w) ==
    /\ At(w, "first") /\ conn[w].in # <<>>
    /\ conn' = [conn EXCEPT ![w].in = Tail(@)]
    /\ Goto(w, IF client[w].kind = "session" THEN "admit" ELSE "verdict")
    /\ UNCHANGED <<service, coordinator, client, session, accept, host, budget, acked>>

(* The connection is shut down, nothing arrives before request_timeout_ms, *)
(* or what arrives is a status request or a HELLO of another build.        *)
NoFirstFrame(w) ==
    /\ At(w, "first")
    /\ TurnAway(w, "rejected")
    /\ IF conn[w].up /\ ~conn[w].eof THEN Fault ELSE UNCHANGED budget
    /\ UNCHANGED <<service, coordinator, client, session, accept, host, acked>>

----------------------------------------------------------------------------
(* "daemon stop" and the shutdown that an activation asks for.             *)

Accepts(w) == Running /\ (client[w].kind = "stop" => service.committed = 0)

Verdict(w) ==
    /\ At(w, "verdict")
    /\ IF Accepts(w)
       THEN /\ service' = [BeginStopping(service, FALSE) EXCEPT
                              !.activation = TRUE, !.inflight = TRUE]
            /\ worker' = [worker EXCEPT ![w].pc = "drain", ![w].final = TRUE,
                                        ![w].owner = TRUE]
            /\ UNCHANGED conn
       ELSE TurnAway(w, "refused") /\ UNCHANGED service
    /\ UNCHANGED <<coordinator, client, session, accept, host, budget, acked>>

DrainLater(w) ==
    /\ At(w, "drain")
    /\ Goto(w, "ack")
    /\ UNCHANGED <<service, coordinator, conn, client, session, accept, host, budget, acked>>

\* Every other connection is interrupted before the acknowledgement leaves.
Drain(w) ==
    /\ At(w, "drain")
    /\ conn' = Interrupted({w}, TRUE)
    /\ Goto(w, "ack")
    /\ UNCHANGED <<service, coordinator, client, session, accept, host, budget, acked>>

Ack(w) ==
    /\ At(w, "ack")
    /\ conn' = SendIfUp(w, "ack", 0) /\ acked' = (acked \/ CanSend(w))
    /\ ToDisconnect(w, "join")
    /\ UNCHANGED <<service, coordinator, client, session, accept, host, budget>>

----------------------------------------------------------------------------
(* Admission: provisional in the coordinator, then a session, then a       *)
(* commit that a stopping service refuses.                                 *)

Admit(w) ==
    /\ At(w, "admit")
    /\ IF Running /\ coordinator.state = "running"
       THEN LET c == coordinator.last + 1 IN
            /\ coordinator' = [coordinator EXCEPT !.last = c, !.clients = @ \cup {c}]
            /\ session' = Append(session, "none")
            /\ worker' = [worker EXCEPT ![w].pc = "open", ![w].client = c,
                                        ![w].admitted = TRUE, ![w].committed = FALSE]
            /\ UNCHANGED conn
       ELSE TurnAway(w, "rejected") /\ UNCHANGED <<coordinator, session>>
    /\ UNCHANGED <<service, client, accept, host, budget, acked>>

\* The worker is protected while it takes the admission back and says so.
Undo(w) ==
    worker' = [worker EXCEPT ![w].pc = "disconnect", ![w].after = "reject",
                             ![w].final = TRUE, ![w].disconnecting = TRUE]

Open(w) ==
    /\ At(w, "open")
    /\ \/ /\ session' = [session EXCEPT ![worker[w].client] = "open"]
          /\ worker' = [worker EXCEPT ![w].pc = "commit", ![w].opened = TRUE]
          /\ UNCHANGED budget
       \/ Undo(w) /\ Fault /\ UNCHANGED session
    /\ UNCHANGED <<service, coordinator, conn, client, accept, host, acked>>

CommittableAnytime(w) == worker[w].admitted /\ ~worker[w].committed
Committable(w) == Running /\ worker[w].admitted /\ ~worker[w].committed

Commit(w) ==
    /\ At(w, "commit")
    /\ IF Committable(w)
       THEN /\ service' = [service EXCEPT !.committed = @ + 1]
            /\ worker' = [worker EXCEPT ![w].pc = "welcome", ![w].committed = TRUE]
       ELSE Undo(w) /\ UNCHANGED service
    /\ UNCHANGED <<coordinator, conn, client, session, accept, host, budget, acked>>

Welcome(w) ==
    /\ At(w, "welcome")
    /\ conn' = SendIfUp(w, "accepted", 0)
    /\ IF CanSend(w) THEN Goto(w, "loop") ELSE ToDisconnect(w, "join")
    /\ UNCHANGED <<service, coordinator, client, session, accept, host, budget, acked>>

----------------------------------------------------------------------------
(* The frames of an admitted client.                                       *)

Loop(w) ==
    /\ At(w, "loop")
    /\ IF Running THEN Goto(w, "receive") ELSE ToDisconnect(w, "join")
    /\ UNCHANGED <<service, coordinator, conn, client, session, accept, host, budget, acked>>

\* What is queued in a connection that was interrupted may or may not be read.
EndOfStream(w) ==
    /\ At(w, "receive") /\ (~conn[w].up \/ (conn[w].eof /\ conn[w].in = <<>>))
    /\ ToDisconnect(w, "join")
    /\ UNCHANGED <<service, coordinator, conn, client, session, accept, host, budget, acked>>

Head1(w, op) == conn[w].in # <<>> /\ Head(conn[w].in).op = op
Took(w) == [conn EXCEPT ![w].in = Tail(@)]

ReusableAfterSend(w) == worker[w].app \in {"none", "returned"}
Reusable(w) == worker[w].app = "none" \/ worker[w].appDone
Told(w, r) ==
    [r EXCEPT !.pc = IF CanSend(w) THEN "loop" ELSE "disconnect", !.after = "join",
              !.disconnecting = @ \/ ~CanSend(w)]
Joined(r) == [r EXCEPT !.app = "none", !.appDone = FALSE, !.token = 0, !.hit = FALSE]

(* One request at a time, each with a later token than the last.  A thread *)
(* that has published its end is joined, which waits for the rest of it.   *)
Request(w) ==
    /\ At(w, "receive") /\ Head1(w, "request") /\ Head(conn[w].in).token > worker[w].last
    /\ Reusable(w) => worker[w].app \in {"none", "returned"}

HandleApplication(w) ==
    /\ Request(w)
    /\ LET t == Head(conn[w].in).token IN
       IF Reusable(w)
       THEN /\ worker' = [worker EXCEPT ![w] =
                            [Joined(@) EXCEPT !.app = "calling", !.token = t, !.last = t,
                                              !.pc = "loop"]]
            /\ conn' = Took(w)
       ELSE /\ worker' = [worker EXCEPT ![w] = Told(w, [@ EXCEPT !.last = t])]
            /\ conn' = [SendIfUp(w, "busy", t) EXCEPT ![w].in = Tail(@)]
    /\ UNCHANGED <<service, coordinator, client, session, accept, host, budget, acked>>

\* The request's thread cannot be created: the client is told, the slot stays free.
ApplicationFails(w) ==
    /\ Fault /\ Request(w) /\ Reusable(w)
    /\ LET t == Head(conn[w].in).token IN
       /\ worker' = [worker EXCEPT ![w] = Told(w, [Joined(@) EXCEPT !.last = t])]
       /\ conn' = [SendIfUp(w, "answer", t) EXCEPT ![w].in = Tail(@)]
    /\ UNCHANGED <<service, coordinator, client, session, accept, host, acked>>

HandleCancel(w) ==
    /\ At(w, "receive") /\ Head1(w, "cancel")
    /\ LET hits == /\ worker[w].app # "none" /\ ~worker[w].appDone
                   /\ worker[w].token = Head(conn[w].in).token
       IN worker' = [worker EXCEPT ![w].pc = "loop", ![w].hit = @ \/ hits]
    /\ conn' = Took(w)
    /\ UNCHANGED <<service, coordinator, client, session, accept, host, budget, acked>>

\* The session ends; the connection is read on until its end.
HandleCloseIntent(w) ==
    /\ At(w, "receive") /\ Head1(w, "close_intent")
    /\ ToDisconnect(w, "loop") /\ conn' = Took(w)
    /\ UNCHANGED <<service, coordinator, client, session, accept, host, budget, acked>>

HandleDisconnect(w) ==
    /\ At(w, "receive") /\ Head1(w, "disconnect")
    /\ worker' = [worker EXCEPT ![w].pc = "disconnect", ![w].after = "bye",
                                ![w].final = TRUE, ![w].disconnecting = TRUE]
    /\ conn' = Took(w)
    /\ UNCHANGED <<service, coordinator, client, session, accept, host, budget, acked>>

----------------------------------------------------------------------------
(* The thread of a request.  It publishes its end before the answer leaves *)
(* so that whoever has the answer finds the slot reusable.                 *)

Returns(w) ==
    /\ worker[w].app = "calling"
    /\ worker' = [worker EXCEPT ![w].app = "sending", ![w].appDone = TRUE]
    /\ UNCHANGED <<service, coordinator, conn, client, session, accept, host, budget, acked>>

SendAnswer(w) ==
    /\ worker[w].app = "sending"
    /\ conn' = IF worker[w].disconnecting THEN conn
               ELSE IF CanSend(w) THEN Sent(w, "answer", worker[w].token)
               ELSE [conn EXCEPT ![w].up = FALSE]
    /\ worker' = [worker EXCEPT ![w].app = "sent"]
    /\ UNCHANGED <<service, coordinator, client, session, accept, host, budget, acked>>

ThreadEnds(w) ==
    /\ worker[w].app = "sent"
    /\ worker' = [worker EXCEPT ![w].app = "returned"]
    /\ UNCHANGED <<service, coordinator, conn, client, session, accept, host, budget, acked>>

----------------------------------------------------------------------------
(* runtime_worker_disconnect: the flags of the service first, then the     *)
(* coordinator, then the application.                                      *)

\* The last committed client decides; provisional ones cannot keep the generation alive.
Departed(s, committed) ==
    IF ~committed THEN s
    ELSE LET n == IF s.committed > 0 THEN s.committed - 1 ELSE 0
             left == [s EXCEPT !.committed = n]
         IN IF n = 0 /\ ~s.permanent THEN BeginStopping(left, FALSE) ELSE left

Disconnect(w) ==
    /\ At(w, "disconnect")
    /\ service' = Departed(service, worker[w].committed)
    /\ worker' = [worker EXCEPT ![w].admitted = FALSE, ![w].committed = FALSE,
                                ![w].pc = IF worker[w].admitted THEN "release"
                                          ELSE worker[w].after]
    /\ UNCHANGED <<coordinator, conn, client, session, accept, host, budget, acked>>

\* cbm_daemon_client_disconnected: release_client_locked
Without(k, c) ==
    [k EXCEPT !.clients = @ \ {c},
              !.state = IF k.clients = {c} /\ ~service.permanent THEN "stopping" ELSE @]

Release(w) ==
    /\ At(w, "release")
    /\ coordinator' = Without(coordinator, worker[w].client)
    /\ Goto(w, "cancel")
    /\ UNCHANGED <<service, conn, client, session, accept, host, budget, acked>>

(* The application hears of it next; what the worker then reads of the     *)
(* coordinator does not depend on that.                                    *)
CancelSession(w) ==
    /\ At(w, "cancel")
    /\ IF worker[w].opened /\ ~worker[w].cancelled
       THEN session' = [session EXCEPT ![worker[w].client] = "cancelled"]
       ELSE UNCHANGED session
    /\ service' = IF coordinator.state = "stopping" THEN BeginStopping(service, FALSE)
                  ELSE service
    /\ worker' = [worker EXCEPT ![w].pc = worker[w].after,
                                ![w].cancelled = @ \/ worker[w].opened]
    /\ UNCHANGED <<coordinator, conn, client, accept, host, budget, acked>>

\* The last word of a worker that was protected to say it.
LastWord(w) ==
    /\ worker[w].pc \in {"reject", "bye"}
    /\ conn' = SendIfUp(w, IF At(w, "bye") THEN "bye" ELSE "rejected", 0)
    /\ worker' = [worker EXCEPT ![w].pc = "disconnect", ![w].after = "join",
                                ![w].final = FALSE]
    /\ UNCHANGED <<service, coordinator, client, session, accept, host, budget, acked>>

----------------------------------------------------------------------------
(* runtime_worker_finish, after the disconnect.                            *)

CloseSession(w) ==
    /\ At(w, "join") /\ worker[w].app \in {"none", "returned"}
    /\ IF worker[w].opened THEN session' = [session EXCEPT ![worker[w].client] = "closed"]
                           ELSE UNCHANGED session
    /\ worker' = [worker EXCEPT ![w] =
                    [Joined(@) EXCEPT !.pc = "account", !.opened = FALSE]]
    /\ UNCHANGED <<service, coordinator, conn, client, accept, host, budget, acked>>

\* What was sent stays readable at the other end; nothing more is.
Account(w) ==
    /\ At(w, "account")
    /\ conn' = [conn EXCEPT ![w].open = FALSE, ![w].up = FALSE, ![w].in = <<>>]
    /\ service' = [service EXCEPT !.active = IF @ > 0 THEN @ - 1 ELSE @]
    /\ worker' = [worker EXCEPT ![w].done = TRUE,
                                ![w].pc = IF worker[w].owner THEN "tail" ELSE "returned"]
    /\ UNCHANGED <<coordinator, client, session, accept, host, budget, acked>>

\* The requester of an accepted stop opens the gate; the stragglers are the accept loop's.
ReleaseGate(w) ==
    /\ At(w, "tail")
    /\ service' = [service EXCEPT !.inflight = FALSE]
    /\ worker' = [worker EXCEPT ![w].pc = "returned", ![w].final = FALSE]
    /\ UNCHANGED <<coordinator, conn, client, session, accept, host, budget, acked>>

----------------------------------------------------------------------------
(* The accept loop.  A turn of it reaps, then reads the state, then serves *)
(* or winds down: the reads are of what only grows worse, and the slots it *)
(* reaps are its own, so the parts of a turn may stand as actions of their *)
(* own and each of them for a turn.                                        *)

\* A worker that is done is joined, which waits for the end of its thread.
Reap(w) ==
    /\ accept = "loop" /\ At(w, "returned")
    /\ worker' = [worker EXCEPT ![w] = Blank]
    /\ conn' = [conn EXCEPT ![w] = NoConn]
    /\ client' = [client EXCEPT ![w] = NoClient]
    /\ UNCHANGED <<service, coordinator, session, accept, host, budget, acked>>

\* cbm_daemon_should_exit, or an empty coordinator that no client ever brought to its end.
Drained ==
    /\ coordinator.clients = {}
    /\ coordinator.state = "stopping" \/ service.activation

CanExit ==
    /\ service.state = "stopping" /\ service.active = 0
    /\ Drained \/ service.force

WindDownWaits ==
    /\ accept = "loop" /\ CanExit
    /\ service' = [service EXCEPT !.state = "exited"]
    /\ UNCHANGED <<coordinator, worker, conn, client, session, accept, host, budget, acked>>

\* A turn while the service stops.
WindDown ==
    /\ accept = "loop" /\ service.state = "stopping"
    /\ conn' = Interrupted({}, FALSE)
    /\ service' = IF CanExit THEN [service EXCEPT !.state = "exited"] ELSE service
    /\ UNCHANGED <<coordinator, worker, client, session, accept, host, budget, acked>>

FreeSlots == {w \in Workers : ~InUse(w)}
HasRoom == Running /\ service.active < Capacity /\ FreeSlots # {}

(* A connection with its first frame under way gets the first free slot    *)
(* and a thread.  One that finds no room, or a service that stops, is      *)
(* answered by the loop itself and leaves no trace.                        *)
Accept(w, kind) ==
    /\ accept = "loop" /\ budget[kind] > 0 /\ HasRoom
    /\ w \in FreeSlots /\ \A v \in FreeSlots : w <= v
    /\ budget' = [budget EXCEPT ![kind] = @ - 1]
    /\ worker' = [worker EXCEPT ![w] = [Blank EXCEPT !.pc = "first"]]
    /\ conn' = [conn EXCEPT ![w] =
                  [NoConn EXCEPT !.open = TRUE, !.up = TRUE,
                                 !.in = <<[op |-> "hello", token |-> 0]>>]]
    /\ client' = [client EXCEPT ![w] = [NoClient EXCEPT !.kind = kind, !.pc = "hello"]]
    /\ service' = [service EXCEPT !.active = @ + 1]
    /\ UNCHANGED <<coordinator, session, accept, host, acked>>

\* The last reap joins whoever is done.
AcceptEnds ==
    /\ accept = "loop" /\ service.state = "exited" /\ \A w \in Workers : ~worker[w].done
    /\ accept' = "done"
    /\ UNCHANGED <<service, coordinator, worker, conn, client, session, host, budget, acked>>

DeadlinePasses ==
    /\ service.state = "stopping" /\ ~service.force
    /\ service' = [service EXCEPT !.force = TRUE]
    /\ UNCHANGED <<coordinator, worker, conn, client, session, accept, host, budget, acked>>

----------------------------------------------------------------------------
(* The host's thread.                                                      *)

HostFrame == UNCHANGED <<coordinator, conn, client, session, accept, acked>>

(* A signal, or the window in which somebody has to connect has passed     *)
(* with nobody admitted.  It decides while the service runs and may come   *)
(* late.  The connections it interrupts are the next turn's as well.       *)
HostStops ==
    /\ host = "waiting" /\ service.state # "exited" /\ budget.host > 0
    /\ budget' = [budget EXCEPT !.host = @ - 1]
    /\ host' = "stopping" /\ service' = BeginStopping(service, TRUE)
    /\ UNCHANGED worker /\ HostFrame

\* cbm_daemon_runtime_service_free joins who is done; one that is not makes it give up.
HostFrees ==
    /\ host \in {"waiting", "stopping"} /\ accept = "done"
    /\ \A w \in Workers : worker[w].done => At(w, "returned")
    /\ host' = IF \A w \in Workers : InUse(w) => worker[w].done THEN "freed" ELSE "terminated"
    /\ worker' = [w \in Workers |-> IF At(w, "returned") THEN Blank ELSE worker[w]]
    /\ UNCHANGED <<service, budget>> /\ HostFrame

----------------------------------------------------------------------------
(* The process at the other end: cbm_daemon_runtime_client_*.              *)

ClientFrame == UNCHANGED <<service, coordinator, worker, session, accept, host, acked>>

Reach(w) == conn[w].open /\ conn[w].up /\ ~conn[w].eof
Queue(w, ops) ==
    [conn EXCEPT ![w].in =
        @ \o [i \in DOMAIN ops |-> [op |-> ops[i], token |-> client[w].token]]]
Gone(w) == client' = [client EXCEPT ![w].pc = "gone"]

ClientAsks(w) ==
    /\ client[w].pc = "idle" /\ client[w].token < budget.requests /\ Reach(w)
    /\ client' = [client EXCEPT ![w].pc = "asking", ![w].token = @ + 1, ![w].cancelled = FALSE]
    /\ conn' = [conn EXCEPT ![w].in =
                  Append(@, [op |-> "request", token |-> client[w].token + 1])]
    /\ UNCHANGED budget /\ ClientFrame

ClientCancels(w) ==
    /\ client[w].pc = "asking" /\ ~client[w].cancelled /\ Reach(w)
    /\ client' = [client EXCEPT ![w].cancelled = TRUE]
    /\ conn' = Queue(w, <<"cancel">>)
    /\ UNCHANGED budget /\ ClientFrame

\* close_begin: beside an exchange it announces the departure and shuts the connection.
ClientCloses(w) ==
    /\ client[w].pc \in {"idle", "asking"} /\ Reach(w)
    /\ IF client[w].pc = "idle"
       THEN /\ client' = [client EXCEPT ![w].pc = "leaving"]
            /\ conn' = Queue(w, <<"disconnect">>)
       ELSE /\ Gone(w)
            /\ conn' = [Queue(w, IF client[w].cancelled THEN <<"close_intent">>
                                 ELSE <<"cancel", "close_intent">>) EXCEPT ![w].eof = TRUE]
    /\ UNCHANGED budget /\ ClientFrame

ClientReads(w) ==
    /\ client[w].pc \notin {"none", "gone"} /\ conn[w].out # <<>>
    /\ LET reply == Head(conn[w].out)
           goesOn == \/ client[w].pc = "hello" /\ reply.op = "accepted"
                     \/ /\ client[w].pc = "asking" /\ reply.op \in {"answer", "busy"}
                        /\ reply.token = client[w].token
       IN IF goesOn
          THEN /\ client' = [client EXCEPT ![w].pc = "idle"]
               /\ conn' = [conn EXCEPT ![w].out = Tail(@)]
          ELSE Gone(w) /\ conn' = [conn EXCEPT ![w].out = Tail(@), ![w].eof = TRUE]
    /\ UNCHANGED budget /\ ClientFrame

\* It dies, or gives up waiting.
ClientDies(w) ==
    /\ client[w].pc \notin {"none", "gone"} /\ Fault
    /\ Gone(w) /\ conn' = [conn EXCEPT ![w].eof = TRUE]
    /\ ClientFrame

\* It finds its connection shut and nothing left to read in it.
ClientIsCut(w) ==
    /\ client[w].pc \notin {"none", "gone"} /\ ~conn[w].up /\ conn[w].out = <<>>
    /\ Gone(w) /\ conn' = [conn EXCEPT ![w].eof = TRUE]
    /\ UNCHANGED budget /\ ClientFrame

----------------------------------------------------------------------------

RequestStep(w) == Returns(w) \/ SendAnswer(w) \/ ThreadEnds(w)
ServingStep(w) ==
    \/ FirstFrame(w) \/ NoFirstFrame(w) \/ Verdict(w) \/ Drain(w) \/ Ack(w)
    \/ Admit(w) \/ Open(w) \/ Commit(w) \/ Welcome(w) \/ Loop(w) \/ EndOfStream(w)
    \/ HandleApplication(w) \/ ApplicationFails(w) \/ HandleCancel(w)
    \/ HandleCloseIntent(w) \/ HandleDisconnect(w)
LeavingStep(w) ==
    \/ Disconnect(w) \/ Release(w) \/ CancelSession(w) \/ LastWord(w)
    \/ CloseSession(w) \/ Account(w) \/ ReleaseGate(w)
LoopStep == WindDown \/ AcceptEnds \/ \E w \in Workers : Reap(w)
Arrive == \E w \in Workers, kind \in Kind : Accept(w, kind)
ClientStep(w) ==
    ClientAsks(w) \/ ClientCancels(w) \/ ClientCloses(w) \/ ClientReads(w) \/ ClientDies(w)
    \/ ClientIsCut(w)

\* The daemon is gone, or it runs and nobody asks anything of it.
Rest ==
    /\ \/ host = "freed"
       \/ Running /\ \A w \in Workers : InUse(w) => At(w, "receive") /\ client[w].pc = "idle"
    /\ UNCHANGED vars

Next ==
    \/ \E w \in Workers : RequestStep(w) \/ ServingStep(w) \/ LeavingStep(w) \/ ClientStep(w)
    \/ LoopStep \/ Arrive \/ DeadlinePasses \/ HostStops \/ HostFrees \/ Rest

Spec == Init /\ [][Next]_vars

(* Threads run and time passes.  The application returns from a request    *)
(* whose session or token it was told to cancel, and a client reads what   *)
(* it is sent; nothing else is asked of either.                            *)
Ordered(w) ==
    Returns(w) /\ (worker[w].hit \/ session[worker[w].client] = "cancelled")
Fairness ==
    /\ \A w \in Workers : /\ WF_vars(ServingStep(w) \/ LeavingStep(w))
                          /\ WF_vars(SendAnswer(w) \/ ThreadEnds(w)) /\ WF_vars(Ordered(w))
                          /\ WF_vars(ClientReads(w) \/ ClientIsCut(w))
    /\ WF_vars(LoopStep) /\ WF_vars(DeadlinePasses) /\ WF_vars(HostFrees)

FairSpec == Spec /\ Fairness

----------------------------------------------------------------------------
(* Properties.                                                             *)

Holders == {w \in Workers : worker[w].admitted \/ At(w, "release")}

\* The counters of the service and the clients of the coordinator are those of the workers.
CountsMatch ==
    /\ service.active = Cardinality({w \in Workers : InUse(w) /\ ~worker[w].done})
    /\ service.committed = Cardinality({w \in Workers : worker[w].committed})
    /\ coordinator.clients = {worker[w].client : w \in Holders}
    /\ \A v, w \in Holders : worker[v].client = worker[w].client => v = w

(* A session is cancelled before it is closed, closed after its request's  *)
(* thread has ended, and a committed client's session is neither.          *)
SessionsOwned ==
    /\ \A w \in Workers :
          /\ worker[w].committed => worker[w].admitted /\ session[worker[w].client] = "open"
          /\ worker[w].app # "none" => worker[w].opened /\ conn[w].open
          /\ worker[w].opened => session[worker[w].client] \in {"open", "cancelled"}
          /\ At(w, "join") /\ worker[w].opened => session[worker[w].client] = "cancelled"
    /\ \A c \in DOMAIN session : session[c] \in {"open", "cancelled"} =>
          \E w \in Workers : worker[w].client = c /\ worker[w].opened

\* After the exit nobody is left in the coordinator or the application, after it no thread.
NothingOutlives ==
    /\ service.state = "exited" =>
          /\ coordinator.clients = {} /\ service.committed = 0
          /\ \A w \in Workers : worker[w].app = "none" /\ ~worker[w].opened
    /\ host = "freed" => \A w \in Workers : ~InUse(w)
    /\ host # "terminated"

(* A client that sends its next request when it has the answer to the last *)
(* one is never told that the service is busy with it, and every answer is *)
(* to the request it waits for.                                            *)
AnswersMatch ==
    \A w \in Workers : \A i \in DOMAIN conn[w].out :
        LET reply == conn[w].out[i] IN
        /\ reply.op # "busy"
        /\ reply.op = "answer" => reply.token = client[w].token

(* However admissions, requests, departures, stops and exits interleave,   *)
(* the two services count the same clients, every session that was opened  *)
(* is cancelled and closed once and after its last callback, nothing       *)
(* outlives the exit or the free, and answers reach who waits for them.    *)
ConnectionsSound == TypeOK /\ CountsMatch /\ SessionsOwned /\ NothingOutlives /\ AnswersMatch

(* Once an activation or a stop has been told it is accepted, no session   *)
(* is told anything any more: the acknowledgement is the licence to act on *)
(* a daemon that drains (runtime.c:1680).                                  *)
AckMeansDraining ==
    [][acked => \A w \in Workers : Len(conn'[w].out) <= Len(conn[w].out)]_vars

Asked ==
    {a \in {"now", "if unused"} :
        \/ a = "now" /\ host = "waiting" /\ budget.host > 0
        \/ \E w \in Workers : /\ At(w, "verdict")
                              /\ client[w].kind = IF a = "now" THEN "activation" ELSE "stop"}
Gen == INSTANCE Generation WITH
    Client <- ClientId, phase <- service.state, permanent <- service.permanent,
    members <- {worker[w].client : w \in {v \in Workers : worker[v].committed}}, asked <- Asked

(* The service is a generation of the daemon: whoever is committed joined  *)
(* while it ran, the last one to leave ends it, "daemon stop" never ends   *)
(* it under a member, and it exits without members.                        *)
ImplementsGeneration == Gen!Spec

(* A service that stops exits, and a client that cancels its request does  *)
(* not wait for ever, although clients may stay silent, die, or never say  *)
(* that they leave.                                                        *)
EveryoneIsReleased ==
    /\ service.state = "stopping" ~> service.state = "exited"
    /\ \A w \in Workers :
          (client[w].pc = "asking" /\ client[w].cancelled) ~> client[w].pc # "asking"
=============================================================================
