------------------------------- MODULE Client -------------------------------
(***************************************************************************)
(* The client side: the functions that glibc calls                         *)
(* (overlay/tgcompat-glibc.c), the client of each thread (src/src/client.c)*)
(* and the stream sockets to the broker (src/src/transport.c).  The broker *)
(* is the abstract service of module SemService, which module Broker       *)
(* implements; here it may also be killed, restarted, or drop a connection.*)
(*                                                                         *)
(* A task is a thread of an application.  It has a connection of its own,  *)
(* opened by its first call; fork copies the client of the forking thread  *)
(* and every descriptor of the process.  A socket is an open connection,   *)
(* whatever its number in the processes that hold it.                      *)
(***************************************************************************)
EXTENDS Dispatch, Timeout

CONSTANTS Tasks,        \* threads
          PidOf,        \* the process of a thread
          Starts,       \* initial states: threads, exited processes, store; the calls
                        \* each thread makes, how many connections may be lost
          Socks,        \* connections that may exist at one time
          MaxExchanges, \* the most requests of a thread
          ClockReadings,\* what CLOCK_MONOTONIC may show
          MaxId         \* request IDs are 1..MaxId, then 1 again; UINT32_MAX

None == 0

\* The calls of a program: semop and the others that are one request;
\* semtimedop; GETALL and SETALL of semctl.
Calls ==
         [fn : {"single"}, request : Request]
    \cup [fn : {"semtimedop"}, semid : Int, ops : Seq(OpType),
          seconds : Int, nanoseconds : Int]
    \cup [fn : {"getall"}, semid : Int]
    \cup [fn : {"setall"}, semid : Int, value : Nat]

IsTwoStep(c) == c.fn \in {"getall", "setall"}

\* The most requests that a set of calls makes.
Cost(calls) == Cardinality(calls) + Cardinality({c \in calls : IsTwoStep(c)})

ASSUME ClientAssumption ==
    /\ PidOf \in [Tasks -> Pids]
    /\ Socks \subseteq Nat \ {None}
    /\ MaxId \in Nat \ {0} /\ MaxExchanges \in Nat
    /\ ClockReadings \subseteq [tv_sec : 0..INT_MAX, tv_nsec : 0..(NS - 1)]
    /\ \A start \in Starts :
         /\ start.exited \subseteq Pids /\ start.faults \in Nat /\ StoreTypeOK(start.store)
         /\ start.todo \in [Tasks -> SUBSET Calls]
         /\ \A t \in Tasks : /\ IsFiniteSet(start.todo[t])
                             /\ Cost(start.todo[t]) <= MaxExchanges

VARIABLES store, call, exited,  \* the service, see SemService
          up,      \* the broker is running
          faults,  \* the faults that may still happen
          todo,    \* the calls a thread still makes, in any order
          sock,    \* holders and peer of the client end; the server end is open; streams
          client,  \* struct tgc_client: socket_fd, connection_pid, next_request_id
          task,    \* where a thread is, the call it is in, and its request
          log,     \* how the exchanges of a thread ended
          decided  \* how often the service has decided on an exchange

serviceVars == <<store, call, exited>>
runVars == <<up, faults>>
taskVars == <<task, log, todo>>
vars == <<serviceVars, runVars, sock, client, taskVars, decided>>

Exchanges == Tasks \X (1..MaxExchanges)

FreeSock == [holders |-> {}, peer |-> None, open |-> FALSE, inbox |-> <<>>, outbox |-> <<>>]
NoClient == [socket_fd |-> None, connection_pid |-> None, next_request_id |-> 0]
Resting == [at |-> "idle"]

Server == INSTANCE SemService WITH
    Conn <- Socks, Requests <- {},
    Apply <- tgc_broker_dispatch, Payload <- response_payload,
    ExitOf <- process_exit, UsesUndo <- request_uses_undo,
    peer <- [s \in Socks |-> sock[s].peer],
    gone <- {s \in Socks : sock[s].holders = {}}

Init == /\ \E start \in Starts :
             /\ store = start.store
             /\ exited = start.exited
             /\ todo = start.todo /\ faults = start.faults
             /\ task = [t \in Tasks |-> [at |-> IF t \in start.first THEN "idle" ELSE "none"]]
        /\ call = [s \in Socks |-> Server!Idle]
        /\ up = TRUE
        /\ sock = [s \in Socks |-> FreeSock]
        /\ client = [t \in Tasks |-> NoClient]
        /\ log = [t \in Tasks |-> <<>>]
        /\ decided = [e \in Exchanges |-> 0]

-----------------------------------------------------------------------------
(* Sockets.                                                                  *)

\* One more thing goes wrong.
Fault == faults > 0 /\ faults' = faults - 1

\* A connection of which both ends are closed is no more.
Tidy(k) == IF k.holders = {} /\ ~k.open THEN FreeSock ELSE k

\* Process p closes its descriptor of s.
CloseFd(socks, s, p) ==
    IF s = None THEN socks
    ELSE [socks EXCEPT ![s] = Tidy([socks[s] EXCEPT !.holders = @ \ {p}])]

\* Process p connects as s: it is then the peer that SO_PEERCRED names.
tgc_transport_connect(socks, s, p) ==
    [socks EXCEPT ![s] = [@ EXCEPT !.holders = {p}, !.peer = p, !.open = TRUE]]

\* A packet is sent and received as a whole.
tgc_transport_send(stream, packet) == Append(stream, packet)

\* The broker closes its end; what it has not read is lost.
CloseServerEnd(k) == Tidy([k EXCEPT !.open = FALSE, !.inbox = <<>>])

-----------------------------------------------------------------------------
(* A call.                                                                   *)

\* IPC_STAT tells getall and setall the size of the caller's array.
first_request(c) ==
    CASE IsTwoStep(c) -> [opcode |-> "STAT", semid |-> c.semid]
      [] c.fn = "semtimedop" ->
             [opcode |-> "SEMOP", semid |-> c.semid, ops |-> c.ops, timed |-> TRUE,
              timeout_ns |-> wire_timeout(c.seconds, c.nanoseconds)]
      [] OTHER -> c.request

second_request(c, count) ==
    IF c.fn = "getall" THEN [opcode |-> "GETALL", semid |-> c.semid, count |-> count]
    ELSE [opcode |-> "SETALL", semid |-> c.semid,
          values |-> [s \in Sems(count) |-> c.value]]

keep_open(t) == sock  \* Mutant.

\* The sockets after tgc_client_close.
tgc_client_close(t) == CloseFd(sock, client[t].socket_fd, PidOf[t])

Disconnected(t) ==
    [client EXCEPT ![t].socket_fd = None, ![t].connection_pid = None]

\* The call returns, with the connection closed.
GiveUp(t, outcome) ==
    /\ task' = [task EXCEPT ![t] = Resting]
    /\ log' = [log EXCEPT ![t][Len(log[t])] = outcome]
    /\ sock' = tgc_client_close(t)
    /\ client' = Disconnected(t)

reusable_anywhere(t) == client[t].socket_fd # None  \* Mutant: no owner check.

reusable(t) == client[t].socket_fd # None /\ client[t].connection_pid = PidOf[t]

Increment(id) == (id + 1) % (MaxId + 1)

next_id_wraps(id) == Increment(id)  \* Mutant: 0 is not skipped.

\* A uint32_t, but never 0.
next_id(id) == IF Increment(id) = 0 THEN 1 ELSE Increment(id)

\* exchange_with_interrupt up to the receive, as the n-th exchange of t: the
\* connection of t, or a new one (its own process is then the peer), and the
\* request.  Nothing is sent if connect fails, because there is no broker or by a
\* limit, or if the broker has closed its end.
Exchange(t, c, request, n) ==
    LET closed == tgc_client_close(t)
        free == {s \in Socks : closed[s] = FreeSock}
        s == IF reusable(t) THEN client[t].socket_fd ELSE Min(free)
        id == next_id(client[t].next_request_id)
        message == [request_id |-> id, request |-> request, exchange |-> <<t, n>>]
        connected == IF reusable(t) THEN sock
                     ELSE tgc_transport_connect(closed, s, PidOf[t])
        started == IF n > Len(log[t]) THEN Append(log[t], "open") ELSE log[t]
    IN  \/ /\ IF reusable(t) THEN sock[s].open ELSE up /\ free # {}
           /\ sock' = [connected EXCEPT ![s].inbox = tgc_transport_send(@, message)]
           /\ client' = [client EXCEPT ![t] = [socket_fd |-> s, connection_pid |-> PidOf[t],
                                              next_request_id |-> id]]
           /\ task' = [task EXCEPT ![t] = [at |-> "receive", in |-> c, request |-> request]]
           /\ log' = [log EXCEPT ![t] = started]
           /\ UNCHANGED faults
        \/ /\ IF reusable(t) THEN ~sock[s].open /\ UNCHANGED faults
              ELSE IF up /\ free # {} THEN Fault ELSE UNCHANGED faults
           /\ sock' = closed
           /\ client' = [Disconnected(t) EXCEPT ![t].next_request_id =
                            IF reusable(t) THEN id ELSE @]
           /\ task' = [task EXCEPT ![t] = Resting]
           /\ log' = [log EXCEPT ![t] = [started EXCEPT ![n] = "unsent"]]

\* Arguments are checked before anything else happens.
IsInvalid(c) == c.fn = "semtimedop" /\ wire_timeout(c.seconds, c.nanoseconds) < 0

Call(t, c) ==
    /\ task[t].at = "idle"
    /\ todo' = [todo EXCEPT ![t] = @ \ {c}]
    /\ IF IsInvalid(c)
       THEN UNCHANGED <<task, log, client, sock, faults>>
       ELSE Exchange(t, c, first_request(c), Len(log[t]) + 1)
    /\ UNCHANGED <<serviceVars, up, decided>>

\* The second request of getall and setall.
Again(t) ==
    /\ task[t].at = "again"
    /\ Exchange(t, task[t].in, task[t].request, Len(log[t]))
    /\ UNCHANGED <<serviceVars, up, todo, decided>>

\* The response is the one to this request, ...
response_matches(t, m) ==
    m.request_id = client[t].next_request_id /\ m.opcode = task[t].request.opcode

\* ... and of the size that was asked for.
payload_matches(t, m) ==
    m.opcode = "GETALL" /\ m.result = OK => DOMAIN m.payload = Sems(task[t].request.count)

Mine(t, m) == m.exchange = <<t, Len(log[t])>>

Receive(t) ==
    LET s == client[t].socket_fd
        m == Head(sock[s].outbox)
        blocked == m.opcode = "SEMOP" /\ m.result = BLOCKED
        answered == [log[t] EXCEPT ![Len(log[t])] =
                        CASE blocked -> "EPROTO" [] Mine(t, m) -> "answered"
                          [] OTHER -> "foreign"]
    IN  /\ task[t].at = "receive" /\ sock[s].outbox # <<>>
        /\ IF ~response_matches(t, m) \/ ~payload_matches(t, m) THEN GiveUp(t, "EPROTO")
           ELSE /\ sock' = [sock EXCEPT ![s].outbox = Tail(@)]
                /\ IF m.opcode = "STAT" /\ IsTwoStep(task[t].in) /\ m.result = OK
                   THEN /\ log' = [log EXCEPT ![t] = Append(answered, "open")]
                        /\ task' = [task EXCEPT ![t] =
                               [at |-> "again", in |-> task[t].in,
                                request |-> second_request(task[t].in, m.payload.nsems)]]
                   ELSE /\ log' = [log EXCEPT ![t] = answered]
                        /\ task' = [task EXCEPT ![t] = Resting]
                /\ UNCHANGED client
        /\ UNCHANGED <<serviceVars, runVars, todo, decided>>

never_at_eof(k) == FALSE  \* Mutant: the end of the stream is waited out.

at_eof(k) == k.outbox = <<>> /\ ~k.open

\* Mutant: the request is sent again on a new connection.
retry_after_loss(t) ==
    /\ task' = [task EXCEPT ![t].at = "again"]
    /\ sock' = tgc_client_close(t) /\ client' = Disconnected(t)
    /\ UNCHANGED log

after_loss(t) == GiveUp(t, "lost")

\* The broker has closed its end without an answer: ECONNRESET.
Eof(t) ==
    /\ task[t].at = "receive" /\ at_eof(sock[client[t].socket_fd])
    /\ after_loss(t)
    /\ UNCHANGED <<serviceVars, runVars, todo, decided>>

\* Only semop and semtimedop return EINTR when a signal arrives, whether or not
\* the broker has already answered.
Interrupt(t) ==
    /\ task[t].at = "receive" /\ task[t].request.opcode = "SEMOP"
    /\ GiveUp(t, "interrupted")
    /\ UNCHANGED <<serviceVars, runVars, todo, decided>>

-----------------------------------------------------------------------------
(* Threads and processes.                                                    *)

Live(p) == {t \in Tasks : PidOf[t] = p /\ task[t].at \notin {"none", "exited"}}

\* fork: u is the only thread of the child; it has the client of its parent.
Fork(t, u) ==
    /\ task[t].at = "idle" /\ task[u].at = "none"
    /\ PidOf[u] # PidOf[t] /\ Live(PidOf[u]) = {} /\ PidOf[u] \notin exited
    /\ task' = [task EXCEPT ![u] = Resting]
    /\ client' = [client EXCEPT ![u] = client[t]]
    /\ sock' = [s \in Socks |-> IF PidOf[t] \in sock[s].holders
                                THEN [sock[s] EXCEPT !.holders = @ \union {PidOf[u]}]
                                ELSE sock[s]]
    /\ UNCHANGED <<serviceVars, runVars, log, todo, decided>>

\* A thread ends: the destructor of its key is close_thread_client.
ThreadExit(t) ==
    /\ task[t].at = "idle" /\ Live(PidOf[t]) # {t}
    /\ task' = [task EXCEPT ![t].at = "exited"]
    /\ todo' = [todo EXCEPT ![t] = {}]
    /\ sock' = tgc_client_close(t)
    /\ client' = [client EXCEPT ![t] = NoClient]
    /\ UNCHANGED <<serviceVars, runVars, log, decided>>

\* A process ends, in the middle of its threads' calls or not.
Exit(p) ==
    /\ Live(p) # {}
    /\ exited' = exited \union {p}
    /\ task' = [t \in Tasks |-> IF t \in Live(p) THEN [at |-> "exited"] ELSE task[t]]
    /\ client' = [t \in Tasks |-> IF t \in Live(p) THEN NoClient ELSE client[t]]
    /\ todo' = [t \in Tasks |-> IF t \in Live(p) THEN {} ELSE todo[t]]
    /\ sock' = [s \in Socks |-> Tidy([sock[s] EXCEPT !.holders = @ \ {p}])]
    /\ UNCHANGED <<store, call, runVars, log, decided>>

-----------------------------------------------------------------------------
(* The broker.                                                               *)

\* A worker reads the next request of its connection, ...
ServerReceive(s) ==
    /\ sock[s].open /\ sock[s].inbox # <<>>
    /\ Server!Invoke(s, Head(sock[s].inbox).request)
    /\ UNCHANGED <<exited, runVars, sock, client, taskVars, decided>>

\* ... decides on it, ...
ServerDecide(s) ==
    /\ Server!Perform(s) \/ Server!PerformCount(s) \/ Server!TimeOut(s)
    /\ decided' = [decided EXCEPT ![Head(sock[s].inbox).exchange] = @ + 1]
    /\ UNCHANGED <<exited, runVars, sock, client, taskVars>>

\* ... or gives it up because nobody holds the other end any more, ...
ServerAbandon(s) ==
    /\ Server!Abandon(s)
    /\ UNCHANGED <<exited, runVars, sock, client, taskVars, decided>>

\* ... and answers, if somebody does.
ServerReply(s) ==
    LET m == Head(sock[s].inbox)
        response == [request_id |-> m.request_id, opcode |-> m.request.opcode,
                     result |-> call[s].result, payload |-> call[s].payload,
                     exchange |-> m.exchange]
    IN  /\ Server!Reply(s)
        /\ sock' = [sock EXCEPT ![s] =
               IF sock[s].holders = {} THEN CloseServerEnd(sock[s])
               ELSE [sock[s] EXCEPT !.inbox = Tail(@),
                                    !.outbox = tgc_transport_send(@, response)]]
        /\ UNCHANGED <<exited, runVars, client, taskVars, decided>>

\* The end of a connection: the client's, or one that the broker gives up
\* (the client limit, a failure of its own).
ServerClose(s) ==
    /\ sock[s].open /\ call[s] = Server!Idle
    /\ IF sock[s].holders = {} /\ sock[s].inbox = <<>> THEN UNCHANGED faults ELSE Fault
    /\ sock' = [sock EXCEPT ![s] = CloseServerEnd(@)]
    /\ UNCHANGED <<serviceVars, up, client, taskVars, decided>>

\* The broker dies, and with it the store.
Crash ==
    /\ up /\ up' = FALSE /\ Fault
    /\ store' = EmptyStore
    /\ call' = [s \in Socks |-> Server!Idle]
    /\ sock' = [s \in Socks |-> CloseServerEnd(sock[s])]
    /\ UNCHANGED <<exited, client, taskVars, decided>>

Restart ==
    /\ ~up /\ up' = TRUE
    /\ UNCHANGED <<serviceVars, faults, sock, client, taskVars, decided>>

-----------------------------------------------------------------------------

\* What a thread does by itself once it is in a call.
Step(t) == Again(t) \/ Receive(t) \/ Eof(t)

Next == \/ \E t \in Tasks : \/ \E c \in todo[t] : Call(t, c)
                            \/ Step(t) \/ Interrupt(t) \/ ThreadExit(t)
                            \/ \E u \in Tasks : Fork(t, u)
        \/ \E s \in Socks : \/ ServerReceive(s) \/ ServerDecide(s) \/ ServerAbandon(s)
                            \/ ServerReply(s) \/ ServerClose(s)
        \/ \E p \in Pids : Exit(p)
        \/ Crash \/ Restart

Spec == Init /\ [][Next]_vars

\* Threads run.  Nothing is asked of the broker.
FairSpec == Spec /\ \A t \in Tasks : WF_vars(Step(t))

-----------------------------------------------------------------------------
(* Properties.                                                               *)

Outcomes == {"open", "answered", "foreign", "unsent", "lost", "interrupted", "EPROTO"}

\* Types; no packet has the ID 0, also after UINT32_MAX; a thread in a call has begun
\* an exchange, and only then has an open one.
TypeOK ==
    /\ exited \subseteq Pids /\ up \in BOOLEAN
    /\ \A s \in Socks : /\ call[s].at \in {"idle", "pending", "done"}
                       /\ sock[s].holders \subseteq Pids /\ sock[s].peer \in Pids \union {None}
                       /\ call[s] # Server!Idle => sock[s].open
                       /\ \A m \in Range(sock[s].inbox) \union Range(sock[s].outbox) :
                            m.request_id \in 1..MaxId
    /\ client \in [Tasks -> [socket_fd : Socks \union {None},
                             connection_pid : Pids \union {None}, next_request_id : 0..MaxId]]
    /\ \A t \in Tasks :
         /\ task[t].at \in {"none", "idle", "receive", "again", "exited"}
         /\ Len(log[t]) <= MaxExchanges /\ Range(log[t]) \subseteq Outcomes
         /\ \A n \in DOMAIN log[t] : log[t][n] = "open" /\ task[t].at # "exited"
                => n = Len(log[t]) /\ task[t].at \in {"receive", "again"}

\* Whatever a call returns from the broker answers that very call: not an earlier
\* one of the thread that a signal cut short, nor one of another thread or of a
\* process on the other side of a fork, although request IDs are copied by fork
\* and start again after UINT32_MAX.
OwnAnswer == \A t \in Tasks : "foreign" \notin Range(log[t])

\* SO_PEERCRED names the process that makes the call, so that sempid and the
\* SEM_UNDO adjustments are those of the caller, also after fork.
RightActor ==
    \A s \in Socks : \A m \in Range(sock[s].inbox) : PidOf[m.exchange[1]] = sock[s].peer

\* The broker decides at most once on each request; exactly once if the caller has
\* an answer, and never, not even later, if connect or send failed.  Only after
\* ECONNRESET and EINTR does the caller not know.
DecidedOnce ==
    \A t \in Tasks : \A n \in DOMAIN log[t] :
        /\ decided[<<t, n>>] <= 1
        /\ log[t][n] = "answered" => decided[<<t, n>>] = 1
        /\ log[t][n] = "unsent" => decided[<<t, n>>] = 0

\* No call ends with EPROTO: responses stay in step with requests whatever is
\* interrupted, and the second request of getall and setall is refused by the
\* broker, not answered in another size, when the set was replaced meanwhile.
InStep == \A t \in Tasks : "EPROTO" \notin Range(log[t])

\* A process holds a connection of its own exactly as long as one thread uses it:
\* none is lost after an error, a signal or the end of a thread, no two threads
\* share one.  (Those of other threads that a fork copies are not its own.)
OwnSocket ==
    \A s \in Socks : \A p \in Pids :
        p \in sock[s].holders /\ sock[s].peer = p =>
            Cardinality({t \in Live(p) : client[t].socket_fd = s}) = 1

\* The timeout of a semtimedop reaches the broker as asked for or is refused, never
\* wrapped around, and whatever the clock shows then, the broker makes the right
\* deadline and the right rounds of waiting of it.
TimeoutExact ==
    \A t \in Tasks : \A c \in todo[t] : c.fn = "semtimedop" =>
        LET timeout_ns == wire_timeout(c.seconds, c.nanoseconds)
        IN  /\ WireExact(c.seconds, c.nanoseconds)
            /\ \A now \in ClockReadings : timeout_ns >= 0 =>
                 /\ DeadlineExact(timeout_ns, now)
                 /\ RoundExact(now, initialize_deadline(timeout_ns, now))

\* When the broker dies or drops the connection, a call in progress returns,
\* whoever else holds a copy of the socket.
LossNoticed ==
    \A t \in Tasks :
        (task[t].at = "receive" /\ ~sock[client[t].socket_fd].open)
            ~> task[t].at \notin {"receive", "again"}

=============================================================================
