------------------------------- MODULE Daemon -------------------------------
(***************************************************************************)
(* The life of tgcompatd (src/src/tgcompatd.c): start, the accept loop     *)
(* with its table of worker slots, one thread per connection, and the      *)
(* orderly stop, with the creation of the socket file                      *)
(* (tgc_transport_listen) and the end of the monitor thread                *)
(* (tgc_broker_destroy).                                                   *)
(*                                                                         *)
(* What a worker does between its start and its return is in module Broker;*)
(* here it serves until its connection ends.  Descriptors are numbers that *)
(* the kernel hands out again, lowest first.                               *)
(***************************************************************************)
EXTENDS Integers, FiniteSets, FiniteSetsExt

CONSTANTS MaxClients,  \* MAX_CLIENTS, 64
          MaxFds,      \* descriptors left for connections and watched processes
          Conns        \* connections that clients may open, once each

WorkerSlots == 1..MaxClients
Fds == 1..MaxFds
FREE  == "free"
PIDFD == "pidfd"  \* a process the broker watches

ASSUME DaemonAssumption ==
    /\ MaxClients \in Nat \ {0} /\ MaxFds \in Nat
    /\ FREE \notin Conns /\ PIDFD \notin Conns

VARIABLES main,      \* main thread: where it is, slot of its loops, descriptor in hand
          once,      \* --once
          signalled, \* SIGINT or SIGTERM is pending
          sockfile,  \* the socket path: none, stale (not ours), ours
          fdtab,     \* what a descriptor refers to
          workers,   \* struct client_worker: active, done, socket_fd
          thread,    \* where the thread of a slot is
          served,    \* the connection the thread of a slot was created for
          conn,      \* a connection: state, closed by the client, shut down by the daemon
          broker,    \* live, stopping (stop_process_monitor), freed
          monitor    \* where the monitor thread is

runVars == <<once, sockfile>>
slotVars == <<workers, thread, served>>
brokerVars == <<broker, monitor>>
vars == <<main, signalled, fdtab, conn, runVars, slotVars, brokerVars>>

NoWorker == [active |-> FALSE, done |-> FALSE, socket_fd |-> 0]

Init == /\ main = [at |-> "start", slot |-> 1, fd |-> 0]
        /\ once \in BOOLEAN
        /\ signalled = FALSE
        /\ sockfile \in {"none", "stale"}
        /\ fdtab = [f \in Fds |-> FREE]
        /\ workers = [i \in WorkerSlots |-> NoWorker]
        /\ thread = [i \in WorkerSlots |-> "none"]
        /\ served = [i \in WorkerSlots |-> FREE]
        /\ conn = [c \in Conns |-> [st |-> "idle", closed |-> FALSE, shut |-> FALSE]]
        /\ broker = "freed"
        /\ monitor = "exited"

-----------------------------------------------------------------------------
(* Start.                                                                    *)

\* The socket file after tgc_transport_listen; "ours" if it succeeded.  What
\* fails after bind unlinks the path again.
tgc_transport_listen(file) == IF file = "stale" THEN {"stale"} ELSE {"ours", "none"}

unlink_forgotten(file) == file  \* Mutant.

unlink_socket(file) == IF file = "ours" THEN "none" ELSE file

\* A failure to create the broker removes the socket file at once, a failure of
\* the thread attributes after tgc_broker_destroy.
Start == \E file \in tgc_transport_listen(sockfile), created, attributes \in BOOLEAN :
    /\ main.at = "start"
    /\ IF file = "ours" /\ created
       THEN /\ sockfile' = file
            /\ broker' = "live" /\ monitor' = "scan"
            /\ main' = [main EXCEPT !.at = IF attributes THEN "poll" ELSE "destroy"]
       ELSE /\ sockfile' = unlink_socket(file)
            /\ main' = [main EXCEPT !.at = "exit"]
            /\ UNCHANGED brokerVars
    /\ UNCHANGED <<once, signalled, fdtab, conn, slotVars>>

-----------------------------------------------------------------------------
(* The accept loop of the main thread.                                       *)

InBacklog == {c \in Conns : conn[c].st = "backlog"}

Goto(at) == main' = [main EXCEPT !.at = at]

\* The signal descriptor is looked at first; a failure of poll or of a
\* descriptor also ends the loop.
Poll == /\ main.at = "poll"
        /\ \/ ~signalled /\ InBacklog # {} /\ Goto("accept")
           \/ signalled /\ Goto("stop")
        /\ UNCHANGED <<signalled, fdtab, conn, slotVars, brokerVars, runVars>>

PollFails == /\ main.at = "poll" /\ Goto("stop")
             /\ UNCHANGED <<signalled, fdtab, conn, slotVars, brokerVars, runVars>>

FreeFds == {f \in Fds : fdtab[f] = FREE}

\* accept4 fails with EMFILE when no descriptor is free, which ends the loop.
Accept == \E c \in InBacklog :
    /\ main.at = "accept"
    /\ IF FreeFds = {}
       THEN Goto("stop") /\ UNCHANGED <<fdtab, conn>>
       ELSE /\ fdtab' = [fdtab EXCEPT ![Min(FreeFds)] = c]
            /\ conn' = [conn EXCEPT ![c].st = "accepted"]
            /\ main' = [main EXCEPT !.at = IF once THEN "serve" ELSE "assign",
                                    !.fd = Min(FreeFds)]
    /\ UNCHANGED <<signalled, slotVars, brokerVars, runVars>>

\* EINTR goes back to poll; any other error, also a transient one, ends the loop.
AcceptFails == /\ main.at = "accept"
               /\ Goto("poll") \/ Goto("stop")
               /\ UNCHANGED <<signalled, fdtab, conn, slotVars, brokerVars, runVars>>

active_workers == {i \in WorkerSlots : workers[i].active}  \* Mutant: done not read.

finished == {i \in WorkerSlots : workers[i].active /\ workers[i].done}

reap_finished_workers ==
    [i \in WorkerSlots |-> IF i \in finished THEN [workers[i] EXCEPT !.active = FALSE]
                           ELSE workers[i]]

\* Mutant: a slot whose thread was not created stays active.
still_active(worker) == worker

inactive(worker) == [worker EXCEPT !.active = FALSE]

keep_fd(fd) == fdtab  \* Mutant: close is forgotten.

close_fd(fd) == [fdtab EXCEPT ![fd] = FREE]

\* The connection ends for its client when the daemon's descriptor is closed.
Ended == [st |-> "ended", closed |-> TRUE, shut |-> FALSE]

EndConn(fd) == conn' = [conn EXCEPT ![fdtab[fd]] = Ended]

\* available_worker, with the joins of reap_finished_workers, and pthread_create.
\* A done flag set during the reaping counts as set after it.
AssignWorker ==
    LET reaped == reap_finished_workers
        idle == {i \in WorkerSlots : ~reaped[i].active}
        joined == [i \in WorkerSlots |-> IF i \in finished THEN "none" ELSE thread[i]]
        worker == [active |-> TRUE, done |-> FALSE, socket_fd |-> main.fd]
    IN  /\ main.at = "assign" /\ \A i \in finished : thread[i] = "exited"
        /\ main' = [main EXCEPT !.at = "poll", !.fd = 0]
        /\ \/ /\ idle = {}
              /\ workers' = reaped /\ thread' = joined
              /\ fdtab' = close_fd(main.fd) /\ EndConn(main.fd)
              /\ UNCHANGED served
           \/ /\ idle # {}
              /\ workers' = [reaped EXCEPT ![Min(idle)] = worker]
              /\ thread' = [joined EXCEPT ![Min(idle)] = "serving"]
              /\ served' = [served EXCEPT ![Min(idle)] = fdtab[main.fd]]
              /\ UNCHANGED <<fdtab, conn>>
           \/ /\ idle # {}  \* pthread_create failed
              /\ workers' = [reaped EXCEPT ![Min(idle)] = inactive(worker)]
              /\ thread' = joined
              /\ fdtab' = close_fd(main.fd) /\ EndConn(main.fd)
              /\ UNCHANGED served
        /\ UNCHANGED <<signalled, brokerVars, runVars>>

-----------------------------------------------------------------------------
(* The threads.                                                              *)

ends_when_closed(c) == conn[c].closed  \* Mutant: shutdown does not end a receive.

\* tgc_broker_serve_connection returns when its connection has ended.
serve_connection_ends(c) == conn[c].closed \/ conn[c].shut

serve_client(at) == CASE at = "serving" -> "close"
                      [] at = "close"   -> "done"
                      [] at = "done"    -> "exited"

\* One step of the thread of slot i; it reads worker->socket_fd when it closes.
\* A connection that the broker gives up (a malformed frame, a failed send) ends
\* the same way, but need not.
WorkerStep(i) ==
    /\ thread[i] \in {"serving", "close", "done"}
    /\ thread' = [thread EXCEPT ![i] = serve_client(thread[i])]
    /\ IF thread[i] = "close"
       THEN /\ fdtab' = close_fd(workers[i].socket_fd) /\ EndConn(workers[i].socket_fd)
            /\ served' = [served EXCEPT ![i] = FREE]
       ELSE UNCHANGED <<fdtab, conn, served>>
    /\ workers' = IF thread[i] = "done" THEN [workers EXCEPT ![i].done = TRUE] ELSE workers
    /\ UNCHANGED <<main, signalled, brokerVars, runVars>>

WorkerThread(i) == (thread[i] = "serving" => serve_connection_ends(served[i])) /\ WorkerStep(i)

WorkerGivesUp(i) == thread[i] = "serving" /\ WorkerStep(i)

\* --once: the main thread serves the only connection itself, and does not look
\* at signals while it does.
ServeOnceEnds == /\ main.at = "serve"
                 /\ main' = [main EXCEPT !.at = "stop", !.fd = 0]
                 /\ fdtab' = close_fd(main.fd) /\ EndConn(main.fd)
                 /\ UNCHANGED <<signalled, slotVars, brokerVars, runVars>>

ServeOnce == /\ main.at = "serve" /\ serve_connection_ends(fdtab[main.fd])
             /\ ServeOnceEnds

WakeMonitor == IF monitor \in {"wait", "timedwait"} THEN "woken" ELSE monitor

\* Under the mutex, a request with SEM_UNDO makes the broker watch its process, by
\* a pidfd or, if there is none to be had, by /proc.
watch_process ==
    /\ main.at = "serve" \/ \E i \in WorkerSlots : thread[i] = "serving"
    /\ monitor # "scan" /\ monitor' = WakeMonitor
    /\ \/ FreeFds # {} /\ fdtab' = [fdtab EXCEPT ![Min(FreeFds)] = PIDFD]
       \/ UNCHANGED fdtab
    /\ UNCHANGED <<main, signalled, conn, broker, slotVars, runVars>>

close_pidfds(gone) == [f \in Fds |-> IF f \in gone THEN FREE ELSE fdtab[f]]

Watched == {f \in Fds : fdtab[f] = PIDFD}

\* The scan, with the mutex held: some of the processes have exited.  The monitor
\* waits without limit when nothing is watched any more.
Scan == \E gone \in SUBSET Watched :
    /\ monitor = "scan" /\ broker = "live"
    /\ monitor' \in (IF gone = Watched THEN {"wait", "timedwait"} ELSE {"timedwait"})
    /\ fdtab' = close_pidfds(gone)

Monitor == /\ \/ Scan
              \/ /\ monitor = "scan" /\ broker = "stopping"
                 /\ monitor' = "exited" /\ UNCHANGED fdtab
              \/ /\ monitor \in {"timedwait", "woken"}
                 /\ monitor' = "scan" /\ UNCHANGED fdtab
           /\ UNCHANGED <<main, signalled, conn, broker, slotVars, runVars>>

-----------------------------------------------------------------------------
(* The stop.                                                                 *)

\* Closing the listener refuses the connections not yet accepted.
StopListening ==
    /\ main.at = "stop"
    /\ main' = [main EXCEPT !.at = "shutdown", !.slot = 1]
    /\ conn' = [c \in Conns |-> IF c \in InBacklog THEN Ended ELSE conn[c]]
    /\ UNCHANGED <<signalled, fdtab, slotVars, brokerVars, runVars>>

NextSlot(next) ==
    main' = IF main.slot < MaxClients THEN [main EXCEPT !.slot = @ + 1]
            ELSE [main EXCEPT !.at = next, !.slot = 1]

\* A slot is shut down by number, whatever the descriptor now refers to.
ShutdownWorker ==
    LET worker == workers[main.slot]
    IN  /\ main.at = "shutdown"
        /\ NextSlot("join")
        /\ conn' = IF worker.active /\ fdtab[worker.socket_fd] \in Conns
                   THEN [conn EXCEPT ![fdtab[worker.socket_fd]].shut = TRUE]
                   ELSE conn
        /\ UNCHANGED <<signalled, fdtab, slotVars, brokerVars, runVars>>

must_join_finished(worker) == worker.active /\ worker.done  \* Mutant.

must_join(worker) == worker.active

JoinWorker ==
    LET i == main.slot
    IN  /\ main.at = "join"
        /\ must_join(workers[i]) => thread[i] = "exited"
        /\ NextSlot("destroy")
        /\ IF must_join(workers[i])
           THEN /\ workers' = [workers EXCEPT ![i].active = FALSE]
                /\ thread' = [thread EXCEPT ![i] = "none"]
           ELSE UNCHANGED <<workers, thread>>
        /\ UNCHANGED <<signalled, fdtab, served, conn, brokerVars, runVars>>

\* tgc_broker_destroy, under the mutex.
StopMonitor ==
    /\ main.at = "destroy" /\ monitor # "scan"
    /\ Goto("join_monitor")
    /\ broker' = "stopping"
    /\ monitor' = WakeMonitor
    /\ UNCHANGED <<signalled, fdtab, conn, slotVars, runVars>>

Finish ==
    /\ main.at = "join_monitor" /\ monitor = "exited"
    /\ Goto("exit")
    /\ broker' = "freed"
    /\ fdtab' = close_pidfds(Watched)
    /\ sockfile' = unlink_socket(sockfile)
    /\ UNCHANGED <<once, signalled, conn, monitor, slotVars>>

-----------------------------------------------------------------------------
(* The clients and the signal.                                               *)

Listening == main.at \in {"poll", "accept", "assign", "serve", "stop"}

Connect(c) == /\ conn[c].st = "idle" /\ Listening
              /\ conn' = [conn EXCEPT ![c].st = "backlog"]
              /\ UNCHANGED <<main, signalled, fdtab, slotVars, brokerVars, runVars>>

Disconnect(c) == /\ conn[c].st \in {"backlog", "accepted"} /\ ~conn[c].closed
                 /\ conn' = [conn EXCEPT ![c].closed = TRUE]
                 /\ UNCHANGED <<main, signalled, fdtab, slotVars, brokerVars, runVars>>

Signal == /\ ~signalled /\ main.at \notin {"start", "exit"}
          /\ signalled' = TRUE
          /\ UNCHANGED <<main, fdtab, conn, slotVars, brokerVars, runVars>>

MainThread == \/ Start \/ Poll \/ Accept \/ AssignWorker \/ ServeOnce
              \/ StopListening \/ ShutdownWorker \/ JoinWorker \/ StopMonitor \/ Finish

Next == \/ MainThread \/ PollFails \/ AcceptFails \/ ServeOnceEnds
        \/ \E i \in WorkerSlots : WorkerThread(i) \/ WorkerGivesUp(i)
        \/ watch_process \/ Monitor
        \/ \E c \in Conns : Connect(c) \/ Disconnect(c)
        \/ Signal

Spec == Init /\ [][Next]_vars

\* Every thread that can run is scheduled.  The mutex must be strongly fair to
\* the main thread, since the monitor takes it again and again, and accept4 is
\* not interrupted for ever (the signals are blocked).  Clients, signals and
\* failures are not promised.
FairSpec == /\ Spec
            /\ SF_vars(MainThread) /\ SF_vars(Accept)
            /\ WF_vars(Monitor)
            /\ \A i \in WorkerSlots : WF_vars(WorkerThread(i))

-----------------------------------------------------------------------------
(* Properties.                                                               *)

MainType == [at : {"start", "poll", "accept", "assign", "serve", "stop", "shutdown",
                   "join", "destroy", "join_monitor", "exit"},
             slot : WorkerSlots, fd : 0..MaxFds]
WorkerType == [active : BOOLEAN, done : BOOLEAN, socket_fd : 0..MaxFds]
ThreadType == {"none", "serving", "close", "done", "exited"}
ConnType == [st : {"idle", "backlog", "accepted", "ended"}, closed : BOOLEAN, shut : BOOLEAN]

\* Types; and a slot is active exactly while it has a thread to join, so that
\* pthread_join is never called on a thread that does not exist.
TypeOK ==
    /\ main \in MainType
    /\ once \in BOOLEAN /\ signalled \in BOOLEAN
    /\ sockfile \in {"none", "stale", "ours"}
    /\ fdtab \in [Fds -> Conns \union {FREE, PIDFD}]
    /\ workers \in [WorkerSlots -> WorkerType]
    /\ thread \in [WorkerSlots -> ThreadType]
    /\ served \in [WorkerSlots -> Conns \union {FREE}]
    /\ conn \in [Conns -> ConnType]
    /\ broker \in {"live", "stopping", "freed"}
    /\ monitor \in {"scan", "wait", "timedwait", "woken", "exited"}
    /\ \A i \in WorkerSlots : workers[i].active <=> thread[i] # "none"

\* Every accepted descriptor has exactly one owner that will close it: the main
\* thread between accept4 and pthread_create, or one worker thread, which finds
\* its own connection there and not that of a later client with the same number.
\* So neither the client limit, a failing pthread_create nor the reuse of slots
\* and numbers leaks a descriptor, closes one twice, or closes the pidfd of a
\* watched process, whose exit would then go unseen.
OneOwner ==
    \A f \in Fds :
        LET owners == {i \in WorkerSlots : /\ thread[i] \in {"serving", "close"}
                                          /\ workers[i].socket_fd = f}
        IN  /\ Cardinality(owners) + (IF main.fd = f THEN 1 ELSE 0)
                   = (IF fdtab[f] \in Conns THEN 1 ELSE 0)
            /\ \A i \in owners : fdtab[f] = served[i]

\* stop_and_join_workers before tgc_broker_destroy: the broker is stopped and
\* freed only when no worker thread can use it, and freed only after the monitor.
BrokerOutlivesThreads ==
    /\ broker # "live" => \A i \in WorkerSlots : thread[i] # "serving"
    /\ broker = "freed" => monitor = "exited"

\* Whichever way the daemon ends, a start that fails halfway included, it leaves
\* no socket file of its own behind, which would make the next start fail with
\* EADDRINUSE.
SocketRemoved == main.at = "exit" => sockfile # "ours"

\* A signal, or a failure of the accept loop (connections and watched processes
\* may use up the descriptors), is followed by the end of the daemon, although
\* clients stay connected and never send anything: shutdown ends their threads,
\* and the broadcast the monitor's wait.  A daemon started with --once promises
\* this only when it has left its one client.
StopCompletes ==
    /\ signalled /\ ~once ~> main.at = "exit"
    /\ main.at = "stop" ~> main.at = "exit"

\* A client that connects is handed to a thread, or is closed by the client limit
\* or a stop, although the others stay connected for ever: the accept loop joins
\* only threads that are done.
ConnectAnswered ==
    \A c \in Conns :
        (conn[c].st = "backlog" /\ ~once)
            ~> \/ conn[c].st = "ended"
               \/ conn[c].st = "accepted" /\ main.at # "assign"

=============================================================================
