------------------------------- MODULE Broker -------------------------------
(***************************************************************************)
(* The broker (src/src/broker_server.c, with the dispatcher of             *)
(* src/src/broker_dispatch.c): one worker thread per client connection, a  *)
(* state mutex, one condition variable shared by blocked semop requests    *)
(* and the process-exit monitor, and the FIFO queue of waiters.            *)
(*                                                                         *)
(* A worker's critical section, from taking the mutex to releasing it or   *)
(* sleeping on the condition variable, is one step.  What may happen while *)
(* it runs comes from outside (a peer closes, a process exits, the clock)  *)
(* and is looked at once in the section, so it can be moved before or      *)
(* after the step.  The monitor keeps the mutex over its whole scan and    *)
(* looks at the processes one by one: its scan is one step per slot.       *)
(***************************************************************************)
EXTENDS Dispatch

CONSTANTS Conn,         \* client connections, one worker thread each
          PidOf,        \* SO_PEERCRED process of a connection
          Requests,     \* requests the clients send
          MaxWatchers,  \* TGC_MAX_UNDO_PROCESSES, 1024
          PidfdWorks,   \* pidfd_open is available; if not, /proc is read
          Mortal,       \* the processes that may exit
          Threaded,     \* the processes whose leader thread may exit first
          Inheritable   \* the connections a forked child may keep open

ASSUME BrokerAssumption ==
    /\ PidOf \in [Conn -> Pids]
    /\ IsFiniteSet(Conn) /\ Cardinality(Conn) <= MaxWaiters  \* MAX_CLIENTS is 64
    /\ Requests \subseteq Request
    /\ MaxWatchers \in Nat
    /\ PidfdWorks \in BOOLEAN
    /\ Mortal \subseteq Pids /\ Threaded \subseteq Pids
    /\ Inheritable \subseteq Conn

VARIABLES store,     \* broker->store
          queue,     \* broker->waiters_head .. waiters_tail
          watchers,  \* broker->process_watchers: the pid of a slot, 0 if inactive
          monitor,   \* the monitor thread: where it is, slot of the scan
          pc,        \* where a worker is
          request,   \* the request a worker handles
          waiter,    \* struct tgc_waiter: the reason it was counted for
          deadline,  \* waiter->deadline: none, armed, passed
          response,  \* result and payload of the response a worker sends
          held,      \* who holds the client end of a connection
          proc       \* state of a client process

brokerVars == <<store, queue, watchers, monitor>>
workerVars == <<pc, request, waiter, deadline, response>>
vars == <<brokerVars, workerVars, held, proc>>

NoRequest == [opcode |-> "NONE"]
NoReason  == [sem_num |-> 0, wait_for_zero |-> FALSE]
NoResponse == [result |-> OK, payload |-> NoData]

WatcherSlots == 1..MaxWatchers

Init == /\ store = EmptyStore
        /\ queue = <<>>
        /\ watchers = [i \in WatcherSlots |-> 0]
        /\ monitor = [at |-> "scan", slot |-> 1]
        /\ pc = [c \in Conn |-> "done"]
        /\ request = [c \in Conn |-> NoRequest]
        /\ waiter = [c \in Conn |-> NoReason]
        /\ deadline = [c \in Conn |-> "none"]
        /\ response = [c \in Conn |-> NoResponse]
        /\ held = [c \in Conn |-> {}]
        /\ proc = [p \in Pids |-> "running"]

-----------------------------------------------------------------------------
\* Mutant: a removal is not a change of state.
operation_changed_values(r, d) ==
    d.ret = OK /\ r.opcode \in {"SETVAL", "SETALL", "SEMOP"}

operation_changed_state(r, d) ==
    d.ret = OK /\ r.opcode \in {"REMOVE", "SETVAL", "SETALL", "SEMOP"}

-----------------------------------------------------------------------------
(* The condition variable: a broadcast wakes every worker and the monitor.   *)

MutexFree == monitor.at # "scan"

WakeWorkers(woken) ==
    IF woken THEN [c \in Conn |-> IF pc[c] = "waiting" THEN "woken" ELSE pc[c]] ELSE pc

\* Mutant: pthread_cond_signal, which a worker may take.
SignalMonitor(woken) ==
    IF woken /\ monitor.at \in {"wait", "timedwait"} /\ \A c \in Conn : pc[c] # "waiting"
    THEN [monitor EXCEPT !.at = "woken"] ELSE monitor

WakeMonitor(woken) ==
    IF woken /\ monitor.at \in {"wait", "timedwait"}
    THEN [monitor EXCEPT !.at = "woken"] ELSE monitor

-----------------------------------------------------------------------------
(* Process watchers.                                                         *)

\* A leader thread that has called pthread_exit is a zombie in /proc although
\* other threads of its process run; a pidfd reports only the whole process.
leader_has_exited(pid) == proc[pid] # "running"  \* Mutant: /proc in any case.

process_has_exited(pid) ==
    IF PidfdWorks THEN proc[pid] = "exited"
    ELSE proc[pid] \in {"leader_exited", "exited"}

\* Mutant: the first slot is skipped.
has_later_watchers == \E i \in WatcherSlots : i > 1 /\ watchers[i] # 0

has_process_watchers == \E i \in WatcherSlots : watchers[i] # 0

\* The possible outcomes.  An exited process may be gone from the process
\* table or still be a zombie that can be watched.
watch_process(pid) ==
    LET free == {i \in WatcherSlots : watchers[i] = 0}
        none == [ret |-> OK, watchers |-> watchers, woken |-> FALSE]
    IN  IF \E i \in WatcherSlots : watchers[i] = pid THEN {none}
        ELSE IF free = {} THEN {[none EXCEPT !.ret = ENOSPC]}
        ELSE {[ret |-> OK, woken |-> TRUE,
               watchers |-> [watchers EXCEPT ![Min(free)] = pid]]}
             \cup (IF proc[pid] = "exited" THEN {[none EXCEPT !.ret = ENOENT]} ELSE {})

WatchOutcomes(c) ==
    IF request_uses_undo(request[c]) THEN watch_process(PidOf[c])
    ELSE {[ret |-> OK, watchers |-> watchers, woken |-> FALSE]}

-----------------------------------------------------------------------------
(* The waiter queue and the loop of a blocked request.                       *)

enqueue_at_head(q, c) == <<c>> \o q  \* Mutant.

enqueue_waiter(q, c) == Append(q, c)

\* Mutant: the head leaves instead of c.
remove_head(q, c) == Tail(q)

\* The node of c is unlinked, if it is linked.
remove_waiter(q, c) ==
    LET n == CHOOSE k \in DOMAIN q : q[k] = c
    IN  IF c \in Range(q)
        THEN [m \in 1..(Len(q) - 1) |-> IF m < n THEN q[m] ELSE q[m + 1]] ELSE q

waiter_is_first_for_set(q, c) ==
    \E n \in DOMAIN q : /\ q[n] = c
                        /\ \A m \in 1..(n - 1) : request[q[m]].semid # request[c].semid

peer_never_closes(c) == FALSE  \* Mutant.

peer_has_closed(c) == held[c] = {}

never_timed_out(c) == FALSE  \* Mutant: a timeout is one more round.

\* Mutant: has_deadline is not looked at.
timed_out_without_deadline(c) == deadline[c] # "armed"

operation_timed_out(c) == deadline[c] = "passed"

Answer(c, ret, payload, pcs) ==
    /\ pc' = [pcs EXCEPT ![c] = "send"]
    /\ response' = [response EXCEPT ![c] = [result |-> ret, payload |-> payload]]

\* finish_waiter, the broadcast and the unlock that end a wait.
FinishWaiter(c, st, q, reason, ret) ==
    /\ store' = adjust_wait_count(st, request[c].semid, reason.sem_num,
                                  reason.wait_for_zero, -1).st
    /\ queue' = remove_waiter(q, c)
    /\ waiter' = [waiter EXCEPT ![c] = NoReason]
    /\ deadline' = [deadline EXCEPT ![c] = "none"]
    /\ Answer(c, ret, NoData, WakeWorkers(TRUE))
    /\ monitor' = WakeMonitor(TRUE)

\* One round of the loop, entered with store st and queue q; woken says
\* whether the section has already broadcast.  (Here and below \E x \in {e}
\* names the value of e; TLC then evaluates e once.)
WaitRound(c, st, q, reason, timer, woken) ==
    \E retry \in {tgc_broker_dispatch(st, request[c], PidOf[c])} :
        \/ /\ peer_has_closed(c)
           /\ FinishWaiter(c, st, q, reason, BLOCKED)
        \/ /\ ~peer_has_closed(c)
           /\ waiter_is_first_for_set(q, c) /\ retry.ret # BLOCKED
           /\ FinishWaiter(c, retry.st, q, reason, retry.ret)
        \/ /\ ~peer_has_closed(c)
           /\ waiter_is_first_for_set(q, c) => retry.ret = BLOCKED
           /\ store' = st
           /\ queue' = q
           /\ waiter' = [waiter EXCEPT ![c] = reason]
           /\ deadline' = [deadline EXCEPT ![c] = timer]
           /\ pc' = [WakeWorkers(woken) EXCEPT ![c] = "waiting"]
           /\ monitor' = WakeMonitor(woken)
           /\ UNCHANGED response

-----------------------------------------------------------------------------
(* Workers: receive, dispatch_request, send.                                 *)

\* dispatch_request up to its first sleep or its return.
DispatchRequest(c) ==
    /\ pc[c] = "lock" /\ MutexFree
    /\ \E w \in WatchOutcomes(c),
          d \in {tgc_broker_dispatch(store, request[c], PidOf[c])} :
         LET r == request[c]
             woken == w.woken \/ operation_changed_state(r, d)
         IN  /\ watchers' = w.watchers
             /\ \/ /\ w.ret # OK
                   /\ Answer(c, w.ret, NoData, pc)
                   /\ UNCHANGED <<store, queue, waiter, deadline, monitor>>
                \/ /\ w.ret = OK /\ ~IsBlocked(r, d)
                   /\ store' = d.st
                   /\ Answer(c, d.ret, response_payload(store, r), WakeWorkers(woken))
                   /\ monitor' = WakeMonitor(woken)
                   /\ UNCHANGED <<queue, waiter, deadline>>
                \/ /\ w.ret = OK /\ IsBlocked(r, d)
                   /\ \E reason \in {wait_reason(store, r.semid, r.ops)} :
                      \E counted \in {adjust_wait_count(store, r.semid,
                                       reason.sem_num, reason.wait_for_zero, 1)} :
                        WaitRound(c, counted.st, enqueue_waiter(queue, c), reason,
                                  IF r.timed THEN "armed" ELSE "none", w.woken)
    /\ UNCHANGED <<request, held, proc>>

\* The wait ends by a broadcast, after 250 ms, or at the deadline.
Wakeup(c) ==
    /\ pc[c] \in {"waiting", "woken"} /\ MutexFree
    /\ IF operation_timed_out(c)
       THEN FinishWaiter(c, store, queue, waiter[c], EAGAIN)
       ELSE WaitRound(c, store, queue, waiter[c], deadline[c], FALSE)
    /\ UNCHANGED <<watchers, request, held, proc>>

\* A response to a closed peer fails and ends the worker.
SendResponse(c) ==
    /\ pc[c] = "send"
    /\ pc' = [pc EXCEPT ![c] = IF held[c] = {} THEN "done" ELSE "recv"]
    /\ request' = [request EXCEPT ![c] = NoRequest]
    /\ response' = [response EXCEPT ![c] = NoResponse]
    /\ UNCHANGED <<brokerVars, waiter, deadline, held, proc>>

ReceiveEof(c) ==
    /\ pc[c] = "recv" /\ held[c] = {}
    /\ pc' = [pc EXCEPT ![c] = "done"]
    /\ UNCHANGED <<brokerVars, request, waiter, deadline, response, held, proc>>

-----------------------------------------------------------------------------
(* The monitor thread.                                                       *)

never_restored(changed) == FALSE  \* Mutant: no broadcast.

restored(changed) == changed > 0

\* One slot of the scan, the mutex held.
MonitorScan ==
    LET i == monitor.slot
        r == process_exit(store, watchers[i])
    IN  /\ monitor.at = "scan" /\ i \in WatcherSlots
        /\ monitor' = [monitor EXCEPT !.slot = i + 1]
        /\ IF watchers[i] # 0 /\ process_has_exited(watchers[i])
           THEN /\ store' = r.st
                /\ watchers' = [watchers EXCEPT ![i] = 0]
                /\ pc' = WakeWorkers(restored(r.ret))
           ELSE UNCHANGED <<store, watchers, pc>>
        /\ UNCHANGED <<queue, request, waiter, deadline, response, held, proc>>

\* After the scan: an untimed wait when nobody is watched, 250 ms otherwise.
MonitorSleep ==
    /\ monitor.at = "scan" /\ monitor.slot \notin WatcherSlots
    /\ monitor' = [at |-> IF has_process_watchers THEN "timedwait" ELSE "wait", slot |-> 1]
    /\ UNCHANGED <<store, queue, watchers, workerVars, held, proc>>

MonitorWakeup ==
    /\ monitor.at \in {"timedwait", "woken"}
    /\ monitor' = [monitor EXCEPT !.at = "scan"]
    /\ UNCHANGED <<store, queue, watchers, workerVars, held, proc>>

-----------------------------------------------------------------------------
(* The clients and the clock (environment).                                  *)

Connect(c) ==
    /\ pc[c] = "done" /\ held[c] = {} /\ proc[PidOf[c]] # "exited"
    /\ pc' = [pc EXCEPT ![c] = "recv"]
    /\ held' = [held EXCEPT ![c] = {"owner"}]
    /\ UNCHANGED <<brokerVars, request, waiter, deadline, response, proc>>

\* A client thread has one request outstanding at a time.
ClientSend(c) == \E r \in Requests :
    /\ pc[c] = "recv" /\ "owner" \in held[c]
    /\ pc' = [pc EXCEPT ![c] = "lock"]
    /\ request' = [request EXCEPT ![c] = r]
    /\ UNCHANGED <<brokerVars, waiter, deadline, response, held, proc>>

\* The thread exits, or a signal interrupts a semop and the client discards
\* the connection.
ClientClose(c) ==
    /\ "owner" \in held[c]
    /\ pc[c] = "recv" \/ request[c].opcode = "SEMOP"
    /\ held' = [held EXCEPT ![c] = @ \ {"owner"}]
    /\ UNCHANGED <<brokerVars, workerVars, proc>>

\* Another thread of the process forks; the child keeps the socket until it
\* executes a program or exits.
ChildInherits(c) ==
    /\ c \in Inheritable /\ held[c] = {"owner"}
    /\ held' = [held EXCEPT ![c] = @ \cup {"child"}]
    /\ UNCHANGED <<brokerVars, workerVars, proc>>

ChildCloses(c) ==
    /\ "child" \in held[c]
    /\ held' = [held EXCEPT ![c] = @ \ {"child"}]
    /\ UNCHANGED <<brokerVars, workerVars, proc>>

LeaderExits(p) ==
    /\ p \in Threaded /\ proc[p] = "running"
    /\ proc' = [proc EXCEPT ![p] = "leader_exited"]
    /\ UNCHANGED <<brokerVars, workerVars, held>>

\* The kernel closes the sockets of a process before its exit can be seen.
ProcessExits(p) ==
    /\ p \in Mortal /\ proc[p] # "exited"
    /\ proc' = [proc EXCEPT ![p] = "exited"]
    /\ held' = [c \in Conn |-> IF PidOf[c] = p THEN held[c] \ {"owner"} ELSE held[c]]
    /\ UNCHANGED <<brokerVars, workerVars>>

DeadlinePasses(c) ==
    /\ deadline[c] = "armed"
    /\ deadline' = [deadline EXCEPT ![c] = "passed"]
    /\ UNCHANGED <<brokerVars, pc, request, waiter, response, held, proc>>

-----------------------------------------------------------------------------
\* The thread that serves connection c, and the monitor thread.
Worker(c) == DispatchRequest(c) \/ Wakeup(c) \/ SendResponse(c) \/ ReceiveEof(c)

Monitor == MonitorScan \/ MonitorSleep \/ MonitorWakeup

Next ==
    \/ \E c \in Conn : \/ Worker(c) \/ Connect(c) \/ ClientSend(c) \/ ClientClose(c)
                       \/ ChildInherits(c) \/ ChildCloses(c) \/ DeadlinePasses(c)
    \/ Monitor
    \/ \E p \in Pids : LeaderExits(p) \/ ProcessExits(p)

Spec == Init /\ [][Next]_vars

\* Every thread is scheduled.  A worker that asks for the mutex gets it in the
\* end although the monitor takes it again and again, hence strong fairness;
\* cond_timedwait returns after at most 250 ms; the clock advances.  The
\* clients owe nothing.
Fairness ==
    /\ \A c \in Conn : SF_vars(Worker(c)) /\ WF_vars(DeadlinePasses(c))
    /\ WF_vars(Monitor)

FairSpec == Spec /\ Fairness

-----------------------------------------------------------------------------
(* Properties.                                                              *)

WorkerStates == {"recv", "lock", "waiting", "woken", "send", "done"}

Asleep == {"waiting", "woken"}

\* Type invariant of the broker's own state (the store has its own in
\* SemStore): in particular the queue holds, once each, exactly the requests
\* whose threads are in the wait loop, so that the stack-allocated tgc_waiter
\* nodes in it are never dangling.
TypeOK ==
    /\ queue \in Seq(Conn)
    /\ \A c \in Conn : pc[c] \in Asleep <=> \E n \in DOMAIN queue : queue[n] = c
    /\ \A m, n \in DOMAIN queue : queue[m] = queue[n] => m = n
    /\ watchers \in [WatcherSlots -> Pids \cup {0}]
    /\ monitor \in [at : {"scan", "wait", "timedwait", "woken"}, slot : 1..(MaxWatchers + 1)]
    /\ pc \in [Conn -> WorkerStates]
    /\ request \in [Conn -> Requests \cup {NoRequest}]
    /\ deadline \in [Conn -> {"none", "armed", "passed"}]
    /\ held \in [Conn -> SUBSET {"owner", "child"}]
    /\ proc \in [Pids -> {"running", "leader_exited", "exited"}]

RetryBlocked(c) ==
    tgc_broker_dispatch(store, request[c], PidOf[c]).ret = BLOCKED

\* No lost wakeup: a request that sleeps without a wakeup on its way, and is
\* the one its set would serve, could not be performed now.  Every change of
\* values, every removal and every departure from the queue has to broadcast;
\* the 250 ms poll is not needed for this.
NoLostWakeup ==
    \A c \in Conn :
        pc[c] = "waiting" /\ waiter_is_first_for_set(queue, c) => RetryBlocked(c)

\* The monitor sleeps without a timeout only while there is nobody to watch:
\* a process registered by watch_process never waits for an unrelated event.
MonitorAttends ==
    monitor.at = "wait" => \A i \in WatcherSlots : watchers[i] = 0

\* GETNCNT and GETZCNT: the counts in the store are the waiters in the queue,
\* by set, semaphore and kind, whichever way requests leave (success, error,
\* timeout, closed peer) and although finish_waiter ignores the result of
\* adjust_wait_count for a set that has been removed meanwhile.
WaitCountsExact ==
    \A i \in Slots : \A s \in Sems(store.sets[i].nsems), zero \in BOOLEAN :
        store.sets[i][WaitersField(zero)][s]
      = Cardinality({c \in Conn : /\ pc[c] \in Asleep
                                  /\ request[c].semid = make_id(i, store.sets[i].generation)
                                  /\ waiter[c] = [sem_num |-> s, wait_for_zero |-> zero]})

\* Whoever has an undo adjustment is being watched, so that its exit will be
\* noticed: watch_process runs before the request, the monitor drops a
\* watcher only together with all entries of the process, and a request that
\* is performed later, from the queue, must still find its watcher.
UndoWatched ==
    \A e \in store.undo : \E i \in WatcherSlots : watchers[i] = e.pid

\* The monitor applies an adjustment only when no thread of its process can use
\* its semaphores any more.
UndoOnlyAfterExit ==
    [][monitor.at = "scan" =>
         \A e \in store.undo : e \in store'.undo \/ proc[e.pid] = "exited"]_vars

-----------------------------------------------------------------------------
(* Liveness, under FairSpec.                                                *)

\* A request that can no longer be granted, because its client has gone or its
\* set has been removed, leaves the queue, and not only the first of a set, the
\* only one that is retried: those behind it depend on the broadcast of each
\* departure and on the 250 ms look at the peer.
HopelessLeave ==
    \A c \in Conn :
        (pc[c] \in Asleep /\ (held[c] = {} \/ ~find_set(store, request[c].semid)))
        ~> (pc[c] \notin Asleep)

\* A timed request returns.
TimedReturns ==
    \A c \in Conn : (pc[c] \in Asleep /\ deadline[c] # "none") ~> (pc[c] \notin Asleep)

\* The adjustments of an exited process are applied and stay away.
ExitRestores ==
    \A p \in Pids : (proc[p] = "exited") ~> [](\A e \in store.undo : e.pid # p)

=============================================================================
