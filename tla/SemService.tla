----------------------------- MODULE SemService -----------------------------
(***************************************************************************)
(* What the broker promises its clients, without threads, queue, watchers  *)
(* and condition variable: every call is performed at one instant between  *)
(* its request and its response, by one operation of the sequential store, *)
(* and only when it need not wait; it is given up without any effect when  *)
(* its time is over or its client has gone; and the adjustments of a       *)
(* process are applied, all at once, only after it has exited.             *)
(*                                                                         *)
(* The sequential store is a parameter: Dispatch, with the functions of    *)
(* sem_store.c, for the broker.  Waiter counts are no part of the abstract *)
(* store: GETNCNT and GETZCNT of a semaphore may answer anything up to the *)
(* number of calls in progress.                                            *)
(***************************************************************************)
EXTENDS Errno, FiniteSets

CONSTANTS Conn,               \* client connections
          Requests,           \* requests the clients send
          Pids,               \* the client processes
          EmptyStore,         \* the store of a new broker
          Apply(_, _, _),     \* [ret, st] of a request for a process, on a store
          Payload(_, _),      \* the payload of the response to a request
          ExitOf(_, _),       \* [ret, st] of the exit of a process
          UsesUndo(_)         \* a request has SEM_UNDO

VARIABLES store,   \* the semaphores and adjustments
          call,    \* the call in progress on a connection
          peer,    \* the process a connection belongs to (SO_PEERCRED)
          gone,    \* the connections whose client end is closed
          exited   \* the processes that have exited

serviceVars == <<store, call, peer, gone, exited>>

Idle == [at |-> "idle"]
Pending(r) == [at |-> "pending", request |-> r]
Done(r, result, payload) ==
    [at |-> "done", request |-> r, result |-> result, payload |-> payload]

Init == /\ store = EmptyStore
        /\ call = [c \in Conn |-> Idle]
        /\ gone \subseteq Conn
        /\ exited = {}

\* Connection c asks for r.
Invoke(c, r) ==
    /\ call[c] = Idle
    /\ call' = [call EXCEPT ![c] = Pending(r)]
    /\ UNCHANGED store

Finish(c, result, payload) ==
    call' = [call EXCEPT ![c] = Done(call[c].request, result, payload)]

Counts == {"GETNCNT", "GETZCNT"}

\* Only a semop waits.
Perform(c) ==
    /\ call[c].at = "pending" /\ call[c].request.opcode \notin Counts
    /\ \E d \in {Apply(store, call[c].request, peer[c])} :
         /\ ~(call[c].request.opcode = "SEMOP" /\ d.ret = BLOCKED)
         /\ store' = d.st
         /\ Finish(c, d.ret, Payload(store, call[c].request))

InProgress == {c \in Conn : call[c].at = "pending"}

PerformCount(c) ==
    /\ call[c].at = "pending" /\ call[c].request.opcode \in Counts
    /\ \E ret \in IF Apply(store, call[c].request, peer[c]).ret = EINVAL THEN {EINVAL}
                  ELSE 0..Cardinality(InProgress) : Finish(c, ret, NoData)
    /\ UNCHANGED store

TimeOut(c) ==
    /\ call[c].at = "pending" /\ call[c].request.opcode = "SEMOP" /\ call[c].request.timed
    /\ Finish(c, EAGAIN, NoData)
    /\ UNCHANGED store

\* The process cannot be watched, so its SEM_UNDO operation is refused.
Refuse(c) ==
    /\ call[c].at = "pending" /\ UsesUndo(call[c].request)
    /\ \E ret \in {ENOSPC, ENOENT} : Finish(c, ret, NoData)
    /\ UNCHANGED store

\* The client of a waiting operation has gone; nobody gets this response.
Abandon(c) ==
    /\ call[c].at = "pending" /\ call[c].request.opcode = "SEMOP" /\ c \in gone
    /\ Finish(c, BLOCKED, NoData)
    /\ UNCHANGED store

Reply(c) ==
    /\ call[c].at = "done"
    /\ call' = [call EXCEPT ![c] = Idle]
    /\ UNCHANGED store

\* What happens to calls on connection c.
Serve(c) ==
    /\ \/ \E r \in Requests : Invoke(c, r)
       \/ Perform(c) \/ PerformCount(c) \/ TimeOut(c) \/ Refuse(c) \/ Abandon(c) \/ Reply(c)
    /\ UNCHANGED <<peer, gone, exited>>

\* The adjustments of an exited process.
Restore(p) ==
    /\ p \in exited
    /\ store' = ExitOf(store, p).st
    /\ UNCHANGED <<call, peer, gone, exited>>

\* Clients connect, close and exit.
Environment ==
    /\ exited \subseteq exited'
    /\ UNCHANGED <<store, call>>

Next == \/ \E c \in Conn : Serve(c)
        \/ \E p \in Pids : Restore(p)
        \/ Environment

Spec == Init /\ [][Next]_serviceVars

=============================================================================
