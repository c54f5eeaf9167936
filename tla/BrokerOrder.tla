---------------------------- MODULE BrokerOrder ----------------------------
(***************************************************************************)
(* The broker with a history of who fell asleep before whom, kept apart    *)
(* from the queue of waiters: the order of the queue is what enqueue_waiter*)
(* and remove_waiter of src/src/broker_server.c have to get right.         *)
(***************************************************************************)
EXTENDS BrokerService

VARIABLE elders  \* of a sleeping request: those asleep since before it

orderVars == <<vars, elders>>

OrderInit == Init /\ elders = [c \in Conn |-> {}]

\* Asleep from before this step to after it.
StillAsleep == {d \in Conn : pc[d] \in Asleep /\ pc'[d] \in Asleep}

OrderNext ==
    /\ Next
    /\ elders' = [c \in Conn |-> IF pc'[c] \notin Asleep THEN {}
                                 ELSE IF pc[c] \in Asleep THEN elders[c] \intersect StillAsleep
                                 ELSE StillAsleep]

OrderSpec == OrderInit /\ [][OrderNext]_orderVars

\* First in, first out: a request that blocked is performed only when no request
\* for the same set that blocked before it still waits, whatever has left the
\* queue from its middle, by a timeout or a closed peer, since then.
FifoGrants ==
    [][\A c \in Conn : pc[c] \in Asleep /\ pc'[c] = "send" /\ response'[c].result = OK
          => \A d \in elders[c] : request[d].semid # request[c].semid]_orderVars

=============================================================================
