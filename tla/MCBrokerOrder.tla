--------------------------- MODULE MCBrokerOrder ---------------------------
(***************************************************************************)
(* A small instance of BrokerOrder for TLC.                                *)
(***************************************************************************)
EXTENDS MCBroker, BrokerOrder

Both  == <<Op(0, 1, {}), Op(1, 1, {})>>
Mixed == <<Op(1, -1, {}), Op(0, 0, {})>>  \* blocks on either semaphore

\* Queueing: waits for an increment, for zero, with a timeout; removal while
\* requests wait, and the next set of the slot.
QueueRequests ==
    { GetReq(2), RemoveReq, SemopReq(Id1, Both, FALSE), SemopReq(Id1, Down, FALSE),
      SemopReq(Id1, Mixed, FALSE), SemopReq(Id2, Down, TRUE) }

AnyConn == Permutations(Conn)

=============================================================================
