------------------------------ MODULE MCBroker ------------------------------
(***************************************************************************)
(* Small instances of Broker for TLC.                                      *)
(***************************************************************************)
EXTENDS BrokerService, TLC

CONSTANTS c1, c2, c3

Op(n, d, f) == [sem_num |-> n, sem_op |-> d, sem_flg |-> f]

\* Identifiers of the first and the second set of slot 0.
Id1 == make_id(0, 1)
Id2 == make_id(0, 2)

SemopReq(semid, ops, timed) ==
    [opcode |-> "SEMOP", semid |-> semid, ops |-> ops, timed |-> timed]
GetReq(nsems) == [opcode |-> "SEMGET", key |-> 7, nsems |-> nsems, allocated |-> TRUE,
                  flags |-> [creat |-> TRUE, excl |-> FALSE, mode |-> 384]]
SetvalReq(n, v) == [opcode |-> "SETVAL", semid |-> Id1, semnum |-> n, value |-> v]
RemoveReq == [opcode |-> "REMOVE", semid |-> Id1]

\* c1 and c2 are threads of process 1, c3 belongs to process 2.
TwoProcesses == [c \in Conn |-> IF c = c3 THEN 2 ELSE 1]
OneProcess == [c \in Conn |-> 1]

Down == <<Op(0, -1, {})>>
Lock == <<Op(0, -1, {"SEM_UNDO"})>>

\* SEM_UNDO: requests of processes that exit while holding or waiting.
UndoRequests ==
    { GetReq(1), SetvalReq(0, 1), SemopReq(Id1, Lock, FALSE) }

ReleaseRequests == { GetReq(1), RemoveReq, SemopReq(Id1, Down, FALSE) }

TimedRequests == { GetReq(1), SetvalReq(0, 1), SemopReq(Id1, Lock, TRUE) }

SameProcess == Permutations({c1, c2})
=============================================================================
