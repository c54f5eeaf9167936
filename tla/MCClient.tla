------------------------------ MODULE MCClient ------------------------------
(***************************************************************************)
(* A small instance of Client for TLC: two threads of one process, and a   *)
(* process that one of them forks.  A second has ten nanoseconds.          *)
(***************************************************************************)
EXTENDS Client

CONSTANTS t1, t2, u

ProcessOf == [t \in Tasks |-> IF t = u THEN 2 ELSE 1]

Id == make_id(0, 1)

Get(nsems) == [opcode |-> "SEMGET", key |-> 7, nsems |-> nsems, allocated |-> TRUE,
               flags |-> [creat |-> TRUE, excl |-> FALSE, mode |-> 384]]

Single(r) == [fn |-> "single", request |-> r]

Down == <<[sem_num |-> 0, sem_op |-> -1, sem_flg |-> {}]>>

Wait == Single([opcode |-> "SEMOP", semid |-> Id, ops |-> Down, timed |-> FALSE])

Timed(seconds, nanoseconds) ==
    [fn |-> "semtimedop", semid |-> Id, ops |-> Down,
     seconds |-> seconds, nanoseconds |-> nanoseconds]

Getall == [fn |-> "getall", semid |-> Id]
Setall == [fn |-> "setall", semid |-> Id, value |-> 1]
Rmid == Single([opcode |-> "REMOVE", semid |-> Id])

\* A set of one semaphore.
OneSet == tgc_broker_dispatch(EmptyStore, Get(1), 1).st

Start(first, gone, calls1, calls2, calls3, nf) ==
    [first |-> first, exited |-> gone, store |-> OneSet, faults |-> nf,
     todo |-> [t \in Tasks |-> CASE t = t1 -> calls1 [] t = t2 -> calls2 [] t = u -> calls3]]

\* A thread and the process it forks; two threads, of which one reads or writes the
\* set while the other replaces it by a larger one; all three, without faults; one
\* thread whose request IDs start again; timeouts.
TheStarts ==
    { Start({t1}, {}, {Rmid, Wait}, {}, {Wait}, 2),
      Start({t1, t2}, {2}, {Getall}, {Rmid, Single(Get(2))}, {}, 1),
      Start({t1, t2}, {2}, {Setall}, {Rmid, Single(Get(2))}, {}, 1),
      Start({t1, t2}, {2}, {Setall}, {Wait}, {}, 1),
      Start({t1}, {2}, {Wait, Timed(1, 0), Rmid}, {}, {}, 1),
      Start({t1, t2}, {}, {Rmid}, {Wait}, {Wait}, 0) }
    \union { Start({t1}, {2}, {Timed(s, n)}, {}, {}, 0) : s \in {-1, 0, 1, 12, 13}, n \in {-1, 0, 7, 8, 9, 10} }

Clock == [tv_sec : {0, 1, 11, 12}, tv_nsec : {0, 4, 9}]

=============================================================================
