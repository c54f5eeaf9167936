------------------------------ MODULE Dispatch ------------------------------
(***************************************************************************)
(* The dispatcher of the broker (src/src/broker_dispatch.c): one store     *)
(* call per opcode.  Requests are well formed, as client.c builds them;    *)
(* SEMTIMEDOP is a SEMOP with timed set.  All peers have the broker's own  *)
(* uid; allocated is the outcome of calloc during the request.             *)
(***************************************************************************)
EXTENDS SemStoreOps

Peer == [uid |-> 1, gid |-> 1]

Reads   == {"GETALL", "STAT", "STAT_INDEX", "INFO"}
Semnums == {"GETVAL", "GETPID", "GETNCNT", "GETZCNT"}

OpType == [sem_num : Nat, sem_op : Int, sem_flg : SUBSET {"IPC_NOWAIT", "SEM_UNDO", "OTHER"}]

\* The well-formed requests.
Request ==
         [opcode : {"PING"}]
    \cup [opcode : {"SEMGET"}, key : Int, nsems : Int, allocated : BOOLEAN,
          flags : [creat : BOOLEAN, excl : BOOLEAN, mode : Permissions]]
    \cup [opcode : {"REMOVE", "STAT"}, semid : Int]
    \cup [opcode : Semnums, semid : Int, semnum : Nat]
    \cup [opcode : {"SETVAL"}, semid : Int, semnum : Nat, value : Nat]
    \cup [opcode : {"SETALL"}, semid : Int,
          values : UNION {[Sems(n) -> Nat] : n \in 1..MaxPerSet}]
    \cup [opcode : {"SEMOP"}, semid : Int, ops : Seq(OpType), timed : BOOLEAN]
    \cup [opcode : {"SEMOP"}, semid : Int, ops : Seq(OpType), timed : {TRUE},
          timeout_ns : Nat]
    \cup [opcode : {"SETMETA"}, semid : Int, uid : Nat, gid : Nat, mode : Nat]
    \cup [opcode : {"GETALL"}, semid : Int, count : Nat]
    \cup [opcode : {"STAT_INDEX"}, index : Int]
    \cup [opcode : {"INFO"}, dynamic : BOOLEAN]

dispatch_semget(st, r) == get_as(st, r.key, r.nsems, r.flags, Peer, r.allocated)

dispatch_semnum(st, r) ==
    CASE r.opcode = "GETVAL"  -> getval(st, r.semid, r.semnum)
      [] r.opcode = "GETPID"  -> getpid(st, r.semid, r.semnum)
      [] r.opcode = "GETNCNT" -> get_wait_count(st, r.semid, r.semnum, FALSE)
      [] r.opcode = "GETZCNT" -> get_wait_count(st, r.semid, r.semnum, TRUE)

dispatch_setval(st, r, pid) == setval(st, r.semid, r.semnum, r.value, pid)

dispatch_setall(st, r, pid) == setall(st, r.semid, r.values, pid)

dispatch_semop(st, r, pid) == tryop(st, r.semid, r.ops, pid)

dispatch_setmeta(st, r) == set_metadata(st, r.semid, r.uid, r.gid, r.mode, Peer)

\* GETALL, STAT, STAT_INDEX and INFO have a payload in their response.
dispatch_read(st, r) ==
    CASE r.opcode = "GETALL"     -> getall(st, r.semid, r.count)
      [] r.opcode = "STAT"       -> get_metadata(st, r.semid)
      [] r.opcode = "STAT_INDEX" -> stat_index(st, r.index)
      [] r.opcode = "INFO"       -> info(st, r.dynamic)

tgc_broker_dispatch(st, r, pid) ==
    CASE r.opcode = "PING"      -> Fail(st, OK)
      [] r.opcode = "SEMGET"    -> dispatch_semget(st, r)
      [] r.opcode = "REMOVE"    -> remove(st, r.semid)
      [] r.opcode = "SETVAL"    -> dispatch_setval(st, r, pid)
      [] r.opcode = "SETALL"    -> dispatch_setall(st, r, pid)
      [] r.opcode = "SEMOP"     -> dispatch_semop(st, r, pid)
      [] r.opcode = "SETMETA"   -> dispatch_setmeta(st, r)
      [] r.opcode \in Semnums   -> Fail(st, dispatch_semnum(st, r))
      [] r.opcode \in Reads     -> Fail(st, dispatch_read(st, r).ret)

\* The payload of the response; an error response has none.
response_payload(st, r) == IF r.opcode \in Reads THEN dispatch_read(st, r).data ELSE NoData

IsBlocked(r, d) == r.opcode = "SEMOP" /\ d.ret = BLOCKED

\* Mutant: SEMOP is forgotten.
timed_request_uses_undo(r) ==
    /\ r.opcode = "SEMOP" /\ r.timed
    /\ \E n \in DOMAIN r.ops : "SEM_UNDO" \in r.ops[n].sem_flg

request_uses_undo(r) ==
    r.opcode = "SEMOP" /\ \E n \in DOMAIN r.ops : "SEM_UNDO" \in r.ops[n].sem_flg

\* A set, and the store, without waiter counts.
Bare(set) ==
    LET none == [s \in Sems(set.nsems) |-> 0]
    IN  [set EXCEPT !.negative_waiters = none, !.zero_waiters = none]

Uncounted(st) == [sets |-> [i \in Slots |-> Bare(st.sets[i])], undo |-> st.undo]

=============================================================================
